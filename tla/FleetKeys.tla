------------------------------ MODULE FleetKeys ------------------------------
(***************************************************************************)
(* The v2 control plane of one tenant: who is a root custodian, which      *)
(* devices and capabilities it vouches for, and how a root key and a fleet *)
(* key go from one generation to the next (server/src/bootstrap.rs and     *)
(* server/src/routes/v2_approval.rs, v2_capability.rs, v2_root.rs,         *)
(* v2_root_grants.rs, v2_fleet.rs, v2_device_revoke.rs).                   *)
(*                                                                         *)
(* Every handler is one BEGIN IMMEDIATE transaction that reloads its       *)
(* session first, so every handler is one action and begins with Live.     *)
(* The handlers of different devices interleave freely, and a generation   *)
(* is PREPARING for as long as its members take to acknowledge: what the   *)
(* properties are about is what the other handlers do to it meanwhile.     *)
(*                                                                         *)
(* The tenant has one fleet and one account, every signature and key ID    *)
(* matches, and every grant and session is inside its window.              *)
(***************************************************************************)
EXTENDS Integers, FiniteSets

CONSTANTS
    Devices,      \* the devices that may enroll
    None,         \* no device
    MaxRoot,      \* bound: the last root generation
    MaxFleet,     \* bound: the last generation of the fleet key
    MaxRotations, \* bound: generations after the first, of both keys together
    MaxScopes,    \* bound: approvals of different scopes a device has
    MaxExtras,    \* bound: device containers filed outside a required set and
                  \* grants revoked, when another is filed or revoked by itself
    MaxRewraps,   \* bound: recovery grants filed besides the required ones
    Filings       \* bound: the sets of capabilities a custodian files

RootGens  == 0 .. MaxRoot
FleetGens == 0 .. MaxFleet
NoRoot    == -1

Scopes       == {"tenant", "fleet"}
Capabilities == {"device.approve", "device.revoke", "fleet.manage", "key.rotate"}

ASSUME BoundsAssumption ==
    /\ MaxRoot \in Nat
    /\ MaxFleet \in Nat
    /\ MaxRotations \in Nat
    /\ MaxScopes \in Nat
    /\ MaxExtras \in Nat
    /\ MaxRewraps \in Nat
    /\ None \notin Devices
    /\ Filings \subseteq SUBSET (Capabilities \X Scopes)

(***************************************************************************)
(* A generation is created with the hash of the set of signed grants it    *)
(* needs, and only these very containers fill it.  A device has at most    *)
(* one of them; any other container to the same device, one filed after    *)
(* the first was revoked among them, is "other".                           *)
(***************************************************************************)
Containers == {"required", "other"}

GrantStates == {"none", "filed", "acked", "revoked"}
GenStates   == {"none", "PREPARING", "ACTIVE", "RETIRED"}

VARIABLES
    guard,      \* v2_bootstrap_guards: the tenant's only first-device opportunity
    conf,       \* the device of the tenant's only first-device confirmation
    dev,        \* v2_devices: the status of each device
    sess,       \* v2_sessions: the class of each device's unrevoked session
    appr,       \* v2_device_approvals: the scopes of a device's unrevoked approvals
    caps,       \* v2_capability_grants: a device's unrevoked capabilities
    root,       \* v2_root_key_generations: state and required custodians
    active,     \* v2_tenants.active_root_generation
    rootGrant,  \* v2_tenant_root_key_grants, by generation, subject and container
    fleet,      \* v2_fleet_key_generations: state, required devices, root, creator
    devGrant,   \* v2_fleet_device_hpke_grants, by generation, subject and container
    recGrant,   \* v2_fleet_recovery_grants, by generation, recipient root and container
    rotGrant    \* v2_fleet_rotation_grants, by generation

boot  == <<guard, conf>>
trust == <<dev, sess, appr, caps>>
roots == <<root, active, rootGrant>>
fleets == <<fleet, devGrant, recGrant, rotGrant>>
vars  == <<boot, trust, roots, fleets>>

NoGrant    == [c \in Containers |-> "none"]
NoRootGen  == [st |-> "none", need |-> {}]
NoFleetGen == [st |-> "none", need |-> {}, root |-> NoRoot, by |-> None]

Init ==
    /\ guard = "unused"
    /\ conf = None
    /\ dev = [d \in Devices |-> "none"]
    /\ sess = [d \in Devices |-> "none"]
    /\ appr = [d \in Devices |-> {}]
    /\ caps = [d \in Devices |-> {}]
    /\ root = [g \in RootGens |-> NoRootGen]
    /\ active = NoRoot
    /\ rootGrant = [g \in RootGens |-> [d \in Devices |-> NoGrant]]
    /\ fleet = [g \in FleetGens |-> NoFleetGen]
    /\ devGrant = [g \in FleetGens |-> [d \in Devices |-> NoGrant]]
    /\ recGrant = [g \in FleetGens |-> [r \in RootGens |-> NoGrant]]
    /\ rotGrant = [g \in FleetGens |-> "none"]

-----------------------------------------------------------------------------
(***************************************************************************)
(* What the handlers ask of the tables.                                    *)
(***************************************************************************)

\* The D1 approval of a device: the one the first-device confirmation consumed.
D1Live(d) == guard = "consumed" /\ conf = d /\ "tenant" \in appr[d]

\* reload_session: the row is unrevoked, and the device is still in the state
\* its class needs.  An approval turns a pending session into a dead row.
Live(d) ==
    \/ sess[d] = "pending_setup" /\ dev[d] = "pending"
    \/ sess[d] = "root_setup" /\ dev[d] = "active" /\ D1Live(d)
    \/ sess[d] = "ordinary" /\ dev[d] = "active" /\ appr[d] # {}

\* confers_custody for some grant of generation g to device d.
ConfersCustody(g, d) ==
    /\ dev[d] = "active"
    /\ \E c \in Containers : rootGrant[g][d][c] = "acked"

\* active_root: the generation the pointer names, if its row is ACTIVE.
ActiveRoot(g) == g = active /\ g # NoRoot /\ root[g].st = "ACTIVE"

\* is_active_custodian.
Custodian(d) == \E g \in RootGens : ActiveRoot(g) /\ ConfersCustody(g, d)

\* holds_capability: a custodian with a grant whose scope covers the one asked.
Holds(d, scope, k) ==
    /\ Custodian(d)
    /\ <<k, "tenant">> \in caps[d] \/ <<k, scope>> \in caps[d]

\* wraps_under: a custodian of the ACTIVE root, or one that also holds a grant
\* of the PREPARING root it wraps under.
WrapsUnder(d, r) ==
    /\ Custodian(d)
    /\ ActiveRoot(r) \/ (root[r].st = "PREPARING" /\ ConfersCustody(r, d))

\* holds_generation: an acknowledged, live device grant.
HoldsGeneration(d, g) == \E c \in Containers : devGrant[g][d][c] = "acked"

\* has_grant: any grant of the generation was ever filed for the device.
HasGrant(d, g) == \E c \in Containers : devGrant[g][d][c] # "none"

\* No approval, capability, root generation or root grant, revoked rows included.
NoHistory ==
    /\ \A d \in Devices : appr[d] = {} /\ caps[d] = {} /\ dev[d] # "revoked"
    /\ \A g \in RootGens : root[g].st = "none"

\* The bounds: containers filed outside a required set, grants revoked so far.
Others(grant) ==
    Cardinality({x \in (DOMAIN grant) \X (DOMAIN grant[0]) :
                    grant[x[1]][x[2]]["other"] # "none"})
Revoked(grant) ==
    Cardinality({x \in (DOMAIN grant) \X (DOMAIN grant[0]) \X Containers :
                    grant[x[1]][x[2]][x[3]] = "revoked"})

RotationBound ==
    Cardinality({g \in RootGens \ {0} : root[g].st # "none"})
        + Cardinality({g \in FleetGens \ {0} : fleet[g].st # "none"}) < MaxRotations
ExtraBound ==
    Others(rootGrant) + Others(devGrant)
        + Revoked(rootGrant) + Revoked(devGrant) + Revoked(recGrant)
        + Cardinality({g \in FleetGens : rotGrant[g] = "revoked"}) < MaxExtras
RewrapBound == Others(recGrant) < MaxRewraps

-----------------------------------------------------------------------------
(***************************************************************************)
(* Devices and sessions.                                                   *)
(***************************************************************************)

\* enroll_device, with its challenge.
EnrollDevice(d) ==
    /\ dev[d] = "none"
    /\ dev' = [dev EXCEPT ![d] = "pending"]
    /\ UNCHANGED <<boot, sess, appr, caps, roots, fleets>>

\* Fault: an active device's class is its status.
ClassOf_Status(d) ==
    CASE dev[d] = "pending"                 -> "pending_setup"
      [] dev[d] = "active" /\ appr[d] # {}  -> dev[d]
      [] OTHER                              -> "none"

\* The class a new session of the device gets.
ClassOf(d) ==
    CASE dev[d] = "pending"                              -> "pending_setup"
      [] dev[d] = "active" /\ D1Live(d)                  -> "root_setup"
      [] dev[d] = "active" /\ ~D1Live(d) /\ appr[d] # {} -> "ordinary"
      [] OTHER                                           -> "none"

\* The device session exchange, with its ticket and challenge.  A device with
\* a live session may sign in again, which changes nothing here.
SignIn(d) ==
    /\ ~Live(d)
    /\ ClassOf(d) # "none"
    /\ sess' = [sess EXCEPT ![d] = ClassOf(d)]
    /\ UNCHANGED <<boot, dev, appr, caps, roots, fleets>>

\* tenant confirm-first-device.
Confirm(d) ==
    /\ guard = "unused"
    /\ NoHistory
    /\ dev[d] = "pending"
    /\ guard' = "reserved"
    /\ conf' = d
    /\ UNCHANGED <<trust, roots, fleets>>

\* tenant cancel-first-device: the opportunity never reopens.
Cancel ==
    /\ guard = "reserved"
    /\ dev[conf] = "pending"
    /\ guard' = "closed"
    /\ UNCHANGED <<conf, trust, roots, fleets>>

\* first_approval: the confirmed device approves itself; its session is promoted.
FirstApproval(d) ==
    /\ Live(d)
    /\ guard = "reserved"
    /\ NoHistory
    /\ sess[d] = "pending_setup"
    /\ dev[d] = "pending"
    /\ conf = d
    /\ guard' = "consumed"
    /\ dev' = [dev EXCEPT ![d] = "active"]
    /\ sess' = [sess EXCEPT ![d] = "root_setup"]
    /\ appr' = [appr EXCEPT ![d] = {"tenant"}]
    /\ UNCHANGED <<conf, caps, roots, fleets>>

\* ordinary_approval: of a pending device, or of the issuer's own.  A pending
\* device's session is dead once it is active, and is dropped from the model;
\* another approval of a scope the device has changes nothing here.
OrdinaryApproval(a, d, scope) ==
    /\ scope \notin appr[d]
    /\ dev[d] = IF d = a THEN "active" ELSE "pending"
    /\ Cardinality(appr[d] \cup {scope}) <= MaxScopes
    /\ Live(a)
    /\ guard = "consumed"
    /\ Holds(a, scope, "device.approve")
    /\ dev' = [dev EXCEPT ![d] = "active"]
    /\ sess' = [sess EXCEPT ![d] = IF d = a THEN @ ELSE "none"]
    /\ appr' = [appr EXCEPT ![d] = @ \cup {scope}]
    /\ UNCHANGED <<boot, caps, roots, fleets>>

\* subject_is_live.
SubjectIsLive(d) == dev[d] = "active"

\* file_capability_grant, once for each member of ks; one of a capability the
\* device has changes nothing here.
FileCapabilityGrant(a, d, ks) ==
    /\ ~(ks \subseteq caps[d])
    /\ SubjectIsLive(d)
    /\ Live(a)
    /\ Custodian(a)
    /\ caps' = [caps EXCEPT ![d] = @ \cup ks]
    /\ UNCHANGED <<boot, dev, sess, appr, roots, fleets>>

-----------------------------------------------------------------------------
(***************************************************************************)
(* Root generations.                                                       *)
(***************************************************************************)

\* bootstrap: generation 0 with the self-grant of the first device.
BootstrapRoot(d) ==
    /\ Live(d)
    /\ sess[d] = "root_setup"
    /\ \A g \in RootGens : root[g].st = "none"
    /\ D1Live(d)
    /\ root' = [root EXCEPT ![0] = [st |-> "PREPARING", need |-> {d}]]
    /\ rootGrant' = [rootGrant EXCEPT ![0][d]["required"] = "filed"]
    /\ UNCHANGED <<boot, trust, active, fleets>>

\* rotate: the generation after the ACTIVE one, while none is PREPARING.
RotateRoot(a, need) ==
    /\ active + 1 \in RootGens
    /\ \A g \in RootGens : root[g].st # "PREPARING"
    /\ Live(a)
    /\ Holds(a, "tenant", "key.rotate")
    /\ RotationBound
    /\ root' = [root EXCEPT ![active + 1] = [st |-> "PREPARING", need |-> need]]
    /\ UNCHANGED <<boot, trust, active, rootGrant, fleets>>

\* Fault: any approval carries root custody.
RootEligible_AnyScope(d) == dev[d] = "active" /\ appr[d] # {}

\* The subject of a root grant: active, with a tenant-scoped approval.
RootEligible(d) == dev[d] = "active" /\ "tenant" \in appr[d]

\* file_root_grant: an ExistingRootGrant of the ACTIVE root, or a RotationGrant
\* of the PREPARING one after it.
FileRootGrant(a, d, g, c) ==
    /\ c = "required" => d \in root[g].need
    /\ RootEligible(d)
    /\ ActiveRoot(g) \/ (root[g].st = "PREPARING" /\ ActiveRoot(g - 1))
    /\ rootGrant[g][d][c] = "none"
    /\ Live(a)
    /\ Custodian(a)
    /\ c = "other" => ExtraBound
    /\ rootGrant' = [rootGrant EXCEPT ![g][d][c] = "filed"]
    /\ UNCHANGED <<boot, trust, root, active, fleets>>

\* ack_root_grant.
AckRootGrant(d, g, c) ==
    /\ rootGrant[g][d][c] = "filed"
    /\ Live(d)
    /\ root[g].st \in {"PREPARING", "ACTIVE"}
    /\ rootGrant' = [rootGrant EXCEPT ![g][d][c] = "acked"]
    /\ UNCHANGED <<boot, trust, root, active, fleets>>

\* Fault: a PREPARING generation is not looked at.
FleetKeysWrappedUnder_Kept(g) ==
    \A f \in FleetGens : fleet[f].st \in {"ACTIVE", "RETIRED"} =>
        \E c \in Containers : recGrant[f][g][c] = "acked"

\* fleet_keys_wrapped_under: every generation of the fleet has an acknowledged
\* recovery grant under root g.
FleetKeysWrappedUnder(g) ==
    \A f \in FleetGens : fleet[f].st # "none" =>
        \E c \in Containers : recGrant[f][g][c] = "acked"

\* The acknowledged grants of a generation are exactly its required set.
RootSetComplete(g) ==
    /\ \A d \in root[g].need : rootGrant[g][d]["required"] = "acked"
    /\ \A d \in Devices : rootGrant[g][d]["other"] # "acked"

\* apply_root_activation: everything it refuses on.
RootActivates(a, g) ==
    /\ IF g = 0 THEN sess[a] = "root_setup" ELSE Holds(a, "tenant", "key.rotate")
    /\ root[g].st = "PREPARING"
    /\ IF g = 0 THEN active = NoRoot ELSE ActiveRoot(g - 1)
    /\ FleetKeysWrappedUnder(g)
    /\ RootSetComplete(g)
    /\ \E c \in Containers : rootGrant[g][a][c] = "acked"

\* ... and what it writes besides the pointer.
RootActivated(g) ==
    [h \in RootGens |-> IF h = g THEN [root[h] EXCEPT !.st = "ACTIVE"]
                        ELSE IF h = active THEN [root[h] EXCEPT !.st = "RETIRED"]
                        ELSE root[h]]

\* activate_root_generation.
ActivateRoot(a, g) ==
    /\ Live(a)
    /\ RootActivates(a, g)
    /\ root' = RootActivated(g)
    /\ active' = g
    /\ UNCHANGED <<boot, trust, rootGrant, fleets>>

\* Another acknowledged grant of g confers custody once <<d, c>> is revoked.
AnotherCustodian(g, d, c) ==
    \E e \in Devices, b \in Containers :
        /\ <<e, b>> # <<d, c>>
        /\ rootGrant[g][e][b] = "acked"
        /\ dev[e] = "active"

\* revoke_root_grant: the subject's sessions end with the grant.
RevokeRootGrant(a, d, g, c) ==
    /\ rootGrant[g][d][c] \in {"filed", "acked"}
    /\ Live(a)
    /\ Custodian(a)
    /\ ExtraBound
    /\ (rootGrant[g][d][c] = "acked" /\ root[g].st = "ACTIVE") => AnotherCustodian(g, d, c)
    /\ rootGrant' = [rootGrant EXCEPT ![g][d][c] = "revoked"]
    /\ sess' = [sess EXCEPT ![d] = "none"]
    /\ UNCHANGED <<boot, dev, appr, caps, root, active, fleets>>

-----------------------------------------------------------------------------
(***************************************************************************)
(* Generations of the fleet key.                                           *)
(***************************************************************************)

\* create_fleet_generation: what it checks of the generation it would create.
\* The codec holds a rotation's target to the generation after its previous.
MayCreateFleet(a, g) ==
    /\ \E r \in RootGens : ActiveRoot(r)
    /\ IF g = 0
       THEN /\ Holds(a, "fleet", "fleet.manage")
            /\ \A f \in FleetGens : fleet[f].st = "none"
       ELSE /\ Holds(a, "fleet", "key.rotate")
            /\ fleet[g - 1].st = "ACTIVE"
            /\ fleet[g].st = "none"

CreateFleetGeneration(a, g, need) ==
    /\ Live(a)
    /\ MayCreateFleet(a, g)
    /\ g = 0 \/ RotationBound
    /\ fleet' = [fleet EXCEPT ![g] =
                    [st |-> "PREPARING", need |-> need, root |-> active, by |-> a]]
    /\ UNCHANGED <<boot, trust, roots, devGrant, recGrant, rotGrant>>

\* The subject of a device grant: active, with a live approval.
FleetEligible(d) == dev[d] = "active" /\ appr[d] # {}

\* file_fleet_grant, DeviceHpkeGrant: by a holder of the generation, or by its
\* creator to itself, once.
FileDeviceGrant(a, d, g, c) ==
    /\ fleet[g].st \in {"PREPARING", "ACTIVE"}
    /\ devGrant[g][d][c] = "none"
    /\ c = "required" => d \in fleet[g].need
    /\ FleetEligible(d)
    /\ Live(a)
    /\ Holds(a, "fleet", "fleet.manage")
    /\ \/ d = a /\ fleet[g].by = a /\ ~HasGrant(a, g)
       \/ HoldsGeneration(a, g)
    /\ c = "other" => ExtraBound
    /\ devGrant' = [devGrant EXCEPT ![g][d][c] = "filed"]
    /\ UNCHANGED <<boot, trust, roots, fleet, recGrant, rotGrant>>

\* file_fleet_grant, RecoveryGrant: a PREPARING generation's goes under the
\* ACTIVE root.
FileRecoveryGrant(a, g, r, c) ==
    /\ fleet[g].st # "none"
    /\ recGrant[g][r][c] = "none"
    /\ c = "required" => r = fleet[g].root
    /\ fleet[g].st = "PREPARING" => ActiveRoot(r)
    /\ Live(a)
    /\ WrapsUnder(a, r)
    /\ c = "other" => RewrapBound
    /\ recGrant' = [recGrant EXCEPT ![g][r][c] = "filed"]
    /\ UNCHANGED <<boot, trust, roots, fleet, devGrant, rotGrant>>

\* file_fleet_grant, RotationGrant: the one the generation was created with.
FileRotationGrant(a, g) ==
    /\ Live(a)
    /\ g > 0
    /\ Holds(a, "fleet", "key.rotate")
    /\ HoldsGeneration(a, g - 1)
    /\ fleet[g].st = "PREPARING"
    /\ rotGrant[g] = "none"
    /\ rotGrant' = [rotGrant EXCEPT ![g] = "filed"]
    /\ UNCHANGED <<boot, trust, roots, fleet, devGrant, recGrant>>

\* ack_fleet_grant, by the subject.
AckDeviceGrant(d, g, c) ==
    /\ devGrant[g][d][c] = "filed"
    /\ Live(d)
    /\ fleet[g].st \in {"PREPARING", "ACTIVE"}
    /\ devGrant' = [devGrant EXCEPT ![g][d][c] = "acked"]
    /\ UNCHANGED <<boot, trust, roots, fleet, recGrant, rotGrant>>

\* ack_fleet_grant, by a device that could have filed it.
AckRecoveryGrant(a, g, r, c) ==
    /\ recGrant[g][r][c] = "filed"
    /\ Live(a)
    /\ WrapsUnder(a, r)
    /\ recGrant' = [recGrant EXCEPT ![g][r][c] = "acked"]
    /\ UNCHANGED <<boot, trust, roots, fleet, devGrant, rotGrant>>

\* ack_fleet_grant, by a custodian that may rotate the fleet key.
AckRotationGrant(a, g) ==
    /\ Live(a)
    /\ rotGrant[g] = "filed"
    /\ Holds(a, "fleet", "key.rotate")
    /\ fleet[g].st = "PREPARING"
    /\ rotGrant' = [rotGrant EXCEPT ![g] = "acked"]
    /\ UNCHANGED <<boot, trust, roots, fleet, devGrant, recGrant>>

\* The acknowledged device grants of a generation are exactly its required set.
FleetSetComplete(g) ==
    /\ \A d \in fleet[g].need : devGrant[g][d]["required"] = "acked"
    /\ \A d \in Devices : devGrant[g][d]["other"] # "acked"

\* apply_fleet_activation: everything it refuses on.
FleetActivates(a, g) ==
    /\ Holds(a, "fleet", IF g = 0 THEN "fleet.manage" ELSE "key.rotate")
    /\ fleet[g].st = "PREPARING"
    /\ g > 0 => fleet[g - 1].st = "ACTIVE" /\ rotGrant[g] = "acked"
    /\ FleetSetComplete(g)
    /\ \E r \in RootGens : ActiveRoot(r) /\ recGrant[g][r]["required"] = "acked"

\* ... and what it writes.
FleetActivated(g) ==
    [f \in FleetGens |-> IF f = g THEN [fleet[f] EXCEPT !.st = "ACTIVE"]
                         ELSE IF f = g - 1 THEN [fleet[f] EXCEPT !.st = "RETIRED"]
                         ELSE fleet[f]]

\* activate_fleet_generation.
ActivateFleet(a, g) ==
    /\ Live(a)
    /\ FleetActivates(a, g)
    /\ fleet' = FleetActivated(g)
    /\ UNCHANGED <<boot, trust, roots, devGrant, recGrant, rotGrant>>

\* revoke_fleet_grant, of each variant.
RevokeFleetGrant(a) ==
    /\ Live(a)
    /\ ExtraBound
    /\ Holds(a, "fleet", "fleet.manage")
    /\ \/ \E g \in FleetGens, d \in Devices, c \in Containers :
            /\ devGrant[g][d][c] \in {"filed", "acked"}
            /\ devGrant' = [devGrant EXCEPT ![g][d][c] = "revoked"]
            /\ UNCHANGED <<recGrant, rotGrant>>
       \/ \E g \in FleetGens, r \in RootGens, c \in Containers :
            /\ recGrant[g][r][c] \in {"filed", "acked"}
            /\ recGrant' = [recGrant EXCEPT ![g][r][c] = "revoked"]
            /\ UNCHANGED <<devGrant, rotGrant>>
       \/ \E g \in FleetGens :
            /\ rotGrant[g] \in {"filed", "acked"}
            /\ rotGrant' = [rotGrant EXCEPT ![g] = "revoked"]
            /\ UNCHANGED <<devGrant, recGrant>>
    /\ UNCHANGED <<boot, trust, roots, fleet>>

-----------------------------------------------------------------------------
(***************************************************************************)
(* Device revocation.                                                      *)
(***************************************************************************)

\* may_revoke: device.revoke of a scope that covers all of the subject's approvals.
MayRevoke(a, d) ==
    \/ <<"device.revoke", "tenant">> \in caps[a]
    \/ <<"device.revoke", "fleet">> \in caps[a] /\ appr[d] = {"fleet"}

\* Fault: a grant nobody acknowledged counts.
CustodianBesides_Filed(g, d) ==
    \E e \in Devices \ {d}, c \in Containers :
        dev[e] = "active" /\ rootGrant[g][e][c] \in {"filed", "acked"}

\* custodian_besides, once generation g is the ACTIVE root.
CustodianBesides(g, d) == \E e \in Devices \ {d} : ConfersCustody(g, e)

\* Every unrevoked grant that names device d, revoked.
RevokedFor(grant, d) ==
    [g \in DOMAIN grant |->
        [grant[g] EXCEPT ![d] =
            [c \in Containers |-> IF @[c] = "none" THEN "none" ELSE "revoked"]]]

\* revoke_everything.
RevokeEverything(d) ==
    /\ dev' = [dev EXCEPT ![d] = "revoked"]
    /\ sess' = [sess EXCEPT ![d] = "none"]
    /\ appr' = [appr EXCEPT ![d] = {}]
    /\ caps' = [caps EXCEPT ![d] = {}]
    /\ rootGrant' = RevokedFor(rootGrant, d)
    /\ devGrant' = RevokedFor(devGrant, d)

\* The activation a revocation carries, checked against the state before it:
\* none, a root's or a fleet's.  It cannot carry both: a fleet generation that
\* is or was just PREPARING has no recovery grant under the root to come.
CarriedActivation(a) ==
    \/ UNCHANGED <<root, active, fleet>>
    \/ \E g \in RootGens :
          RootActivates(a, g) /\ root' = RootActivated(g) /\ active' = g /\ UNCHANGED fleet
    \/ \E g \in FleetGens :
          FleetActivates(a, g) /\ fleet' = FleetActivated(g) /\ UNCHANGED <<root, active>>

\* revoke_device.  A revoked device may be revoked again, which changes nothing.
RevokeDevice(a, d) ==
    /\ dev[d] \in {"pending", "active"}
    /\ MayRevoke(a, d)
    /\ Live(a)
    /\ Custodian(a)
    /\ CarriedActivation(a)
    /\ CustodianBesides(active', d)
    /\ RevokeEverything(d)
    /\ UNCHANGED <<boot, recGrant, rotGrant>>

-----------------------------------------------------------------------------
ByDevice(a) ==
    \/ EnrollDevice(a)
    \/ SignIn(a)
    \/ Confirm(a)
    \/ FirstApproval(a)
    \/ BootstrapRoot(a)
    \/ RevokeFleetGrant(a)
    \/ \E need \in SUBSET Devices \ {{}} :
          RotateRoot(a, need) \/ \E g \in FleetGens : CreateFleetGeneration(a, g, need)
    \/ \E g \in RootGens : ActivateRoot(a, g)
    \/ \E g \in FleetGens :
          FileRotationGrant(a, g) \/ AckRotationGrant(a, g) \/ ActivateFleet(a, g)
    \/ \E g \in RootGens, c \in Containers : AckRootGrant(a, g, c)
    \/ \E g \in FleetGens, c \in Containers : AckDeviceGrant(a, g, c)
    \/ \E g \in FleetGens, r \in RootGens, c \in Containers :
          FileRecoveryGrant(a, g, r, c) \/ AckRecoveryGrant(a, g, r, c)

OnDevice(a, d) ==
    \/ \E scope \in Scopes : OrdinaryApproval(a, d, scope)
    \/ \E ks \in Filings : FileCapabilityGrant(a, d, ks)
    \/ \E g \in RootGens, c \in Containers :
          FileRootGrant(a, d, g, c) \/ RevokeRootGrant(a, d, g, c)
    \/ \E g \in FleetGens, c \in Containers : FileDeviceGrant(a, d, g, c)
    \/ RevokeDevice(a, d)

Next ==
    \/ Cancel
    \/ \E a \in Devices : ByDevice(a)
    \/ \E a, d \in Devices : OnDevice(a, d)

Spec == Init /\ [][Next]_vars

-----------------------------------------------------------------------------
(***************************************************************************)
(* Properties.                                                             *)
(***************************************************************************)

Slots == [Containers -> GrantStates]

\* The type invariant: every table holds rows of the shape its migration allows.
TypeOK ==
    /\ guard \in {"unused", "reserved", "consumed", "closed"}
    /\ conf \in Devices \cup {None}
    /\ dev \in [Devices -> {"none", "pending", "active", "revoked"}]
    /\ sess \in [Devices -> {"none", "pending_setup", "root_setup", "ordinary"}]
    /\ appr \in [Devices -> SUBSET Scopes]
    /\ caps \in [Devices -> SUBSET (Capabilities \X Scopes)]
    /\ root \in [RootGens -> [st : GenStates, need : SUBSET Devices]]
    /\ active \in RootGens \cup {NoRoot}
    /\ rootGrant \in [RootGens -> [Devices -> Slots]]
    /\ fleet \in [FleetGens -> [st : GenStates, need : SUBSET Devices,
                               root : RootGens \cup {NoRoot}, by : Devices \cup {None}]]
    /\ devGrant \in [FleetGens -> [Devices -> Slots]]
    /\ recGrant \in [FleetGens -> [RootGens -> Slots]]
    /\ rotGrant \in [FleetGens -> GrantStates]

\* A tenant with a root always has a custodian of the ACTIVE one: no order of
\* grants, rotations, revocations of grants and of devices, the issuer's own
\* among them, leaves a root nobody can rotate (the LAST_ROOT_CUSTODIAN checks
\* of revoke_root_grant and revoke_device, and activation by a member).
RootHasCustodian == active # NoRoot => \E d \in Devices : Custodian(d)

\* Whatever a device still holds is backed by its approval: a custodian is an
\* active device approved for the whole tenant, a member of the fleet an
\* active approved device, and a revoked device has no session, capability or
\* unrevoked grant, those filed before and those filed after its revocation
\* alike (revoke_everything and the subject checks of the filing handlers).
HoldingsAreBacked ==
    /\ \A g \in RootGens, d \in Devices, c \in Containers :
          rootGrant[g][d][c] \in {"filed", "acked"} =>
              dev[d] = "active" /\ "tenant" \in appr[d]
    /\ \A g \in FleetGens, d \in Devices, c \in Containers :
          devGrant[g][d][c] \in {"filed", "acked"} =>
              dev[d] = "active" /\ appr[d] # {}
    /\ \A d \in Devices : caps[d] # {} => dev[d] = "active"
    /\ \A d \in Devices : sess[d] # "none" => dev[d] \in {"pending", "active"}

\* The wrap of a PREPARING fleet key is under the root that is ACTIVE now,
\* however the root rotates meanwhile: "Filing and root activation keep this
\* true, so no request reaches it" (v2_fleet.rs:1625).
PreparingUnderActiveRoot ==
    \A g \in FleetGens : fleet[g].st = "PREPARING" =>
        /\ fleet[g].root = active
        /\ \A r \in RootGens, c \in Containers :
              recGrant[g][r][c] # "none" => ActiveRoot(r)

=============================================================================
