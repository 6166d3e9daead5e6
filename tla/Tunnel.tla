------------------------------- MODULE Tunnel -------------------------------
(***************************************************************************)
(* What Connect, Disconnect and ForceDisconnect (internal/wireguard) do to *)
(* the machine through netlink and systemd-resolved, command by command:   *)
(* the interface, its peer, the split routes, the host route that pins the *)
(* endpoint to the physical gateway, and which link answers DNS.  The main *)
(* goroutine runs any of the three, the sleep/wake goroutine may run       *)
(* ForceDisconnect beside it, and the process may die between any two      *)
(* commands.  The firewall is module Firewall's.                           *)
(***************************************************************************)
EXTENDS Naturals, Sequences

CONSTANTS Endpoints, NoEndpoint,   \* servers, by the address of their endpoint
          Gateways, NoGateway      \* default gateways of the physical network

ASSUME NoEndpointAssumption == NoEndpoint \notin Endpoints
ASSUME NoGatewayAssumption == NoGateway \notin Gateways

VARIABLES dev,       \* the WireGuard interface
          ep,        \* the endpoint of its peer, or the last it had
          split,     \* its routes 0.0.0.0/1 ("low") and 128.0.0.0/1 ("high")
          linkDns,   \* it has its own resolvers
          demoted,   \* the physical interface is no DNS default route
          pins,      \* host routes: endpoint -> gateway
          gw,        \* the current default gateway; none when off line
          todo,      \* the commands each goroutine has left
          job        \* its locals, and what has happened since it began

machineVars == <<dev, ep, split, linkDns, demoted, pins, gw>>
tunnelVars == <<machineVars, todo, job>>

Actors == {"main", "sleeper"}
Split == {"low", "high"}
Devs == {"none", "bare", "peered", "up", "stale", "cleared"}

\* What a Connect may have to do without, and does not say: the host route an
\* earlier one left is not removed, its own not added, no resolver configured,
\* the physical interface not demoted.  missed is kept while it matters: as long
\* as the Connect is clean (below) and has not failed.
Unsaid == {"unpin", "pin", "resolver", "demotion"}

NoTask == [target |-> NoEndpoint, old |-> NoEndpoint, clean |-> FALSE, missed |-> {}]

TunnelInit ==
  /\ dev = "none" /\ ep = NoEndpoint /\ split = {} /\ linkDns = FALSE
  /\ demoted = FALSE /\ pins = [e \in Endpoints |-> NoGateway]
  /\ gw \in Gateways
  /\ todo = [a \in Actors |-> <<>>]
  /\ job = [a \in Actors |-> NoTask]

\* IsConnected: interface up, a peer, a recent handshake or none yet.
TunnelConnected == dev = "up"
HasPeer == dev \in {"peered", "up", "stale"}
Idle(a) == todo[a] = <<>>

-----------------------------------------------------------------------------
(* The commands.  Each relates the machine before and after; its last      *)
(* argument is whether it fails, or what of it was refused without a word. *)

NoDevice == dev' = "none" /\ ep' = NoEndpoint /\ split' = {} /\ linkDns' = FALSE
KeepDevice == UNCHANGED <<dev, ep, split, linkDns>>
KeepNet == UNCHANGED <<demoted, pins, gw>>

\* Removing an interface takes its routes and its resolvers with it.
Delete(failed) ==
  /\ \/ ~failed /\ NoDevice
     \/ failed /\ dev # "none" /\ KeepDevice
  /\ KeepNet

\* Mutant: an interface that exists is taken over.
CreateOrAdopt(failed) ==
  ~failed /\ dev' = (IF dev = "none" THEN "bare" ELSE dev)
          /\ UNCHANGED <<ep, split, linkDns>> /\ KeepNet

Create(failed) ==
  /\ \/ ~failed /\ dev = "none" /\ dev' = "bare" /\ UNCHANGED <<ep, split, linkDns>>
     \/ failed /\ KeepDevice
  /\ KeepNet

\* ConfigureDevice with ReplacePeers: the peer and its endpoint.
Configure(e, failed) ==
  /\ \/ ~failed /\ dev # "none" /\ ep' = e
        /\ dev' = (IF dev = "bare" THEN "peered" ELSE dev) /\ UNCHANGED <<split, linkDns>>
     \/ failed /\ KeepDevice
  /\ KeepNet

\* AssignAddress, SetMTU (only warns) and BringUp.
RaiseLink(failed) ==
  /\ \/ ~failed /\ dev # "none" /\ dev' = (IF dev = "peered" THEN "up" ELSE dev)
        /\ UNCHANGED <<ep, split, linkDns>>
     \/ failed /\ KeepDevice
  /\ KeepNet

\* configureDNS without an error: nothing where the configuration names no
\* resolver; otherwise the demotion of the physical interface is best effort.
SetDns(missed) ==
  \/ missed = {"resolver", "demotion"} /\ UNCHANGED machineVars
  \/ /\ missed \subseteq {"demotion"} /\ dev # "none" /\ linkDns' = TRUE
     /\ demoted' = (demoted \/ (gw # NoGateway /\ missed = {}))
     /\ UNCHANGED <<dev, ep, split, pins, gw>>

\* Mutant: the route of an earlier connect is removed after the new one is added.
PinBeforeUnpin(e, missed) ==
  /\ missed = {} /\ pins' = [pins EXCEPT ![e] = NoGateway]
  /\ KeepDevice /\ UNCHANGED <<demoted, gw>>

\* configureRoutes, if a gateway is known: the route an earlier connect left is
\* removed and one through the gateway added, which fails where there still is
\* one.  Either may be refused (both are for an endpoint given by hostname), and
\* nobody looks.
Pin(e, missed) ==
  /\ missed \subseteq (IF gw = NoGateway THEN {} ELSE {"unpin", "pin"})
  /\ "unpin" \in missed => pins[e] # NoGateway
  /\ LET left == IF "unpin" \in missed THEN pins[e] ELSE NoGateway IN
     /\ left # NoGateway => "pin" \in missed
     /\ pins' = [pins EXCEPT ![e] = IF gw = NoGateway THEN @
                                    ELSE IF "pin" \in missed THEN left ELSE gw]
  /\ KeepDevice /\ UNCHANGED <<demoted, gw>>

\* AddSplitRoutes stops at a route that exists, which configureRoutes forgives;
\* any other error is one, and may come after the first route.
AddSplit(failed) ==
  /\ \/ ~failed /\ dev # "none" /\ split' = (IF "low" \in split THEN split ELSE Split)
     \/ failed /\ dev # "none" /\ split' \in {split, split \cup {"low"}}
     \/ failed /\ dev = "none" /\ UNCHANGED split
  /\ UNCHANGED <<dev, ep, linkDns>> /\ KeepNet

\* Connectivity, and a public IP that is not the one from before.
Verify(failed) ==
  (~failed => dev = "up" /\ split = Split) /\ UNCHANGED machineVars

\* Mutant: a host route is only removed by disconnects.
DropPinNever(e, failed) == ~failed /\ UNCHANGED machineVars

DropPin(e, failed) ==
  /\ pins' = IF failed \/ e = NoEndpoint THEN pins ELSE [pins EXCEPT ![e] = NoGateway]
  /\ KeepDevice /\ UNCHANGED <<demoted, gw>>

\* DeleteSplitRoutes, whose errors are ignored; without the interface both are
\* gone already.  That one alone may stay is left out: what follows is the same.
DropSplit ==
  split' \in {{}, split} /\ UNCHANGED <<dev, ep, linkDns>> /\ KeepNet

\* unconfigureDNS: the link is reverted and the physical interface restored, if
\* there is one; either may fail.
RevertDns(failed) ==
  /\ linkDns' \in {FALSE} \cup (IF failed THEN {linkDns} ELSE {})
  /\ demoted' \in {demoted /\ gw = NoGateway} \cup (IF failed THEN {demoted} ELSE {})
  /\ UNCHANGED <<dev, ep, split, pins, gw>>

-----------------------------------------------------------------------------
(* The operations, as the commands they run. *)

ConnectScript == <<"existing", "delete", "create", "configure", "raise",
                   "dns", "pin", "split", "verify", "connected">>
TeardownScript == <<"capture", "revertDns", "dropSplit", "dropOld", "delete", "down">>
EarlyFailure == <<"delete", "refused">>
LateFailure == <<"dropTarget", "dropSplit", "revertDns", "delete", "failed">>
Early == {"create", "configure", "raise"}
Late == {"dns", "split", "verify"}

\* clean: it began alone, on a tunnel in working order or none, and neither
\* another goroutine, nor the network, nor a failing clean-up command has
\* interfered since.
Disturbed(j) == [j EXCEPT !.clean = FALSE, !.missed = {}]

Begins(a, target, script) ==
  /\ Idle(a)
  /\ todo' = [todo EXCEPT ![a] = script]
  /\ job' = [b \in Actors |->
       IF b = a THEN [NoTask EXCEPT !.target = target, !.clean = \A c \in Actors : Idle(c)]
                ELSE Disturbed(job[b])]
  /\ UNCHANGED machineVars

StartConnect(e) == Begins("main", e, ConnectScript)

\* DisconnectWithCallback does nothing to a tunnel that is not IsConnected.
StartDisconnect == TunnelConnected /\ Begins("main", NoEndpoint, TeardownScript)

\* ForceDisconnect on the terminate and switch paths, and, beside whatever the
\* main goroutine does, forceDisconnectIfInterfaceExists after a wake-up.
StartForce(a) ==
  (a = "sleeper" => dev # "none") /\ Begins(a, NoEndpoint, TeardownScript)

Does(a, name) == ~Idle(a) /\ Head(todo[a]) = name

\* Connect takes a tunnel that IsConnected accepts down first, in order; any
\* other one only loses its interface.
Existing(a) ==
  /\ Does(a, "existing")
  /\ todo' = [todo EXCEPT ![a] = (IF TunnelConnected THEN TeardownScript ELSE <<>>) \o Tail(@)]
  /\ job' = [job EXCEPT ![a].clean = @ /\ dev \in {"none", "up"}]
  /\ UNCHANGED machineVars

\* The endpoint is read back from the peer; without one the host route stays.
Capture(a) ==
  /\ Does(a, "capture")
  /\ todo' = [todo EXCEPT ![a] = Tail(@)]
  /\ job' = [job EXCEPT ![a].old = IF HasPeer THEN ep ELSE NoEndpoint,
                     ![a].clean = @ /\ HasPeer]
  /\ UNCHANGED machineVars

Effect(a, failed) ==
  \/ Does(a, "delete") /\ Delete(failed)
  \/ Does(a, "create") /\ Create(failed)
  \/ Does(a, "configure") /\ Configure(job[a].target, failed)
  \/ Does(a, "raise") /\ RaiseLink(failed)
  \/ Does(a, "dns") /\ failed /\ UNCHANGED machineVars
  \/ Does(a, "split") /\ AddSplit(failed)
  \/ Does(a, "verify") /\ Verify(failed)
  \/ Does(a, "dropOld") /\ DropPin(job[a].old, failed)
  \/ Does(a, "dropTarget") /\ DropPin(job[a].target, failed)
  \/ Does(a, "dropSplit") /\ ~failed /\ DropSplit
  \/ Does(a, "revertDns") /\ RevertDns(failed)

\* An error of a command of Connect ends it, through its clean-up; an error of
\* a command that cleans up is logged and passed over.
Command(a, failed) ==
  /\ Effect(a, failed)
  /\ LET c == Head(todo[a]) IN
     /\ todo' = [todo EXCEPT ![a] = IF failed /\ c \in Early THEN EarlyFailure
                                    ELSE IF failed /\ c \in Late THEN LateFailure
                                    ELSE Tail(@)]
     /\ job' = [job EXCEPT ![a].clean = @ /\ (failed => c \in Early \cup Late),
                        ![a].missed = IF failed THEN {} ELSE @]

\* The resolvers and the host route of a Connect, as far as they go.
Arranges(a) ==
  \E missed \in SUBSET Unsaid :
     /\ \/ Does(a, "dns") /\ SetDns(missed)
        \/ Does(a, "pin") /\ Pin(job[a].target, missed)
     /\ todo' = [todo EXCEPT ![a] = Tail(@)]
     /\ job' = [job EXCEPT ![a].missed = IF job[a].clean THEN @ \cup missed ELSE @]

\* Connect or Disconnect returns; its locals are gone.
Returns(a) ==
  /\ \E end \in {"connected", "down", "refused", "failed"} : Does(a, end)
  /\ todo' = [todo EXCEPT ![a] = Tail(@)]
  /\ job' = [job EXCEPT ![a] = IF Tail(todo[a]) = <<>> THEN NoTask
                                   ELSE [@ EXCEPT !.old = NoEndpoint]]
  /\ UNCHANGED machineVars

TunnelStep(a) ==
  \/ Existing(a) \/ Capture(a) \/ Arranges(a) \/ Returns(a)
  \/ \E failed \in BOOLEAN : Command(a, failed)

-----------------------------------------------------------------------------
(* Around the process. *)

Disturbs == job' = [a \in Actors |-> Disturbed(job[a])]

\* The network changes; its old host routes may go with it.
Roam(g) ==
  /\ g # gw /\ gw' = g
  /\ \/ UNCHANGED pins
     \/ pins' = [e \in Endpoints |-> NoGateway]
  /\ Disturbs /\ KeepDevice /\ UNCHANGED <<demoted, todo>>

\* No handshake for three minutes.
TunnelAges ==
  /\ dev = "up" /\ dev' = "stale"
  /\ Disturbs /\ UNCHANGED <<ep, split, linkDns, todo>> /\ KeepNet

\* The machine goes to sleep: netlink.ClearPeers.
PeersCleared ==
  /\ dev \in {"up", "stale"} /\ dev' = "cleared"
  /\ Disturbs /\ UNCHANGED <<ep, split, linkDns, todo>> /\ KeepNet

\* The process dies between two commands; the machine stays as it is.
TunnelCrash ==
  /\ \E a \in Actors : ~Idle(a)
  /\ todo' = [a \in Actors |-> <<>>] /\ job' = [a \in Actors |-> NoTask]
  /\ UNCHANGED machineVars

TunnelNext ==
  \/ \E a \in Actors : TunnelStep(a)
  \/ \E e \in Endpoints : StartConnect(e)
  \/ StartDisconnect
  \/ \E a \in Actors : StartForce(a)
  \/ \E g \in Gateways \cup {NoGateway} : Roam(g)
  \/ TunnelAges \/ PeersCleared \/ TunnelCrash

TunnelTypeOK ==
  /\ dev \in Devs /\ ep \in Endpoints \cup {NoEndpoint} /\ split \subseteq Split
  /\ linkDns \in BOOLEAN /\ demoted \in BOOLEAN
  /\ pins \in [Endpoints -> Gateways \cup {NoGateway}] /\ gw \in Gateways \cup {NoGateway}
  /\ job \in [Actors -> [target : Endpoints \cup {NoEndpoint},
                        old : Endpoints \cup {NoEndpoint}, clean : BOOLEAN,
                        missed : SUBSET Unsaid]]

-----------------------------------------------------------------------------
(* Properties. *)

\* A Connect that returns success undisturbed leaves the tunnel it was asked for
\* with both split routes, whatever crashes and roaming had left behind, and the
\* rest of it - resolvers, demotion, the endpoint pinned to the gateway of now -
\* except for what it was refused and passed over; above all no pin of an earlier
\* network, unless removing that very route was refused.
ConnectRepairs ==
  Does("main", "connected") /\ job["main"].clean =>
    LET missed == job["main"].missed IN
    /\ dev = "up" /\ ep = job["main"].target /\ split = Split
    /\ linkDns \/ "resolver" \in missed
    /\ gw # NoGateway =>
         /\ demoted \/ "demotion" \in missed
         /\ pins[ep] = gw \/ "pin" \in missed
         /\ pins[ep] \in {gw, NoGateway} \/ "unpin" \in missed

\* Whoever takes a tunnel down undisturbed, an operation or the clean-up of a
\* failed Connect, leaves no interface, no host route to its endpoint and,
\* on line, the physical interface answering DNS again.
TeardownRestores ==
  \A a \in Actors : (Does(a, "down") \/ Does(a, "failed")) /\ job[a].clean =>
    /\ dev = "none" /\ split = {}
    /\ gw # NoGateway => ~demoted
    /\ LET e == IF Does(a, "down") THEN job[a].old ELSE job[a].target IN
       e # NoEndpoint => pins[e] = NoGateway

\* The tunnel as the daemon's model sees it (module Host).  Whether traffic
\* passes is that module's affair: a link that is up counts as one it may not.
LinkUp == dev \in {"up", "stale", "cleared"}
AsHost == INSTANCE Host WITH
  Servers <- Endpoints, NoServer <- NoEndpoint, KsPrefs <- {}, ks <- "off",
  tunnel <- IF LinkUp THEN ep ELSE NoEndpoint,
  link <- IF dev = "up" THEN "dead" ELSE IF LinkUp THEN dev ELSE "none"

\* Every interleaving of these commands, crashes included, looks to the daemon
\* like the atomic steps its model takes: a tunnel comes up only where there is
\* none, keeps its server for as long as it lives, and goes at once.
RefinesHost ==
  [][\/ \E e \in Endpoints : ~LinkUp /\ AsHost!ConnectUp(e)
     \/ AsHost!HandshakeAges \/ AsHost!LinkRemoved
     \/ dev' = "cleared" /\ UNCHANGED ep]_(AsHost!hostVars)
=============================================================================
