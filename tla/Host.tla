-------------------------------- MODULE Host --------------------------------
(***************************************************************************)
(* The machine under the daemon: the WireGuard interface and the           *)
(* killswitch, and what internal/wireguard does to them as the daemon sees *)
(* it.  A link is                                                          *)
(*   none     no interface                                                 *)
(*   flowing  interface up, recent handshake, traffic passes               *)
(*   dead     traffic has stopped, last handshake younger than three       *)
(*            minutes (or none yet: the peer was only just configured)     *)
(*   stale    the last handshake is older than three minutes               *)
(*   cleared  interface up with an empty peer list                         *)
(* The killswitch is UFW's default outgoing policy, deny when it is up:    *)
(*   off      allow, or UFW inactive                                       *)
(*   firm     deny; UFW was active before lazyvpn, and tells its policy:   *)
(*            a rebuild of the rules that fails rolls back to deny         *)
(*   loose    deny; lazyvpn itself activated UFW, or its policy cannot be  *)
(*            read just now: a rebuild that fails may leave it open        *)
(***************************************************************************)
CONSTANTS Servers,    \* the identities (name, provider, kind) a tunnel can have
          NoServer,   \* the empty server name
          KsPrefs     \* values KillswitchAutoDisable may hold when it is read

ASSUME NoServerAssumption == NoServer \notin Servers
ASSUME KsPrefsAssumption == KsPrefs \subseteq {"true", "false", "never"}

VARIABLES link,       \* the WireGuard interface
          tunnel,     \* the server it is configured for
          ks          \* the killswitch

hostVars == <<link, tunnel, ks>>

Links == {"none", "flowing", "dead", "stale", "cleared"}
Killswitches == {"off", "firm", "loose"}
PublicIPs == {"real", "vpn", "unknown"}

HostTypeOK ==
  /\ link \in Links
  /\ tunnel \in Servers \cup {NoServer}
  /\ ks \in Killswitches

KsUp == ks # "off"

\* No interface; the killswitch may be up, its rules survive a reboot.
HostInit == link = "none" /\ tunnel = NoServer /\ ks \in Killswitches

\* IsConnected trusts a recent handshake, or none at all on a fresh peer.
IsConnected == link \in {"flowing", "dead"}

InterfaceExists == link # "none"

\* What a public-IP lookup can answer: the split routes of a tunnel that does
\* not pass traffic swallow the request, and so does the killswitch.
VisibleIPs == {"unknown"} \cup (IF link = "flowing" THEN {"vpn"} ELSE {})
                          \cup (IF link = "none" /\ ~KsUp THEN {"real"} ELSE {})

-----------------------------------------------------------------------------
(* Tearing a tunnel down. *)

NoTunnel == link' = "none" /\ tunnel' = NoServer

\* ForceDisconnect removes whatever is there and leaves the firewall alone.
ForceDisconnect == NoTunnel /\ UNCHANGED ks

\* The killswitch once an orderly disconnect has removed the interface: the
\* "true" preference turns it off unless an IP still answered or UFW failed.
KsAfterDisconnect == {ks} \cup (IF "true" \in KsPrefs THEN {"off"} ELSE {})

\* DisconnectWithCallback; reported is the KillswitchActive its callback saw.
\* Nothing is done, and nothing reported, when IsConnected is false.
Disconnect(reported) ==
  \/ ~IsConnected /\ reported = FALSE /\ UNCHANGED hostVars
  \/ /\ IsConnected
     /\ NoTunnel
     /\ \/ ks' = ks /\ reported = FALSE            \* down, or "traffic not blocked"
        \/ KsUp /\ ks' = ks /\ reported = TRUE     \* kept, or UFW refused to disable
        \/ KsUp /\ ks' \in KsAfterDisconnect \ {ks} /\ reported = FALSE

-----------------------------------------------------------------------------
(* The stages of Connect.  The killswitch is rebuilt for the new endpoint,  *)
(* and a tunnel IsConnected accepts is taken down through the orderly       *)
(* Disconnect, killswitch preference included.                              *)

\* Rules emitted anew (killswitch, Local Network block).  When one is refused -
\* a hostname for an endpoint always is - those there were are gone, the policy
\* is set back and UFW deactivated if it was lazyvpn's; Connect only logs it.
KsAfterRebuild == {ks} \cup (IF ks = "loose" THEN {"off"} ELSE {})

ClearTheWay(after) ==
  /\ ks' \in KsAfterRebuild \cup (IF IsConnected THEN KsAfterDisconnect ELSE {})
  /\ after

\* The configuration cannot be loaded: Connect is never reached.
ConnectNotLoaded == UNCHANGED hostVars

\* A key, endpoint or address does not parse, after the old tunnel has gone.
ConnectUnparsed ==
  ClearTheWay(IF IsConnected THEN NoTunnel ELSE UNCHANGED <<link, tunnel>>)

\* Creating or configuring the new interface fails; the old one was deleted.
ConnectNotCreated == ClearTheWay(NoTunnel)

\* The interface is up with its peer, DNS and routes.
ConnectUp(s) ==
  ClearTheWay(tunnel' = s /\ link' \in {"flowing", "dead"})

\* Connectivity and a public IP other than the one seen before dialling.
VerifyPasses(oldIP) ==
  \/ link = "flowing"
  \/ link = "none" /\ ~KsUp /\ oldIP # "real"

\* The Local Network block is emitted anew for the new endpoint, if it is on.
ConnectEnds == ks' \in KsAfterRebuild /\ UNCHANGED <<link, tunnel>>

\* Mutant: a failed connect opens the firewall again.
ConnectCleanupOpens == NoTunnel /\ ks' = "off"

\* cleanupFailedConnection: the killswitch is emitted anew without an endpoint.
ConnectCleanup == NoTunnel /\ ks' \in KsAfterRebuild

-----------------------------------------------------------------------------
(* What happens around the daemon. *)

TunnelDies == link = "flowing" /\ link' = "dead" /\ UNCHANGED <<tunnel, ks>>

HandshakeAges == link = "dead" /\ link' = "stale" /\ UNCHANGED <<tunnel, ks>>

TunnelRevives ==
  /\ link \in {"dead", "stale"}
  /\ link' = "flowing"
  /\ UNCHANGED <<tunnel, ks>>

LinkRemoved == InterfaceExists /\ ForceDisconnect

\* The killswitch toggle of the dashboard and of `lazyvpn killswitch`.
UserKillswitch ==
  /\ ks' \in IF KsUp THEN {"off"} ELSE {"firm", "loose"}
  /\ UNCHANGED <<link, tunnel>>

\* `ufw status` stops answering, or answers again where UFW is the user's own.
StatusWavers == KsUp /\ ks' \in {"firm", "loose"} /\ UNCHANGED <<link, tunnel>>

\* Another tool brings the interface up by hand.
ManualReconnect(s) ==
  /\ link = "none"
  /\ link' = "flowing"
  /\ tunnel' = s
  /\ UNCHANGED ks
=============================================================================
