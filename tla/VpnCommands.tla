------------------------------ MODULE VpnCommands ------------------------------
(***************************************************************************)
(* What Tun2HttpVpnService (Tun2HttpVpnService.kt) promises to those who   *)
(* start and stop it: commands are taken in order, a tunnel comes up only  *)
(* when a start has its turn, and a stop that had its turn leaves none.    *)
(* A service that is not there is created first, and has none to begin     *)
(* with.                                                                   *)
(* The end of the service, and a start that fails, are stops of its own.   *)
(* A tunnel may be lost at any time, to the system or another VPN.         *)
(* Tun2HttpVpnService implements it; PdaNetClient takes the orders of the  *)
(* VPN service one step each on the strength of it.                        *)
(***************************************************************************)
EXTENDS Sequences

VARIABLES
    commands,   \* orders that wait, the one at work first
    tunnel      \* there is a VPN interface

promised == <<commands, tunnel>>

Init == commands = <<>> /\ tunnel = FALSE

Request(c) ==
    /\ \/ commands' = Append(commands, c)
       \/ commands' = Append(Append(commands, "create"), c)
    /\ UNCHANGED tunnel

Turn(c) == commands # <<>> /\ Head(commands) = c /\ commands' = Tail(commands)

Create == Turn("create") /\ tunnel' = FALSE

\* A start without permission, or with a tunnel already there, changes nothing
Start == Turn("start") /\ (tunnel' = TRUE \/ UNCHANGED tunnel)

Stop == Turn("stop") /\ tunnel' = FALSE

\* startTunnel fails: stopTunnel follows
Fail ==
    /\ \/ commands' = <<"stop">> \o commands
       \/ /\ commands # <<>> /\ Head(commands) = "start"
          /\ commands' = <<"stop">> \o Tail(commands)
    /\ UNCHANGED tunnel

Lose == tunnel' = FALSE /\ UNCHANGED commands

\* The process ends with all that waits
Die == commands' = <<>> /\ tunnel' = FALSE

Next == (\E c \in {"start", "stop"} : Request(c)) \/ Create \/ Start \/ Stop \/ Fail \/ Lose \/ Die

Spec == Init /\ [][Next]_promised
=============================================================================
