------------------------ MODULE PdaNetMonitorService ------------------------
(***************************************************************************)
(* PdaNetMonitorService.kt: the foreground service that watches Wi-Fi      *)
(* networks and asks for the VPN service when one of them has the PdaNet   *)
(* gateway.  Its field vpnServiceRunning is read and written without       *)
(* synchronisation by two threads of the process: the main thread, which   *)
(* runs onCreate and onDestroy, and the ConnectivityThread, which runs the *)
(* network callbacks one after the other.  Between the check of a network  *)
(* and the call it leads to, and between the call and the assignment of    *)
(* the flag, the other thread may run.                                     *)
(*                                                                         *)
(* ConnectivityManager is modelled from its use: getLinkProperties reads   *)
(* the network's present state, callbacks are queued in order.             *)
(***************************************************************************)
EXTENDS Naturals, Sequences, FiniteSets

CONSTANTS
    Nets,          \* the Wi-Fi networks that come and go
    PdaNets,       \* those whose gateway may be 192.168.49.1
    Other,         \* the active network when it is not a Wi-Fi network
    MaxCallbacks,  \* bound: callbacks waiting for the ConnectivityThread
    MaxInstances,  \* bound: instances of the service over time
    CallsMayFail   \* startService and registerNetworkCallback may throw

ASSUME NetsAssumption == PdaNets \subseteq Nets /\ Other \notin Nets /\ IsFiniteSet(Nets)
ASSUME BoundsAssumption == MaxCallbacks \in Nat /\ MaxInstances \in Nat
ASSUME CallsAssumption == CallsMayFail \in BOOLEAN

Threads   == {"main", "conn"}
Instances == 1..MaxInstances

VARIABLES
    gateway,     \* what getLinkProperties says of each network
    callbacks,   \* messages queued for the ConnectivityThread
    instance,    \* the service's instance, 0 before the first
    alive,       \* the instance was created and not destroyed
    registered,  \* its network callback is registered
    running,     \* vpnServiceRunning of each instance
    pc, net, me, \* per thread: position, network looked at, instance it works for
    asked,       \* the last thing asked of Tun2HttpVpnService
    blame        \* what happened so far that the properties make exception for

networkVars == <<gateway, callbacks>>
serviceVars == <<instance, alive, registered>>
threadVars  == <<pc, net, me>>
vars == <<networkVars, serviceVars, running, threadVars, asked, blame>>

Idle(t)  == pc[t] = "idle"
Reading  == [n \in Nets \cup {Other} |-> IF n = Other THEN "other" ELSE gateway[n]]
Up       == {n \in Nets : gateway[n] # "down"}
PdaNetUp == \E n \in Nets : gateway[n] = "pdanet"

Init ==
    /\ gateway = [n \in Nets |-> "down"] /\ callbacks = <<>>
    /\ instance = 0 /\ alive = FALSE /\ registered = FALSE
    /\ running = [i \in Instances |-> FALSE]
    /\ pc = [t \in Threads |-> "idle"]
    /\ net = [t \in Threads |-> Other] /\ me = [t \in Threads |-> 0]
    /\ asked = "stop" /\ blame = {}

\* Operators marked "mutant" stand for a plausible mistake in the definition that
\* follows them; the specification does not use them.

-----------------------------------------------------------------------------
(***************************************************************************)
(* checkNetwork, startVpnService and stopVpnService, on either thread.     *)
(***************************************************************************)
Goto(t, where) == pc' = [pc EXCEPT ![t] = where]

\* Two threads are past their check at the same time
Overlap == IF \E t \in Threads : ~Idle(t) THEN blame \cup {"overlap"} ELSE blame

\* Lines 121-128: what the network's link properties say, if it still has any
CheckNetwork(t) ==
    /\ pc[t] = "check"
    /\ Goto(t, CASE Reading[net[t]] = "pdanet" -> "on"
                 [] Reading[net[t]] = "other"  -> "off"
                 [] Reading[net[t]] = "down"   -> "idle")
    /\ UNCHANGED <<networkVars, serviceVars, running, net, me, asked, blame>>

\* Lines 129 and 135: only a change leads to a call
CheckRunning(t) ==
    /\ pc[t] \in {"on", "off"}
    /\ Goto(t, IF (pc[t] = "on") = running[me[t]] THEN "idle"
               ELSE IF pc[t] = "on" THEN "start" ELSE "stop")
    /\ UNCHANGED <<networkVars, serviceVars, running, net, me, asked, blame>>

StartVpnService(t) ==
    /\ pc[t] = "start"
    /\ \/ Goto(t, "started") /\ asked' = "start" /\ UNCHANGED blame
       \/ CallsMayFail /\ Goto(t, "idle") /\ blame' = blame \cup {"failed"}
          /\ UNCHANGED asked
    /\ UNCHANGED <<networkVars, serviceVars, running, net, me>>

Started(t) ==
    /\ pc[t] = "started" /\ Goto(t, "idle")
    /\ running' = [running EXCEPT ![me[t]] = TRUE]
    /\ UNCHANGED <<networkVars, serviceVars, net, me, asked, blame>>

\* Line 153 reads the flag again
StopVpnService(t) ==
    /\ pc[t] = "stop" /\ Goto(t, IF running[me[t]] THEN "stopping" ELSE "idle")
    /\ UNCHANGED <<networkVars, serviceVars, running, net, me, asked, blame>>

CallStop(t) ==
    /\ pc[t] = "stopping"
    /\ \/ Goto(t, "stopped") /\ asked' = "stop" /\ UNCHANGED blame
       \/ CallsMayFail /\ Goto(t, "idle") /\ blame' = blame \cup {"failed"}
          /\ UNCHANGED asked
    /\ UNCHANGED <<networkVars, serviceVars, running, net, me>>

StoppedKeepsFlag(t) ==                                              \* mutant
    /\ pc[t] = "stopped" /\ Goto(t, "idle")
    /\ UNCHANGED <<networkVars, serviceVars, running, net, me, asked, blame>>

Stopped(t) ==
    /\ pc[t] = "stopped" /\ Goto(t, "idle")
    /\ running' = [running EXCEPT ![me[t]] = FALSE]
    /\ UNCHANGED <<networkVars, serviceVars, net, me, asked, blame>>

Thread(t) == CheckNetwork(t) \/ CheckRunning(t) \/ StartVpnService(t) \/ Started(t)
             \/ StopVpnService(t) \/ CallStop(t) \/ Stopped(t)

-----------------------------------------------------------------------------
(***************************************************************************)
(* The service's life on the main thread.                                  *)
(***************************************************************************)
\* onCreate registers the callback; networks already up are reported to it.
\* When registering throws, nothing is watched from then on.
OnCreate ==
    /\ Idle("main") /\ ~alive /\ instance < MaxInstances
    /\ instance' = instance + 1 /\ alive' = TRUE
    /\ \/ /\ registered' = TRUE
          /\ \E order \in [1..Cardinality(Up) -> Up] :
                /\ \A i, j \in DOMAIN order : i # j => order[i] # order[j]
                /\ callbacks' = [i \in DOMAIN order |->
                                    [type |-> "available", net |-> order[i]]]
          /\ Goto("main", "registered")
          /\ UNCHANGED blame
       \/ /\ CallsMayFail /\ registered' = FALSE
          /\ callbacks' = <<>> /\ blame' = blame \cup {"failed"}
          /\ UNCHANGED pc
    /\ me' = [me EXCEPT !["main"] = instance']
    /\ UNCHANGED <<gateway, running, net, asked>>

\* Line 97: the active network, if there is one, is checked on the main thread
CheckActiveNetwork ==
    /\ pc["main"] = "registered"
    /\ \/ Goto("main", "idle") /\ UNCHANGED <<net, blame>>
       \/ /\ \E n \in Up \cup {Other} : net' = [net EXCEPT !["main"] = n]
          /\ Goto("main", "check")
          /\ blame' = IF callbacks # <<>> \/ ~Idle("conn") \/ running[instance]
                      THEN blame \cup {"overlap"} ELSE blame
    /\ UNCHANGED <<networkVars, serviceVars, running, me, asked>>

OnDestroyWithoutStop ==                                             \* mutant
    /\ Idle("main") /\ alive
    /\ alive' = FALSE /\ registered' = FALSE /\ callbacks' = <<>>
    /\ blame' = Overlap
    /\ UNCHANGED <<gateway, instance, running, pc, net, me, asked>>

\* onDestroy unregisters the callback, which drops the queued messages but not
\* the one being handled, and stops the VPN service
OnDestroy ==
    /\ Idle("main") /\ alive
    /\ alive' = FALSE /\ registered' = FALSE /\ callbacks' = <<>>
    /\ Goto("main", "stop")
    /\ blame' = Overlap
    /\ UNCHANGED <<gateway, instance, running, net, me, asked>>

-----------------------------------------------------------------------------
(***************************************************************************)
(* The ConnectivityThread and the networks.                                *)
(***************************************************************************)
\* Two networks in play: the code takes a callback about either for PdaNet's
Another(n) == IF Cardinality(Up \cup {n}) > 1 THEN {"another"} ELSE {}

HandlerChecks(type) == "check"                                      \* mutant

\* onAvailable and onLinkPropertiesChanged check the network, onLost stops the
\* VPN service whatever network was lost (lines 71-83)
Handler(type) == IF type = "lost" THEN "stop" ELSE "check"

HandleCallback ==
    /\ Idle("conn") /\ callbacks # <<>>
    /\ Goto("conn", Handler(Head(callbacks).type))
    /\ net' = [net EXCEPT !["conn"] = Head(callbacks).net]
    /\ me' = [me EXCEPT !["conn"] = instance]
    /\ callbacks' = Tail(callbacks)
    /\ blame' = Overlap \cup Another(Head(callbacks).net)
    /\ UNCHANGED <<gateway, serviceVars, running, asked>>

NotifyOfNone(type, n) == callbacks' = Append(callbacks, [type |-> type, net |-> Other])
                                                                    \* mutant
NotifyUnlessProperties(type, n) ==                                  \* mutant
    callbacks' = IF registered /\ type # "properties"
                 THEN Append(callbacks, [type |-> type, net |-> n]) ELSE callbacks

Notify(type, n) ==
    callbacks' = IF registered THEN Append(callbacks, [type |-> type, net |-> n])
                 ELSE callbacks

NetworkChanges ==
    /\ Len(callbacks) < MaxCallbacks
    /\ \E n \in Nets :
        \/ /\ gateway[n] = "down"
           /\ \E g \in {"other", "pdanet"} :
                /\ g = "pdanet" => n \in PdaNets
                /\ gateway' = [gateway EXCEPT ![n] = g]
           /\ Notify("available", n)
        \/ /\ gateway[n] # "down" /\ n \in PdaNets
           /\ gateway' = [gateway EXCEPT ![n] = IF @ = "other" THEN "pdanet" ELSE "other"]
           /\ Notify("properties", n)
        \/ /\ gateway[n] # "down"
           /\ gateway' = [gateway EXCEPT ![n] = "down"]
           /\ Notify("lost", n)
    /\ UNCHANGED <<serviceVars, running, threadVars, asked, blame>>

Next ==
    \/ \E t \in Threads : Thread(t)
    \/ OnCreate \/ CheckActiveNetwork \/ OnDestroy
    \/ HandleCallback
    \/ NetworkChanges

Spec == Init /\ [][Next]_vars

-----------------------------------------------------------------------------
Settled == /\ alive /\ registered /\ callbacks = <<>>
           /\ \A t \in Threads : Idle(t)
Callback == [type : {"available", "properties", "lost"}, net : Nets]
Places == {"idle", "registered", "check", "on", "off", "start", "started", "stop",
           "stopping", "stopped"}

\* Every variable has the type of the field, local or platform state it stands for.
TypeOK ==
    /\ gateway \in [Nets -> {"down", "other", "pdanet"}]
    /\ callbacks \in Seq(Callback)
    /\ instance \in 0..MaxInstances /\ alive \in BOOLEAN /\ registered \in BOOLEAN
    /\ running \in [Instances -> BOOLEAN]
    /\ pc \in [Threads -> Places]
    /\ net \in [Threads -> Nets \cup {Other}] /\ me \in [Threads -> 0..MaxInstances]
    /\ asked \in {"start", "stop"}
    /\ blame \in SUBSET {"overlap", "failed", "another"}

InOrder == blame \subseteq {"another"}

\* While the threads did not interleave and no call failed, the flag of the
\* instance says what was asked last, also after the service was created anew
\* with a fresh flag (line 40).
FlagTellsTheRequest ==
    Settled /\ InOrder => (running[instance] <=> asked = "start")

\* Once every callback is handled the tunnel is asked for only on PdaNet: losing
\* the network or its gateway is never overlooked, unless the threads interleaved
\* or a call failed.
NoTunnelOffPdaNet == Settled /\ InOrder => (asked = "start" => PdaNetUp)

\* Once every callback is handled the tunnel is asked for when PdaNet is there
\* ("Auto-starts when PdaNet detected", attempt connect:28).
TunnelOnPdaNet == Settled => (PdaNetUp => asked = "start")

\* So it is as long as no other Wi-Fi network was in play, the threads did not
\* interleave and no call failed.
TunnelOnPdaNetInOrder == blame = {} => TunnelOnPdaNet

\* What is asked for follows the networks: onLost, which stops whatever network was lost,
\* and the two callbacks that check (lines 71-83, 121-141).
RequestFollowsNetwork == NoTunnelOffPdaNet /\ TunnelOnPdaNetInOrder
=============================================================================
