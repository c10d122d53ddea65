------------------------------ MODULE PdaNetClient ------------------------------
(***************************************************************************)
(* The application as a whole: the monitor service (PdaNetMonitorService), *)
(* which watches the networks and orders tunnels, the VPN service, whose   *)
(* orders are one step each (it promises as much, see VpnCommands), and    *)
(* those that set them going: BootReceiver, MainActivity and               *)
(* VpnPermissionActivity.  All of it lives on the main thread of one       *)
(* process: a message of one part waits for those of the others.           *)
(* The monitor keeps a flag of its own of what it ordered; nothing tells   *)
(* it what became of the tunnel.                                           *)
(*                                                                         *)
(* Android: the user grants the VPN permission or denies it, and another   *)
(* VPN takes it away; the process may be killed; the monitor, which is     *)
(* START_STICKY, is created again, the VPN service is not.                 *)
(***************************************************************************)
EXTENDS PdaNetMonitorService, SequencesExt

CONSTANTS
    MaxOrders,   \* bound: orders waiting for the VPN service
    Launches       \* the activities that may be launched

ASSUME OrdersAssumption == MaxOrders \in Nat \ {0}
ASSUME LaunchesAssumption == Launches \subseteq {"main", "permission"}

VARIABLES
    wanted,      \* PdaNetMonitorService.start was called
    permitted,   \* VpnService.prepare() returns null
    dialog,      \* the activity that waits for the answer to a dialog
    orders,      \* what waits for the VPN service
    tunnel,      \* the VPN interface is there
    ending,      \* the VPN service is about to call stopSelf
    trouble      \* what came between the monitor's flag and the tunnel

vpnVars    == <<orders, tunnel, ending>>
screenVars == <<wanted, permitted, dialog>>
clientVars == <<vars, screenVars, vpnVars, trouble>>

ClientInit ==
    /\ Init
    /\ wanted = FALSE /\ permitted \in BOOLEAN /\ dialog = "none"
    /\ orders = <<>> /\ tunnel = FALSE /\ ending = FALSE /\ trouble = {}

\* Bounds: the properties promise nothing once a race or a failed call confused the
\* monitor's flag; from then on nothing new begins, until the process dies.  One trouble
\* from outside at a time.
Goes == blame \subseteq {"another"}
Calm == Goes /\ trouble = {}

-----------------------------------------------------------------------------
(***************************************************************************)
(* The monitor: its steps, and the orders they give.                       *)
(***************************************************************************)
\* The step calls Tun2HttpVpnService.start or stop
Calls(t) == \/ pc[t] = "start" /\ pc'[t] = "started"
            \/ pc[t] = "stopping" /\ pc'[t] = "stopped"

\* A start that waits behind a stop: the stop's stopSelf ends the service after it
Behind(c) == IF c = "start" /\ (ending \/ Contains(orders, "stop")) THEN {"behind"} ELSE {}

Order(c) == Len(orders) < MaxOrders /\ orders' = Append(orders, c)

MonitorThread(t) ==
    /\ Thread(t)
    /\ IF Calls(t) THEN Order(asked') /\ trouble' = trouble \cup Behind(asked')
       ELSE UNCHANGED <<orders, trouble>>
    /\ UNCHANGED <<screenVars, tunnel, ending>>

MonitorCreated ==
    /\ wanted /\ OnCreate
    /\ UNCHANGED <<screenVars, vpnVars, trouble>>

MonitorDestroyed ==
    /\ Calm /\ OnDestroy /\ wanted' = FALSE
    /\ UNCHANGED <<permitted, dialog, vpnVars, trouble>>

MonitorChecks  == CheckActiveNetwork /\ UNCHANGED <<screenVars, vpnVars, trouble>>
MonitorHandles == HandleCallback /\ UNCHANGED <<screenVars, vpnVars, trouble>>
NetworkMoves   == Goes /\ NetworkChanges /\ UNCHANGED <<screenVars, vpnVars, trouble>>

-----------------------------------------------------------------------------
(***************************************************************************)
(* The VPN service, one order at a time on the main thread.                *)
(***************************************************************************)
Turn(c) ==
    /\ Idle("main") /\ ~ending
    /\ orders # <<>> /\ Head(orders) = c /\ orders' = Tail(orders)
    /\ UNCHANGED <<vars, screenVars>>

\* Lines 57-64 of Tun2HttpVpnService.kt; without permission stopSelf is called
VpnStarts ==
    /\ Turn("start")
    /\ tunnel' = (tunnel \/ permitted)
    /\ IF tunnel' THEN UNCHANGED <<ending, trouble>>
       ELSE ending' = TRUE /\ trouble' = trouble \cup {"denied"}

\* Lines 161-164
VpnFails ==
    /\ CallsMayFail /\ Calm /\ Turn("start") /\ ~tunnel /\ permitted
    /\ ending' = TRUE /\ trouble' = trouble \cup {"failed"}
    /\ UNCHANGED tunnel

\* A stop that nothing follows leaves nothing to explain
VpnStops ==
    /\ Turn("stop")
    /\ tunnel' = FALSE /\ ending' = TRUE
    /\ trouble' = IF orders' = <<>> THEN {} ELSE trouble

\* stopSelf: the end of the service comes behind what waits
VpnStopsSelf ==
    /\ Idle("main") /\ ending /\ ending' = FALSE
    /\ orders' = Append(orders, "destroy")
    /\ UNCHANGED <<vars, screenVars, tunnel, trouble>>

VpnDestroyed ==
    /\ Turn("destroy")
    /\ tunnel' = FALSE
    /\ UNCHANGED <<ending, trouble>>

\* Another VPN takes over: onRevoke, lines 80-85
Revoke ==
    /\ Calm /\ permitted /\ permitted' = FALSE
    /\ IF tunnel THEN tunnel' = FALSE /\ ending' = TRUE /\ trouble' = trouble \cup {"revoked"}
       ELSE UNCHANGED <<tunnel, ending, trouble>>
    /\ UNCHANGED <<vars, wanted, dialog, orders>>

-----------------------------------------------------------------------------
(***************************************************************************)
(* Who sets them going.                                                    *)
(***************************************************************************)
BootReceiver ==
    /\ Goes /\ Idle("main") /\ ~wanted /\ wanted' = TRUE
    /\ UNCHANGED <<vars, permitted, dialog, vpnVars, trouble>>

\* A monitor that is there already ignores the start (onStartCommand, line 50)
StartMonitorOrAsk ==
    IF permitted THEN wanted' = TRUE /\ dialog' = "none"
    ELSE dialog' = "vpn" /\ UNCHANGED wanted

\* MainActivity.onCreate: the battery dialog comes first, unless the app is exempt
LaunchMain ==
    /\ "main" \in Launches /\ Idle("main") /\ dialog = "none"
    /\ \/ dialog' = "battery" /\ UNCHANGED wanted
       \/ StartMonitorOrAsk
    /\ UNCHANGED <<vars, permitted, vpnVars, trouble>>

AnswerBattery ==
    /\ Idle("main") /\ dialog = "battery"
    /\ StartMonitorOrAsk
    /\ UNCHANGED <<vars, permitted, vpnVars, trouble>>

AnswerVpn ==
    /\ Idle("main") /\ dialog = "vpn" /\ dialog' = "none"
    /\ \/ permitted' = TRUE /\ wanted' = TRUE
       \/ UNCHANGED <<permitted, wanted>>
    /\ UNCHANGED <<vars, vpnVars, trouble>>

\* VpnPermissionActivity orders a tunnel itself, on whatever network
OrderByHand == Order("start") /\ trouble' = trouble \cup Behind("start") \cup {"byhand"}

LaunchPermission ==
    /\ Calm /\ "permission" \in Launches /\ Idle("main") /\ dialog = "none"
    /\ IF permitted THEN OrderByHand /\ UNCHANGED dialog
       ELSE dialog' = "permission" /\ UNCHANGED <<orders, trouble>>
    /\ UNCHANGED <<vars, wanted, permitted, tunnel, ending>>

AnswerPermission ==
    /\ Idle("main") /\ dialog = "permission" /\ dialog' = "none"
    /\ \/ permitted' = TRUE /\ OrderByHand
       \/ UNCHANGED <<permitted, orders, trouble>>
    /\ UNCHANGED <<vars, wanted, tunnel, ending>>

\* The system kills the process; of what it had, only the monitor comes back
ProcessDies ==
    /\ alive /\ instance < MaxInstances
    /\ alive' = FALSE /\ registered' = FALSE /\ callbacks' = <<>>
    /\ pc' = [t \in Threads |-> "idle"] /\ net' = [t \in Threads |-> Other]
    /\ asked' = "stop" /\ blame' = {}
    /\ orders' = <<>> /\ tunnel' = FALSE /\ ending' = FALSE /\ trouble' = {}
    /\ dialog' = "none"
    /\ UNCHANGED <<gateway, instance, running, me, wanted, permitted>>

-----------------------------------------------------------------------------
VpnStep == VpnStarts \/ VpnFails \/ VpnStops \/ VpnStopsSelf \/ VpnDestroyed

ClientNext ==
    \/ \E t \in Threads : MonitorThread(t)
    \/ MonitorCreated \/ MonitorDestroyed \/ MonitorChecks \/ MonitorHandles \/ NetworkMoves
    \/ VpnStep \/ Revoke
    \/ BootReceiver \/ LaunchMain \/ AnswerBattery \/ AnswerVpn
    \/ LaunchPermission \/ AnswerPermission
    \/ ProcessDies

\* Both threads of the process are scheduled
ClientSpec ==
    /\ ClientInit /\ [][ClientNext]_clientVars
    /\ WF_clientVars(MonitorThread("main") \/ MonitorChecks \/ VpnStep)
    /\ WF_clientVars(MonitorThread("conn") \/ MonitorHandles)

-----------------------------------------------------------------------------
\* Every order was carried out
Quiet == orders = <<>> /\ ~ending /\ \A t \in Threads : Idle(t)

\* When all is handled a tunnel is up only on PdaNet, and only while the monitor lives:
\* losing the network, its gateway or the service is never overlooked, unless the threads
\* interleaved, a call failed, or VpnPermissionActivity ordered the tunnel behind the
\* monitor's back, whose flag then keeps it from stopping it (PdaNetMonitorService.kt:153).
TunnelOnlyOnPdaNet ==
    Quiet /\ callbacks = <<>> /\ InOrder /\ "byhand" \notin trouble
        => (tunnel => PdaNetUp /\ alive)

\* When all is handled there is a tunnel on PdaNet, also after the process was killed and
\* the monitor came back, unless the monitor's flag stands for a tunnel that was denied,
\* failed, was revoked or ended by a stop before it (Tun2HttpVpnService.kt:57-65, 80-85);
\* the next stop that is carried out puts an end to that.
ConnectedOnPdaNet ==
    Settled /\ Quiet /\ blame = {} /\ trouble = {} => (PdaNetUp => tunnel)

\* PdaNet that stays leads to a tunnel that stays, with the same exceptions.
EventuallyConnected ==
    <>[](alive /\ registered /\ PdaNetUp /\ blame = {} /\ trouble = {}) => <>[]tunnel

\* "Auto-starts when PdaNet detected" (attempt connect:28), also when the permission comes
\* after the network: whoever opens the application and grants it gets the tunnel.
GrantConnects ==
    Settled /\ Quiet /\ dialog = "none" /\ permitted /\ blame = {}
        /\ trouble \subseteq {"denied", "revoked"} => (PdaNetUp => tunnel)
=============================================================================
