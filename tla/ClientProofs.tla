----------------------------- MODULE ClientProofs -----------------------------
(***************************************************************************)
(* Theorems about the application: what the monitor asked for and what     *)
(* became of the tunnel.  A step of the application is a step of the       *)
(* monitor, a step that leaves it alone, or the end of the process, so     *)
(* that the monitor's invariant holds here as well; what is left to prove  *)
(* is the link between the last request and the orders that carry it out.  *)
(***************************************************************************)
EXTENDS PdaNetClient, MonitorProofs

Orders   == {"start", "stop", "destroy"}
Troubles == {"behind", "byhand", "denied", "failed", "revoked"}

ClientTypeOK ==
    /\ orders \in Seq(Orders) /\ trouble \in SUBSET Troubles
    /\ tunnel \in BOOLEAN /\ ending \in BOOLEAN /\ permitted \in BOOLEAN

-----------------------------------------------------------------------------
(***************************************************************************)
(* The steps of the application, as the monitor sees them.                 *)
(***************************************************************************)
LEMMA ProcessEnds ==
    ASSUME MonitorInv, ProcessDies
    PROVE  MonitorInv'
<1>1. /\ alive' = FALSE /\ registered' = FALSE /\ callbacks' = <<>> /\ asked' = "stop" /\ blame' = {}
      /\ pc' = [t \in Threads |-> "idle"] /\ net' = [t \in Threads |-> Other]
      /\ UNCHANGED <<gateway, instance, running, me>>
  BY DEF ProcessDies
<1>2. TypeOK'
  <2>1. callbacks' \in Seq(Callback)
    BY <1>1, EmptySeq
  <2>2. pc' \in [Threads -> Places] /\ net' \in [Threads -> Nets \cup {Other}]
    BY <1>1 DEF Places
  <2>3. /\ gateway' \in [Nets -> {"down", "other", "pdanet"}] /\ instance' \in 0..MaxInstances
        /\ running' \in [Instances -> BOOLEAN] /\ me' \in [Threads -> 0..MaxInstances]
    BY <1>1 DEF MonitorInv, TypeOK, Instances, Threads
  <2> QED
    BY <1>1, <2>1, <2>2, <2>3 DEF TypeOK
<1>3. ServiceInv' /\ OrderInv'
  BY <1>1 DEF MonitorInv, ServiceInv, OrderInv, Idle, Threads
<1>4. OffInv' /\ OnInv'
  BY <1>1 DEF OffInv, OnInv
<1> QED
  BY <1>2, <1>3, <1>4 DEF MonitorInv

LEMMA MonitorSteps ==
    ASSUME MonitorInv, ClientNext
    PROVE  MonitorInv'
<1>1. CASE ProcessDies
  BY <1>1, ProcessEnds
<1>2. CASE ~ProcessDies
  <2>1. [Next]_vars
    BY <1>2 DEF ClientNext, MonitorThread, MonitorCreated, MonitorDestroyed, MonitorChecks,
       MonitorHandles, NetworkMoves, VpnStep, VpnStarts, VpnFails, VpnStops, VpnStopsSelf,
       VpnDestroyed, Turn, Revoke, BootReceiver, LaunchMain, AnswerBattery, AnswerVpn,
       LaunchPermission, AnswerPermission, Next
  <2> QED
    BY <2>1, MonitorNext
<1> QED
  BY <1>1, <1>2

-----------------------------------------------------------------------------
(***************************************************************************)
(* The last request and the orders that wait.  After a stop the last order *)
(* that waits is no start, and with none left there is no tunnel, unless   *)
(* VpnPermissionActivity ordered one.  After a start each stop that waits  *)
(* has a start behind it; while there is no trouble no stop waits at all,  *)
(* the last order is that start, and with none left the tunnel is there.   *)
(***************************************************************************)
Waits(c) == \E i \in 1..Len(orders) : orders[i] = c
LastOrder == orders[Len(orders)]

StopCarried ==
    asked = "stop" /\ "byhand" \notin trouble =>
        IF orders = <<>> THEN ~tunnel ELSE LastOrder # "start"

StartLast ==
    asked = "start" =>
        \A i \in 1..Len(orders) : orders[i] = "stop" =>
            \E j \in 1..Len(orders) : j > i /\ orders[j] = "start"

StartCarried ==
    asked = "start" /\ trouble = {} =>
        /\ ~ending /\ ~Waits("stop")
        /\ IF orders = <<>> THEN tunnel ELSE LastOrder = "start"

LinkInv == ClientTypeOK /\ StopCarried /\ StartLast /\ StartCarried

LEMMA AppendOrder ==
    ASSUME orders \in Seq(Orders), NEW c \in Orders, orders' = Append(orders, c)
    PROVE  /\ orders' \in Seq(Orders) /\ Len(orders) \in Nat
           /\ Len(orders') = Len(orders) + 1 /\ orders' # <<>>
           /\ \A i \in 1..Len(orders) : orders'[i] = orders[i]
           /\ LastOrder' = c /\ orders'[Len(orders) + 1] = c
  BY AppendProperties, LenProperties DEF LastOrder

LEMMA TakeOrder ==
    ASSUME orders \in Seq(Orders), orders # <<>>, orders' = Tail(orders)
    PROVE  /\ orders' \in Seq(Orders) /\ Len(orders) \in Nat \ {0}
           /\ Head(orders) = orders[1] /\ Len(orders') = Len(orders) - 1
           /\ \A i \in 1..Len(orders') : orders'[i] = orders[i + 1]
           /\ orders' = <<>> <=> Len(orders) = 1
           /\ orders' # <<>> => LastOrder' = LastOrder
<1>1. /\ orders' \in Seq(Orders) /\ Len(orders) \in Nat \ {0} /\ Head(orders) = orders[1]
      /\ Len(orders') = Len(orders) - 1
      /\ \A i \in 1..Len(orders') : orders'[i] = orders[i + 1]
  BY HeadTailProperties, LenProperties, EmptySeq
<1>2. orders' = <<>> <=> Len(orders') = 0
  BY <1>1, EmptySeq
<1>3. ASSUME orders' # <<>>
      PROVE  LastOrder' = LastOrder
  <2>1. Len(orders') \in 1..Len(orders') /\ Len(orders') + 1 = Len(orders)
    BY <1>1, <1>2, <1>3
  <2> QED
    BY <1>1, <2>1 DEF LastOrder
<1> QED
  BY <1>1, <1>2, <1>3

LEMMA ThreadAsks ==
    ASSUME TypeOK, NEW t \in Threads, Thread(t), ~Calls(t)
    PROVE  asked' = asked
  BY DEF Thread, CheckNetwork, CheckRunning, StartVpnService, Started, StopVpnService, CallStop,
         Stopped, Calls, Goto, TypeOK

\* The monitor calls start or stop.
LEMMA LinkRequest ==
    ASSUME LinkInv, asked' \in {"start", "stop"}, Order(asked'),
           trouble' = trouble \cup Behind(asked'), UNCHANGED <<tunnel, ending, permitted>>
    PROVE  LinkInv'
<1>1. orders' = Append(orders, asked') /\ asked' \in Orders /\ orders \in Seq(Orders)
  BY DEF Order, Orders, LinkInv, ClientTypeOK
<1>2. /\ orders' \in Seq(Orders) /\ Len(orders) \in Nat
      /\ Len(orders') = Len(orders) + 1 /\ orders' # <<>>
      /\ \A i \in 1..Len(orders) : orders'[i] = orders[i]
      /\ LastOrder' = asked' /\ orders'[Len(orders) + 1] = asked'
  BY <1>1, AppendOrder
<1>3. ClientTypeOK'
  BY <1>2 DEF LinkInv, ClientTypeOK, Behind, Troubles
<1>4. StopCarried'
  BY <1>2 DEF StopCarried
<1>5. StartLast'
  BY <1>2 DEF StartLast
<1>6. ASSUME asked' = "start", trouble' = {}
      PROVE  ~ending /\ ~Waits("stop")
  <2>1. ~ending /\ ~Contains(orders, "stop")
    BY <1>6 DEF Behind
  <2>2. DOMAIN orders = 1..Len(orders)
    BY <1>1, LenProperties
  <2> QED
    BY <2>1, <2>2 DEF Contains, Waits
<1>7. StartCarried'
  <2> SUFFICES ASSUME asked' = "start", trouble' = {}
               PROVE  ~ending /\ ~Waits("stop")'
    BY <1>2 DEF StartCarried
  <2>1. \A i \in 1..Len(orders') : i \in 1..Len(orders) \/ i = Len(orders) + 1
    BY <1>2
  <2> QED
    BY <1>2, <1>6, <2>1 DEF Waits
<1> QED
  BY <1>3, <1>4, <1>5, <1>7 DEF LinkInv

\* VpnPermissionActivity calls start.
LEMMA LinkByHand ==
    ASSUME LinkInv, OrderByHand, permitted' \in BOOLEAN, UNCHANGED <<asked, tunnel, ending>>
    PROVE  LinkInv'
<1>1. orders' = Append(orders, "start") /\ "start" \in Orders /\ orders \in Seq(Orders)
  BY DEF Order, OrderByHand, Orders, LinkInv, ClientTypeOK
<1>2. /\ orders' \in Seq(Orders) /\ Len(orders) \in Nat
      /\ Len(orders') = Len(orders) + 1
      /\ \A i \in 1..Len(orders) : orders'[i] = orders[i]
      /\ orders'[Len(orders) + 1] = "start"
  BY <1>1, AppendOrder
<1>3. "byhand" \in trouble' /\ ClientTypeOK'
  BY <1>2 DEF LinkInv, ClientTypeOK, OrderByHand, Behind, Troubles
<1>4. StartLast'
  BY <1>2 DEF StartLast
<1> QED
  BY <1>3, <1>4 DEF LinkInv, StopCarried, StartCarried

\* The end of the service comes behind what waits.
LEMMA LinkDestroy ==
    ASSUME LinkInv, ending, ending' \in BOOLEAN, orders' = Append(orders, "destroy"),
           UNCHANGED <<asked, tunnel, permitted, trouble>>
    PROVE  LinkInv'
<1>1. "destroy" \in Orders /\ orders \in Seq(Orders)
  BY DEF Orders, LinkInv, ClientTypeOK
<1>2. /\ orders' \in Seq(Orders) /\ Len(orders) \in Nat
      /\ Len(orders') = Len(orders) + 1 /\ orders' # <<>>
      /\ \A i \in 1..Len(orders) : orders'[i] = orders[i]
      /\ LastOrder' = "destroy" /\ orders'[Len(orders) + 1] = "destroy"
  BY <1>1, AppendOrder
<1>3. ClientTypeOK' /\ StopCarried'
  BY <1>2 DEF LinkInv, ClientTypeOK, StopCarried
<1>4. StartLast'
  <2> SUFFICES ASSUME asked = "start", NEW i \in 1..Len(orders'), orders'[i] = "stop"
               PROVE  \E j \in 1..Len(orders') : j > i /\ orders'[j] = "start"
    BY DEF StartLast
  <2>1. i \in 1..Len(orders) /\ orders[i] = "stop"
    BY <1>2
  <2>2. PICK j \in 1..Len(orders) : j > i /\ orders[j] = "start"
    BY <2>1 DEF LinkInv, StartLast
  <2> QED
    BY <1>2, <2>2
<1> QED
  BY <1>3, <1>4 DEF LinkInv, StartCarried

\* The VPN service carries out the first order.
LEMMA LinkTurn ==
    ASSUME LinkInv, NEW c \in Orders, Turn(c), tunnel' \in BOOLEAN, ending' \in BOOLEAN,
           trouble' \in SUBSET Troubles,
           c = "start" => (trouble' = trouble /\ ending' = ending /\ tunnel') \/ trouble' # {},
           c = "start" => trouble \subseteq trouble',
           c # "start" => ~tunnel',
           c = "stop" => trouble' = IF orders' = <<>> THEN {} ELSE trouble,
           c = "destroy" => trouble' = trouble /\ ending' = ending
    PROVE  LinkInv'
<1>1. orders \in Seq(Orders) /\ orders # <<>> /\ Head(orders) = c /\ orders' = Tail(orders)
      /\ asked' = asked /\ permitted' = permitted
  BY DEF Turn, LinkInv, ClientTypeOK, vars, screenVars
<1>2. /\ orders' \in Seq(Orders) /\ Len(orders) \in Nat \ {0}
      /\ orders[1] = c /\ Len(orders') = Len(orders) - 1
      /\ \A i \in 1..Len(orders') : orders'[i] = orders[i + 1]
      /\ orders' = <<>> <=> Len(orders) = 1
      /\ orders' # <<>> => LastOrder' = LastOrder
  BY <1>1, TakeOrder
<1>3. orders' = <<>> => LastOrder = c
  BY <1>2 DEF LastOrder
<1>4. ClientTypeOK'
  BY <1>1, <1>2 DEF LinkInv, ClientTypeOK
<1>5. StopCarried'
  <2> SUFFICES ASSUME asked = "stop", "byhand" \notin trouble'
               PROVE  IF orders' = <<>> THEN ~tunnel' ELSE LastOrder' # "start"
    BY <1>1 DEF StopCarried
  <2>1. CASE "byhand" \notin trouble
    BY <1>1, <1>2, <1>3, <2>1 DEF LinkInv, StopCarried, Orders
  <2>2. CASE "byhand" \in trouble
    <3>1. c = "stop" /\ orders' = <<>>
      BY <2>2 DEF Orders
    <3> QED
      BY <3>1
  <2> QED
    BY <2>1, <2>2
<1>6. StartLast'
  <2> SUFFICES ASSUME asked = "start", NEW i \in 1..Len(orders'), orders'[i] = "stop"
               PROVE  \E j \in 1..Len(orders') : j > i /\ orders'[j] = "start"
    BY <1>1 DEF StartLast
  <2>1. i + 1 \in 1..Len(orders) /\ orders[i + 1] = "stop"
    BY <1>2
  <2>2. PICK j \in 1..Len(orders) : j > i + 1 /\ orders[j] = "start"
    BY <2>1 DEF LinkInv, StartLast
  <2>3. j - 1 \in 1..Len(orders') /\ j - 1 > i /\ orders'[j - 1] = orders[j]
    BY <1>2, <2>2
  <2> QED
    BY <2>2, <2>3
<1>7. StartCarried'
  <2> SUFFICES ASSUME asked = "start", trouble' = {}
               PROVE  /\ ~ending' /\ ~Waits("stop")'
                      /\ IF orders' = <<>> THEN tunnel' ELSE LastOrder' = "start"
    BY <1>1 DEF StartCarried
  <2>1. ~(c = "stop" /\ orders' = <<>>)
    <3> SUFFICES ASSUME c = "stop", Len(orders) = 1 PROVE FALSE
      BY <1>2
    <3>1. 1 \in 1..Len(orders) /\ orders[1] = "stop"
      BY <1>2
    <3>2. PICK j \in 1..Len(orders) : j > 1
      BY <3>1 DEF LinkInv, StartLast
    <3> QED
      BY <3>2
  <2>2. trouble = {}
    BY <2>1 DEF Orders
  <2>3. /\ ~ending /\ ~Waits("stop")
        /\ IF orders = <<>> THEN tunnel ELSE LastOrder = "start"
    BY <2>2 DEF LinkInv, StartCarried
  <2>4. c # "stop"
    BY <1>2, <2>3 DEF Waits
  <2>5. ~ending'
    BY <2>2, <2>3, <2>4 DEF Orders
  <2>6. ~Waits("stop")'
    <3> SUFFICES ASSUME NEW i \in 1..Len(orders'), orders'[i] = "stop" PROVE FALSE
      BY DEF Waits
    <3>1. i + 1 \in 1..Len(orders) /\ orders[i + 1] = "stop"
      BY <1>2
    <3> QED
      BY <2>3, <3>1 DEF Waits
  <2>7. ASSUME orders' = <<>>
        PROVE  tunnel'
    <3>1. c = "start"
      BY <1>1, <1>3, <2>3, <2>7
    <3> QED
      BY <3>1
  <2> QED
    BY <1>1, <1>2, <2>3, <2>5, <2>6, <2>7
<1> QED
  BY <1>4, <1>5, <1>6, <1>7 DEF LinkInv


\* Nothing that the link is about changes.
LEMMA LinkSame ==
    ASSUME LinkInv, permitted' \in BOOLEAN, UNCHANGED <<asked, orders, tunnel, ending, trouble>>
    PROVE  LinkInv'
  BY DEF LinkInv, ClientTypeOK, StopCarried, StartLast, StartCarried, LastOrder, Waits

LEMMA LinkThread ==
    ASSUME MonitorInv, LinkInv, NEW t \in Threads, MonitorThread(t)
    PROVE  LinkInv'
<1>1. /\ Thread(t) /\ UNCHANGED <<tunnel, ending, permitted>> /\ permitted' \in BOOLEAN
      /\ IF Calls(t) THEN Order(asked') /\ trouble' = trouble \cup Behind(asked')
         ELSE UNCHANGED <<orders, trouble>>
  BY DEF MonitorThread, screenVars, LinkInv, ClientTypeOK
<1>2. TypeOK /\ TypeOK'
  BY <1>1, TypeNext DEF MonitorInv, Next
<1>3. CASE Calls(t)
  <2>1. asked' \in {"start", "stop"}
    BY <1>2 DEF TypeOK
  <2> QED
    BY <1>1, <1>3, <2>1, LinkRequest
<1>4. CASE ~Calls(t)
  BY <1>1, <1>2, <1>4, ThreadAsks, LinkSame
<1> QED
  BY <1>3, <1>4

LEMMA LinkVpn ==
    ASSUME LinkInv, VpnStep
    PROVE  LinkInv'
<1> USE DEF LinkInv, ClientTypeOK, Orders, Troubles
<1>1. CASE VpnStarts
  <2>1. Turn("start") /\ tunnel' \in BOOLEAN /\ ending' \in BOOLEAN /\ trouble' \in SUBSET Troubles
        /\ trouble \subseteq trouble'
        /\ ((trouble' = trouble /\ ending' = ending /\ tunnel') \/ trouble' # {})
    BY <1>1 DEF VpnStarts
  <2> HIDE DEF LinkInv
  <2> QED
    BY <2>1, LinkTurn
<1>2. CASE VpnFails
  <2>1. Turn("start") /\ tunnel' \in BOOLEAN /\ ending' \in BOOLEAN /\ trouble' \in SUBSET Troubles
        /\ trouble \subseteq trouble' /\ trouble' # {}
    BY <1>2 DEF VpnFails
  <2> HIDE DEF LinkInv
  <2> QED
    BY <2>1, LinkTurn
<1>3. CASE VpnStops
  <2>1. Turn("stop") /\ tunnel' = FALSE /\ ending' = TRUE /\ trouble' \in SUBSET Troubles
        /\ trouble' = IF orders' = <<>> THEN {} ELSE trouble
    BY <1>3 DEF VpnStops
  <2> HIDE DEF LinkInv
  <2> QED
    BY <2>1, LinkTurn
<1>4. CASE VpnStopsSelf
  <2>1. /\ ending /\ ending' = FALSE /\ orders' = Append(orders, "destroy")
        /\ UNCHANGED <<asked, tunnel, permitted, trouble>>
    BY <1>4 DEF VpnStopsSelf, vars, screenVars
  <2> HIDE DEF LinkInv
  <2> QED
    BY <2>1, LinkDestroy
<1>5. CASE VpnDestroyed
  <2>1. Turn("destroy") /\ tunnel' = FALSE /\ UNCHANGED <<ending, trouble>>
        /\ ending' \in BOOLEAN /\ trouble' \in SUBSET Troubles
    BY <1>5 DEF VpnDestroyed
  <2> HIDE DEF LinkInv
  <2> QED
    BY <2>1, LinkTurn
<1> QED
  BY <1>1, <1>2, <1>3, <1>4, <1>5 DEF VpnStep

LEMMA LinkNext ==
    ASSUME MonitorInv, LinkInv, ClientNext
    PROVE  LinkInv'
<1>1. permitted \in BOOLEAN
  BY DEF LinkInv, ClientTypeOK
<1>2. ASSUME MonitorCreated \/ MonitorDestroyed \/ MonitorChecks \/ MonitorHandles \/ NetworkMoves
      PROVE  LinkInv'
  <2>1. UNCHANGED <<asked, permitted, orders, tunnel, ending, trouble>>
    BY <1>2 DEF MonitorCreated, MonitorDestroyed, MonitorChecks, MonitorHandles, NetworkMoves,
       OnCreate, OnDestroy, CheckActiveNetwork, HandleCallback, NetworkChanges, screenVars, vpnVars
  <2> QED
    BY <1>1, <2>1, LinkSame
<1>3. ASSUME BootReceiver \/ LaunchMain \/ AnswerBattery \/ AnswerVpn
      PROVE  LinkInv'
  <2>1. UNCHANGED <<asked, orders, tunnel, ending, trouble>> /\ permitted' \in BOOLEAN
    BY <1>1, <1>3 DEF BootReceiver, LaunchMain, AnswerBattery, AnswerVpn, vars, vpnVars
  <2> QED
    BY <2>1, LinkSame
<1>4. ASSUME LaunchPermission \/ AnswerPermission
      PROVE  LinkInv'
  <2>1. UNCHANGED <<asked, tunnel, ending>> /\ permitted' \in BOOLEAN
        /\ (OrderByHand \/ UNCHANGED <<orders, trouble>>)
    BY <1>1, <1>4 DEF LaunchPermission, AnswerPermission, vars
  <2> QED
    BY <2>1, LinkByHand, LinkSame
<1>5. CASE Revoke
  <2>1. UNCHANGED <<asked, orders>> /\ permitted' \in BOOLEAN
        /\ \/ UNCHANGED <<tunnel, ending, trouble>>
           \/ /\ tunnel' = FALSE /\ ending' = TRUE
              /\ trouble' = trouble \cup {"revoked"}
    BY <1>5 DEF Revoke, vars
  <2>2. CASE UNCHANGED <<tunnel, ending, trouble>>
    BY <2>1, <2>2, LinkSame
  <2>3. CASE tunnel' = FALSE /\ ending' = TRUE /\ trouble' = trouble \cup {"revoked"}
    BY <2>1, <2>3 DEF LinkInv, ClientTypeOK, Troubles, StopCarried, StartLast, StartCarried,
       LastOrder
  <2> QED
    BY <2>1, <2>2, <2>3
<1>6. CASE ProcessDies
  <2>1. /\ asked' = "stop" /\ orders' = <<>> /\ tunnel' = FALSE /\ ending' = FALSE
        /\ trouble' = {} /\ permitted' = permitted
    BY <1>6 DEF ProcessDies
  <2>2. orders' \in Seq(Orders)
    BY <2>1, EmptySeq
  <2> QED
    BY <1>1, <2>1, <2>2 DEF LinkInv, ClientTypeOK, StopCarried, StartLast, StartCarried
<1> QED
  BY <1>2, <1>3, <1>4, <1>5, <1>6, LinkThread, LinkVpn DEF ClientNext

-----------------------------------------------------------------------------
(***************************************************************************)
(* The theorems.                                                           *)
(***************************************************************************)
ClientInv == MonitorInv /\ LinkInv

LEMMA ClientAlways == ClientSpec => []ClientInv
<1>1. ClientInit => ClientInv
  <2> SUFFICES ASSUME ClientInit PROVE ClientInv
    OBVIOUS
  <2>1. MonitorInv
    BY MonitorInit DEF ClientInit
  <2>2. /\ asked = "stop" /\ orders = <<>> /\ tunnel = FALSE /\ ending = FALSE
        /\ trouble = {} /\ permitted \in BOOLEAN
    BY DEF ClientInit, Init
  <2>3. orders \in Seq(Orders)
    BY <2>2, EmptySeq
  <2>4. LinkInv
    BY <2>2, <2>3 DEF LinkInv, ClientTypeOK, StopCarried, StartLast, StartCarried
  <2> QED
    BY <2>1, <2>4 DEF ClientInv
<1>2. ClientInv /\ [ClientNext]_clientVars => ClientInv'
  <2> SUFFICES ASSUME ClientInv, [ClientNext]_clientVars PROVE ClientInv'
    OBVIOUS
  <2>1. CASE ClientNext
    BY <2>1, MonitorSteps, LinkNext DEF ClientInv
  <2>2. CASE UNCHANGED clientVars
    <3>1. UNCHANGED vars /\ UNCHANGED <<asked, permitted, orders, tunnel, ending, trouble>>
      BY <2>2 DEF clientVars, vars, screenVars, vpnVars
    <3>2. MonitorInv'
      BY <3>1, MonitorNext DEF ClientInv
    <3>3. LinkInv'
      BY <3>1, LinkSame DEF ClientInv, LinkInv, ClientTypeOK
    <3> QED
      BY <3>2, <3>3 DEF ClientInv
  <2> QED
    BY <2>1, <2>2
<1> QED
  BY <1>1, <1>2, PTL DEF ClientSpec

\* When all is handled a tunnel is up only on PdaNet and only while the monitor lives, unless
\* the threads interleaved, a call failed or VpnPermissionActivity ordered the tunnel.
THEOREM TunnelOnlyOnPdaNetHolds == ClientSpec => []TunnelOnlyOnPdaNet
<1>1. ASSUME ClientInv, Quiet, callbacks = <<>>, InOrder, "byhand" \notin trouble, tunnel
      PROVE  PdaNetUp /\ alive
  <2>1. MonitorInv /\ OrderInv /\ orders = <<>> /\ \A t \in Threads : Idle(t)
    BY <1>1 DEF ClientInv, MonitorInv, Quiet
  <2>2. asked = "start"
    BY <1>1, <2>1 DEF ClientInv, LinkInv, StopCarried, MonitorInv, TypeOK
  <2>3. alive /\ registered
    BY <2>1, <2>2 DEF OrderInv, Threads
  <2>4. Settled
    BY <1>1, <2>1, <2>3 DEF Settled
  <2> QED
    BY <1>1, <2>1, <2>2, <2>3, <2>4, SettledStates
<1>2. ClientInv => TunnelOnlyOnPdaNet
  BY <1>1 DEF TunnelOnlyOnPdaNet
<1> QED
  BY <1>2, ClientAlways, PTL

\* When all is handled there is a tunnel on PdaNet, also after the process was killed, unless
\* there was trouble since the last stop.
THEOREM ConnectedOnPdaNetHolds == ClientSpec => []ConnectedOnPdaNet
<1>1. ASSUME ClientInv, Settled, Quiet, blame = {}, trouble = {}, PdaNetUp
      PROVE  tunnel
  <2>1. MonitorInv /\ InOrder /\ orders = <<>>
    BY <1>1 DEF ClientInv, InOrder, Quiet
  <2>2. asked = "start"
    BY <1>1, <2>1, SettledStates
  <2> QED
    BY <1>1, <2>1, <2>2 DEF ClientInv, LinkInv, StartCarried
<1>2. ClientInv => ConnectedOnPdaNet
  BY <1>1 DEF ConnectedOnPdaNet
<1> QED
  BY <1>2, ClientAlways, PTL

===============================================================================
