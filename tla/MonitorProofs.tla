----------------------------- MODULE MonitorProofs -----------------------------
(***************************************************************************)
(* Theorems about the monitor service, for any number of networks, of      *)
(* instances and of callbacks that wait.  Its flag and its requests follow *)
(* the networks as long as the threads do not interleave and no call       *)
(* fails; what is proved of the steps is used again for the application.   *)
(***************************************************************************)
EXTENDS PdaNetMonitorService, FiniteSetTheorems, SequenceTheorems, TLAPS

\* onCreate's callback is told of every network that is up, of each once.
LEMMA CreatedQueue ==
    ASSUME TypeOK, OnCreate, registered'
    PROVE  /\ callbacks' \in Seq(Callback)
           /\ \A i \in 1..Len(callbacks') : callbacks'[i].type = "available"
           /\ \A n \in Up : \E i \in 1..Len(callbacks') : callbacks'[i].net = n
<1>0. PICK order \in [1..Cardinality(Up) -> Up] :
         /\ \A i, j \in DOMAIN order : i # j => order[i] # order[j]
         /\ callbacks' = [i \in DOMAIN order |-> [type |-> "available", net |-> order[i]]]
  BY DEF OnCreate
<1>1. IsFiniteSet(Up) /\ Up \in SUBSET Nets /\ Cardinality(Up) \in Nat
  BY NetsAssumption, FS_Subset, FS_CardinalityType DEF Up
<1>2. DOMAIN order = 1..Cardinality(Up) /\ \A i \in 1..Cardinality(Up) : order[i] \in Up
  BY <1>0
<1>3. Cardinality(1..Cardinality(Up)) = Cardinality(Up)
  BY <1>1, FS_Interval
<1>4. order \in Surjection(1..Cardinality(Up), Up)
  <2>1. order \in Injection(1..Cardinality(Up), Up)
    BY <1>0, <1>2 DEF Injection, IsInjective
  <2> QED
    BY <1>1, <1>3, <2>1, FS_Injection
<1>5. callbacks' \in [1..Cardinality(Up) -> Callback]
  <2>1. \A i \in 1..Cardinality(Up) : [type |-> "available", net |-> order[i]] \in Callback
    BY <1>1, <1>2 DEF Callback
  <2> QED
    BY <1>0, <1>2, <2>1
<1>6. callbacks' \in Seq(Callback) /\ Len(callbacks') = Cardinality(Up)
  <2>1. callbacks' \in Seq(Callback)
    BY <1>1, <1>5, SeqDef
  <2>2. DOMAIN callbacks' = 1..Cardinality(Up) /\ DOMAIN callbacks' = 1..Len(callbacks') /\ Len(callbacks') \in Nat
    BY <1>5, <2>1, LenProperties
  <2> QED
    BY <1>1, <2>1, <2>2
<1>7. \A n \in Up : \E i \in 1..Len(callbacks') : callbacks'[i].net = n
  BY <1>0, <1>2, <1>4, <1>6 DEF Surjection
<1>8. \A i \in 1..Len(callbacks') : callbacks'[i].type = "available"
  BY <1>0, <1>2, <1>6
<1> QED
  BY <1>6, <1>7, <1>8

-----------------------------------------------------------------------------
(***************************************************************************)
(* Type correctness.                                                       *)
(***************************************************************************)
LEMMA TypeThread ==
    ASSUME TypeOK, NEW t \in Threads, Thread(t)
    PROVE  TypeOK'
<1> USE DEF TypeOK, Places, networkVars, serviceVars
<1>1. CASE CheckNetwork(t)
  <2>1. pc' \in [Threads -> Places]
    BY <1>1 DEF CheckNetwork, Goto, Reading
  <2> QED
    BY <1>1, <2>1 DEF CheckNetwork
<1>2. CASE CheckRunning(t)
  BY <1>2 DEF CheckRunning, Goto
<1>3. CASE StartVpnService(t)
  BY <1>3 DEF StartVpnService, Goto
<1>4. CASE Started(t)
  BY <1>4 DEF Started, Goto
<1>5. CASE StopVpnService(t)
  BY <1>5 DEF StopVpnService, Goto
<1>6. CASE CallStop(t)
  BY <1>6 DEF CallStop, Goto
<1>7. CASE Stopped(t)
  BY <1>7 DEF Stopped, Goto
<1> QED
  BY <1>1, <1>2, <1>3, <1>4, <1>5, <1>6, <1>7 DEF Thread

LEMMA TypeNext == TypeOK /\ Next => TypeOK'
<1> SUFFICES ASSUME TypeOK, Next PROVE TypeOK'
  OBVIOUS
<1> USE DEF TypeOK
<1>1. Overlap \in SUBSET {"overlap", "failed", "another"}
  BY DEF Overlap
<1>2. CASE OnCreate
  <2>1. callbacks' \in Seq(Callback)
    BY <1>2, CreatedQueue, EmptySeq DEF OnCreate
  <2>2. instance' \in 0..MaxInstances /\ me' \in [Threads -> 0..MaxInstances]
    <3>1. instance' \in 0..MaxInstances
      BY <1>2, BoundsAssumption DEF OnCreate
    <3>2. me' = [me EXCEPT !["main"] = instance']
      BY <1>2 DEF OnCreate
    <3> QED
      BY <3>1, <3>2
  <2>3. pc' \in [Threads -> Places] /\ blame' \in SUBSET {"overlap", "failed", "another"}
    BY <1>2 DEF OnCreate, Goto, Places
  <2> QED
    BY <1>2, <2>1, <2>2, <2>3 DEF OnCreate
<1>3. CASE CheckActiveNetwork
  <2>1. net' \in [Threads -> Nets \cup {Other}]
    <3>1. net' = net \/ \E n \in Nets \cup {Other} : net' = [net EXCEPT !["main"] = n]
      BY <1>3 DEF CheckActiveNetwork, Up
    <3>2. net \in [Threads -> Nets \cup {Other}]
      OBVIOUS
    <3>3. ASSUME NEW n \in Nets \cup {Other} PROVE [net EXCEPT !["main"] = n] \in [Threads -> Nets \cup {Other}]
      BY <3>2
    <3> HIDE DEF TypeOK
    <3> QED
      BY <3>1, <3>2, <3>3
  <2> QED
    BY <1>3, <2>1 DEF CheckActiveNetwork, Goto, Places, networkVars, serviceVars
<1>4. CASE OnDestroy
  BY <1>1, <1>4, EmptySeq DEF OnDestroy, Goto, Places
<1>5. CASE HandleCallback
  <2>1. Head(callbacks) \in Callback /\ Tail(callbacks) \in Seq(Callback)
    BY <1>5, HeadTailProperties DEF HandleCallback
  <2>2. net' \in [Threads -> Nets \cup {Other}] /\ pc' \in [Threads -> Places]
    BY <1>5, <2>1 DEF HandleCallback, Goto, Handler, Places, Callback
  <2>3. blame' \in SUBSET {"overlap", "failed", "another"}
    BY <1>1, <1>5 DEF HandleCallback, Another
  <2> QED
    BY <1>5, <2>1, <2>2, <2>3 DEF HandleCallback, serviceVars
<1>6. CASE NetworkChanges
  <2>1. PICK n \in Nets : \E type \in {"available", "properties", "lost"} :
           /\ Notify(type, n)
           /\ \E g \in {"down", "other", "pdanet"} : gateway' = [gateway EXCEPT ![n] = g]
    BY <1>6 DEF NetworkChanges
  <2>2. callbacks' \in Seq(Callback)
    <3>1. ASSUME NEW type \in {"available", "properties", "lost"}, Notify(type, n)
          PROVE  callbacks' \in Seq(Callback)
      <4>1. [type |-> type, net |-> n] \in Callback
        BY DEF Callback
      <4> QED
        BY <3>1, <4>1, AppendProperties DEF Notify
    <3> QED
      BY <2>1, <3>1
  <2> QED
    BY <1>6, <2>1, <2>2 DEF NetworkChanges, serviceVars, threadVars
<1> QED
  BY <1>2, <1>3, <1>4, <1>5, <1>6, TypeThread DEF Next

LEMMA TypeInit == Init => TypeOK
<1> SUFFICES ASSUME Init PROVE TypeOK
  OBVIOUS
<1>1. 0 \in 0..MaxInstances
  BY BoundsAssumption
<1>2. /\ gateway \in [Nets -> {"down", "other", "pdanet"}]
      /\ running \in [Instances -> BOOLEAN]
      /\ net \in [Threads -> Nets \cup {Other}] /\ me \in [Threads -> 0..MaxInstances]
  BY <1>1 DEF Init
<1> QED
  BY <1>1, <1>2, EmptySeq DEF Init, TypeOK, Places

\* Every variable keeps its type.
THEOREM TypeCorrect == Spec => []TypeOK
<1>1. TypeOK /\ UNCHANGED vars => TypeOK'
  BY DEF vars, networkVars, serviceVars, threadVars, TypeOK
<1> QED
  BY <1>1, TypeInit, TypeNext, PTL DEF Spec

-----------------------------------------------------------------------------
(***************************************************************************)
(* Instances and callbacks.  Callbacks wait only for a registered service, *)
(* and each thread works for an instance that was created.                 *)
(***************************************************************************)
ServiceInv ==
    /\ registered => alive
    /\ ~registered => callbacks = <<>>
    /\ me["main"] = instance /\ me["conn"] <= instance
    /\ alive => instance \in Instances
    /\ \A t \in Threads : ~Idle(t) => me[t] \in Instances
    /\ pc["main"] = "registered" => registered
    /\ pc["conn"] # "registered"
    /\ \A i \in Instances : i > instance => ~running[i]

\* What a step of a thread changes.
LEMMA ThreadStep ==
    ASSUME TypeOK, NEW t \in Threads, Thread(t)
    PROVE  /\ ~Idle(t) /\ pc[t] # "registered"
           /\ pc' = [pc EXCEPT ![t] = pc'[t]] /\ pc'[t] # "registered"
           /\ UNCHANGED <<gateway, callbacks, instance, alive, registered, net, me>>
           /\ running' = running \/ \E b \in BOOLEAN : running' = [running EXCEPT ![me[t]] = b]
           /\ blame' = blame \/ blame' = blame \cup {"failed"}
  BY DEF TypeOK, Thread, CheckNetwork, CheckRunning, StartVpnService, Started, StopVpnService,
         CallStop, Stopped, Goto, networkVars, serviceVars, Idle, Reading

LEMMA ServiceNext == TypeOK /\ ServiceInv /\ Next => ServiceInv'
<1> SUFFICES ASSUME TypeOK, ServiceInv, Next PROVE ServiceInv'
  OBVIOUS
<1> USE DEF TypeOK, ServiceInv, Threads, Instances, Idle, Goto, networkVars, serviceVars, threadVars
<1>1. ASSUME NEW t \in Threads, Thread(t)
      PROVE  ServiceInv'
  <2>1. /\ UNCHANGED <<callbacks, instance, alive, registered, me>>
        /\ ~Idle(t) /\ pc' = [pc EXCEPT ![t] = pc'[t]] /\ pc'[t] # "registered"
        /\ running' = running \/ \E b \in BOOLEAN : running' = [running EXCEPT ![me[t]] = b]
    BY <1>1, ThreadStep
  <2>2. ASSUME NEW i \in Instances, i > instance
        PROVE  ~running'[i]
    <3>1. me[t] # i
      BY <2>2, BoundsAssumption
    <3>2. running \in [Instances -> BOOLEAN] /\ ~running[i]
      BY <2>2
    <3>3. CASE running' = running
      BY <3>2, <3>3
    <3>4. ASSUME NEW b \in BOOLEAN, running' = [running EXCEPT ![me[t]] = b]
          PROVE  ~running'[i]
      BY <3>1, <3>2, <3>4
    <3> QED
      BY <2>1, <3>3, <3>4
  <2> QED
    BY <2>1, <2>2
<1>2. CASE OnCreate
  <2>1. /\ instance' = instance + 1 /\ alive' = TRUE /\ instance < MaxInstances
        /\ me' = [me EXCEPT !["main"] = instance'] /\ running' = running
        /\ Idle("main")
    BY <1>2 DEF OnCreate
  <2>1a. \/ registered' = TRUE /\ pc' = [pc EXCEPT !["main"] = "registered"]
         \/ registered' = FALSE /\ callbacks' = <<>> /\ pc' = pc
    BY <1>2 DEF OnCreate
  <2>2. instance' \in Instances /\ instance < instance'
    BY <2>1, BoundsAssumption
  <2>3. \A i \in Instances : i > instance' => ~running'[i]
    BY <2>1, <2>2
  <2>4. \A t \in Threads : ~Idle(t)' => me'[t] \in Instances
    BY <2>1, <2>1a, <2>2
  <2> QED
    BY <2>1, <2>1a, <2>2, <2>3, <2>4
<1>3. CASE CheckActiveNetwork
  BY <1>3 DEF CheckActiveNetwork
<1>4. CASE OnDestroy
  BY <1>4 DEF OnDestroy
<1>5. CASE HandleCallback
  <2>1. registered /\ alive /\ instance \in Instances
    BY <1>5 DEF HandleCallback
  <2>2. /\ pc' = [pc EXCEPT !["conn"] = pc'["conn"]] /\ pc'["conn"] # "registered"
        /\ me' = [me EXCEPT !["conn"] = instance]
        /\ UNCHANGED <<instance, alive, registered, running>>
    BY <1>5 DEF HandleCallback, Handler
  <2> QED
    BY <2>1, <2>2
<1>6. CASE NetworkChanges
  BY <1>6 DEF NetworkChanges, Notify
<1> QED
  BY <1>1, <1>2, <1>3, <1>4, <1>5, <1>6 DEF Next

-----------------------------------------------------------------------------
(***************************************************************************)
(* One thread at a time.  As long as none ran into another and no call     *)
(* failed, the flag of the instance says what was asked last, but between  *)
(* the call and the assignment of the flag.                                *)
(***************************************************************************)
StopPath == {"stop", "stopping", "stopped"}

OrderInv ==
    /\ Idle("main") \/ Idle("conn")
    /\ ~Idle("conn") => registered /\ me["conn"] = instance
    /\ alive => registered
    /\ ~alive => pc["main"] \in {"idle"} \cup StopPath
    /\ ~alive /\ Idle("main") => asked = "stop"
    /\ \A t \in Threads : /\ pc[t] = "started" => asked = "start"
                          /\ pc[t] = "stopped" => asked = "stop"
    /\ (alive \/ ~Idle("main")) /\ (\A t \in Threads : pc[t] \notin {"started", "stopped"})
           => (running[instance] <=> asked = "start")

LEMMA OrderThread ==
    ASSUME TypeOK, ServiceInv, OrderInv, NEW t \in Threads, Thread(t), InOrder'
    PROVE  OrderInv'
<1>1. /\ UNCHANGED <<callbacks, instance, alive, registered, me>>
      /\ ~Idle(t) /\ me[t] = instance /\ instance \in Instances
      /\ \A o \in Threads : o # t => Idle(o) /\ pc'[o] = "idle"
      /\ pc' = [pc EXCEPT ![t] = pc'[t]]
  BY ThreadStep DEF OrderInv, ServiceInv, Threads, Idle, TypeOK
<1> USE DEF OrderInv, TypeOK, Threads, Idle, Goto, networkVars, serviceVars, StopPath
<1>2. CASE CheckNetwork(t)
  <2>0. Reading[net[t]] \in {"down", "other", "pdanet"}
    BY DEF Reading
  <2>1. UNCHANGED <<running, asked>> /\ pc[t] = "check" /\ pc'[t] \in {"on", "off", "idle"}
    BY <1>2, <2>0 DEF CheckNetwork
  <2> QED
    BY <1>1, <2>1
<1>3. CASE CheckRunning(t)
  BY <1>1, <1>3 DEF CheckRunning
<1>4. CASE StartVpnService(t)
  <2>1. pc[t] = "start" /\ UNCHANGED running
    BY <1>4 DEF StartVpnService
  <2>2. pc'[t] = "started" /\ asked' = "start"
    BY <1>4 DEF StartVpnService, InOrder
  <2>3. alive
    BY <1>1, <2>1 DEF ServiceInv
  <2> QED
    BY <1>1, <2>1, <2>2, <2>3
<1>5. CASE Started(t)
  BY <1>1, <1>5 DEF Started
<1>6. CASE StopVpnService(t)
  BY <1>1, <1>6 DEF StopVpnService
<1>7. CASE CallStop(t)
  BY <1>1, <1>7 DEF CallStop, InOrder
<1>8. CASE Stopped(t)
  BY <1>1, <1>8 DEF Stopped
<1> QED
  BY <1>2, <1>3, <1>4, <1>5, <1>6, <1>7, <1>8 DEF Thread

LEMMA OrderNext ==
    ASSUME TypeOK, ServiceInv, OrderInv, Next, InOrder'
    PROVE  OrderInv'
<1> USE DEF OrderInv, TypeOK, ServiceInv, Threads, Idle, Goto, StopPath, InOrder
<1>1. CASE OnCreate
  <2>1. registered' /\ alive' /\ me' = [me EXCEPT !["main"] = instance'] /\ instance' = instance + 1
        /\ pc' = [pc EXCEPT !["main"] = "registered"] /\ UNCHANGED <<running, asked>>
        /\ ~alive /\ Idle("main") /\ instance < MaxInstances
    BY <1>1 DEF OnCreate
  <2>2. pc["conn"] = "idle" /\ asked = "stop"
    BY <2>1
  <2>3. ~running[instance']
    <3>1. instance' \in Instances /\ instance' > instance
      BY <2>1, BoundsAssumption DEF Instances
    <3> QED
      BY <3>1
  <2> QED
    BY <2>1, <2>2, <2>3
<1>2. CASE CheckActiveNetwork
  BY <1>2 DEF CheckActiveNetwork, networkVars, serviceVars
<1>3. CASE OnDestroy
  <2>1. Idle("conn") /\ pc' = [pc EXCEPT !["main"] = "stop"] /\ ~alive'
        /\ UNCHANGED <<instance, running, asked, me>> /\ alive /\ Idle("main")
    BY <1>3 DEF OnDestroy, Overlap
  <2> QED
    BY <2>1
<1>4. CASE HandleCallback
  <2>1. Idle("main") /\ Idle("conn") /\ registered
    BY <1>4 DEF HandleCallback, Overlap
  <2>2. pc' = [pc EXCEPT !["conn"] = pc'["conn"]] /\ pc'["conn"] \in {"check", "stop"}
        /\ me' = [me EXCEPT !["conn"] = instance]
        /\ UNCHANGED <<instance, alive, registered, running, asked>>
    BY <1>4 DEF HandleCallback, Handler, serviceVars
  <2> QED
    BY <2>1, <2>2
<1>5. CASE NetworkChanges
  BY <1>5 DEF NetworkChanges, serviceVars, threadVars
<1> QED
  BY <1>1, <1>2, <1>3, <1>4, <1>5, OrderThread DEF Next

\* Blame is never taken back within the life of the process.
LEMMA BlameGrows == TypeOK /\ Next => blame \subseteq blame'
<1> SUFFICES ASSUME TypeOK, Next PROVE blame \subseteq blame'
  OBVIOUS
<1>1. ASSUME NEW t \in Threads, Thread(t)
      PROVE  blame \subseteq blame'
  BY <1>1, ThreadStep
<1> QED
  BY <1>1 DEF Next, OnCreate, CheckActiveNetwork, OnDestroy, HandleCallback, NetworkChanges,
              Overlap, Another

-----------------------------------------------------------------------------
(***************************************************************************)
(* Losing PdaNet.  While a tunnel is asked for, or about to be, and no     *)
(* network has the gateway, something is on its way that takes the request *)
(* back: a callback that waits, or a thread that saw it.                   *)
(***************************************************************************)
Wants == asked = "start" \/ \E t \in Threads : pc[t] \in {"on", "start"}

OffQueued  == \E i \in 1..Len(callbacks) :
                  callbacks[i].type = "lost" \/ gateway[callbacks[i].net] = "other"
OffHandled == \E t \in Threads : \/ pc[t] \in {"off"} \cup StopPath
                                 \/ pc[t] = "check" /\ Reading[net[t]] = "other"
OffInv == alive /\ Wants /\ ~PdaNetUp => OffQueued \/ OffHandled

LEMMA OffThread ==
    ASSUME TypeOK, ServiceInv, OrderInv, OffInv, NEW t \in Threads, Thread(t), InOrder'
    PROVE  OffInv'
<1>1. /\ UNCHANGED <<gateway, callbacks, instance, alive, registered, net>>
      /\ ~Idle(t) /\ me[t] = instance /\ instance \in Instances
      /\ \A o \in Threads : o # t => pc[o] = "idle" /\ pc'[o] = "idle"
      /\ OffQueued' = OffQueued /\ PdaNetUp' = PdaNetUp
  BY ThreadStep DEF OrderInv, ServiceInv, Threads, Idle, TypeOK, OffQueued, PdaNetUp
<1> USE DEF OffInv, OffHandled, Wants, StopPath, OrderInv
<1>2. CASE CheckNetwork(t)
  <2>1. asked' = asked /\ pc[t] = "check"
    BY <1>2 DEF CheckNetwork
  <2>2. net[t] \in Nets \cup {Other} /\ Reading[net[t]] \in {"pdanet", "other", "down"}
    BY DEF TypeOK, Reading
  <2>3. pc'[t] = CASE Reading[net[t]] = "pdanet" -> "on"
                   [] Reading[net[t]] = "other"  -> "off"
                   [] Reading[net[t]] = "down"   -> "idle"
    BY <1>2 DEF CheckNetwork, Goto, TypeOK
  <2>4. CASE Reading[net[t]] = "pdanet"
    <3>1. PdaNetUp
      BY <2>2, <2>4 DEF Reading, PdaNetUp
    <3> QED
      BY <1>1, <3>1
  <2>5. CASE Reading[net[t]] = "other"
    <3>1. pc'[t] = "off"
      BY <2>3, <2>5
    <3> QED
      BY <3>1
  <2>6. CASE Reading[net[t]] = "down"
    <3>1. pc'[t] = "idle"
      BY <2>3, <2>6
    <3>2. ~OffHandled
      BY <1>1, <2>1, <2>6
    <3>3. Wants' => Wants
      BY <1>1, <2>1, <3>1
    <3> QED
      BY <1>1, <3>2, <3>3
  <2> QED
    BY <2>2, <2>4, <2>5, <2>6
<1>3. CASE CheckRunning(t)
  <2>1. /\ pc[t] \in {"on", "off"} /\ UNCHANGED <<asked, running>>
        /\ pc'[t] = IF (pc[t] = "on") = running[instance] THEN "idle"
                    ELSE IF pc[t] = "on" THEN "start" ELSE "stop"
    BY <1>1, <1>3 DEF CheckRunning, Goto, TypeOK
  <2>2. running[instance] \in BOOLEAN
    BY <1>1 DEF TypeOK
  <2>3. CASE pc[t] = "on"
    <3>1. ~OffHandled /\ Wants
      BY <1>1, <2>3
    <3> QED
      BY <1>1, <3>1
  <2>4. CASE pc[t] = "off" /\ running[instance]
    BY <2>1, <2>4
  <2>5. CASE pc[t] = "off" /\ ~running[instance]
    <3>1. pc'[t] = "idle" /\ asked # "start"
      BY <1>1, <2>1, <2>2, <2>5
    <3> QED
      BY <1>1, <2>1, <3>1
  <2> QED
    BY <2>1, <2>2, <2>3, <2>4, <2>5
<1>4. CASE StartVpnService(t)
  <2>1. ~OffHandled /\ Wants
    BY <1>1, <1>4 DEF StartVpnService
  <2> QED
    BY <1>1, <2>1
<1>5. CASE Started(t)
  <2>1. ~OffHandled /\ Wants
    BY <1>1, <1>5 DEF Started
  <2> QED
    BY <1>1, <2>1
<1>6. CASE StopVpnService(t)
  <2>1. pc[t] = "stop" /\ asked' = asked
    BY <1>6 DEF StopVpnService
  <2>2. pc'[t] = IF running[instance] THEN "stopping" ELSE "idle"
    BY <1>1, <1>6 DEF StopVpnService, Goto, TypeOK
  <2>3. CASE running[instance]
    BY <2>2, <2>3
  <2>4. CASE ~running[instance]
    <3>1. \A o \in Threads : pc[o] \notin {"started", "stopped"}
      BY <1>1, <2>1
    <3>2. asked # "start" /\ pc'[t] = "idle"
      BY <1>1, <2>2, <2>4, <3>1
    <3>3. ~Wants'
      BY <1>1, <2>1, <3>2
    <3> QED
      BY <3>3
  <2> QED
    BY <2>3, <2>4
<1>7. CASE CallStop(t)
  <2>1. pc'[t] = "stopped"
    BY <1>7 DEF CallStop, Goto, TypeOK, InOrder
  <2> QED
    BY <2>1
<1>8. CASE Stopped(t)
  <2>1. asked' = "stop" /\ pc'[t] = "idle"
    BY <1>8 DEF Stopped, Goto, TypeOK
  <2> QED
    BY <1>1, <2>1
<1> QED
  BY <1>2, <1>3, <1>4, <1>5, <1>6, <1>7, <1>8 DEF Thread

LEMMA OffNext ==
    ASSUME TypeOK, ServiceInv, OrderInv, OffInv, Next, InOrder'
    PROVE  OffInv'
<1> USE DEF OffInv, Threads, Idle
<1>1. CASE OnCreate
  <2>1. asked = "stop" /\ asked' = asked /\ pc["conn"] = "idle"
        /\ pc' = [pc EXCEPT !["main"] = "registered"]
    BY <1>1 DEF OnCreate, OrderInv, ServiceInv, InOrder, Goto
  <2>2. ~Wants'
    BY <2>1 DEF Wants, TypeOK
  <2> QED
    BY <2>2
<1>2. CASE CheckActiveNetwork
  <2>1. pc["main"] = "registered" /\ pc' = [pc EXCEPT !["main"] = pc'["main"]]
        /\ pc'["main"] \in {"idle", "check"} /\ pc["conn"] = "idle"
        /\ UNCHANGED <<gateway, callbacks, asked, alive>>
    BY <1>2 DEF CheckActiveNetwork, OrderInv, Goto, networkVars, serviceVars, TypeOK
  <2>2. ~OffHandled /\ (Wants' <=> Wants)
    BY <2>1 DEF OffHandled, Wants, TypeOK, StopPath
  <2> QED
    BY <2>1, <2>2 DEF OffQueued, PdaNetUp
<1>3. CASE OnDestroy
  BY <1>3 DEF OnDestroy
<1>4. CASE HandleCallback
  <2>1. Idle("main") /\ Idle("conn") /\ callbacks # <<>>
    BY <1>4 DEF HandleCallback, Overlap, InOrder
  <2>2. pc' = [pc EXCEPT !["conn"] = Handler(Head(callbacks).type)]
        /\ net' = [net EXCEPT !["conn"] = Head(callbacks).net]
        /\ callbacks' = Tail(callbacks) /\ UNCHANGED <<gateway, alive, asked>>
    BY <1>4 DEF HandleCallback, Goto, serviceVars
  <2>3. Head(callbacks) = callbacks[1] /\ Head(callbacks) \in Callback
        /\ Len(Tail(callbacks)) = Len(callbacks) - 1 /\ Len(callbacks) \in Nat
        /\ \A i \in 1..(Len(callbacks) - 1) : Tail(callbacks)[i] = callbacks[i + 1]
    BY <2>1, HeadTailProperties, LenProperties DEF TypeOK
  <2>4. ~OffHandled /\ (Wants' => Wants) /\ PdaNetUp' = PdaNetUp
    BY <2>1, <2>2 DEF OffHandled, Wants, TypeOK, StopPath, Handler, PdaNetUp
  <2>5. ASSUME OffQueued PROVE OffQueued' \/ OffHandled'
    <3>1. PICK i \in 1..Len(callbacks) :
             callbacks[i].type = "lost" \/ gateway[callbacks[i].net] = "other"
      BY <2>5 DEF OffQueued
    <3>2. CASE i = 1
      <4>1. CASE callbacks[1].type = "lost"
        BY <2>2, <2>3, <4>1 DEF OffHandled, TypeOK, StopPath, Handler
      <4>2. CASE callbacks[1].type # "lost" /\ gateway[callbacks[1].net] = "other"
        <5>1. pc'["conn"] = "check" /\ net'["conn"] = callbacks[1].net
          BY <2>2, <2>3, <4>2 DEF TypeOK, Handler
        <5>2. callbacks[1].net \in Nets
          BY <2>3 DEF Callback
        <5>3. Reading'[net'["conn"]] = "other"
          <6>1. gateway' = gateway /\ callbacks[1].net # Other
            BY <2>2, <5>2, NetsAssumption
          <6> QED
            BY <4>2, <5>1, <5>2, <6>1 DEF Reading
        <5> QED
          BY <5>1, <5>3 DEF OffHandled
      <4> QED
        BY <3>1, <3>2, <4>1, <4>2
    <3>3. CASE i # 1
      <4>1. i - 1 \in 1..(Len(callbacks) - 1) /\ (i - 1) + 1 = i
        BY <2>3, <3>3
      <4> QED
        BY <2>2, <2>3, <3>1, <4>1 DEF OffQueued
    <3> QED
      BY <3>2, <3>3
  <2> QED
    BY <2>2, <2>4, <2>5
<1>5. CASE NetworkChanges
  <2> SUFFICES ASSUME alive', Wants', ~PdaNetUp'
               PROVE  OffQueued' \/ OffHandled'
    OBVIOUS
  <2>1. UNCHANGED <<alive, registered, pc, net, asked>> /\ registered
    BY <1>5 DEF NetworkChanges, serviceVars, threadVars, OrderInv
  <2>2. PICK n \in Nets, type \in {"available", "properties", "lost"},
             g \in {"down", "other", "pdanet"} :
           /\ callbacks' = Append(callbacks, [type |-> type, net |-> n])
           /\ gateway' = [gateway EXCEPT ![n] = g]
           /\ type = "lost" <=> g = "down"
    BY <1>5, <2>1 DEF NetworkChanges, Notify, TypeOK
  <2>3. /\ Len(callbacks') = Len(callbacks) + 1 /\ Len(callbacks) \in Nat
        /\ \A i \in 1..Len(callbacks) : callbacks'[i] = callbacks[i]
        /\ callbacks'[Len(callbacks) + 1] = [type |-> type, net |-> n]
    <3>1. [type |-> type, net |-> n] \in Callback
      BY DEF Callback
    <3> QED
      BY <2>2, <3>1, AppendProperties, LenProperties DEF TypeOK
  <2>4. g \in {"down", "other"}
    BY <2>2 DEF PdaNetUp, TypeOK
  <2>5. OffQueued'
    <3>1. Len(callbacks) + 1 \in 1..Len(callbacks')
      BY <2>3
    <3>2. type = "lost" \/ gateway'[n] = "other"
      BY <2>2, <2>4 DEF TypeOK
    <3> QED
      BY <2>3, <3>1, <3>2 DEF OffQueued
  <2> QED
    BY <2>5
<1> QED
  BY <1>1, <1>2, <1>3, <1>4, <1>5, OffThread DEF Next


-----------------------------------------------------------------------------
(***************************************************************************)
(* Finding PdaNet.  While a network has the gateway, either a callback     *)
(* about it waits with none behind it that reports it lost, or the last    *)
(* one was handled: the tunnel is asked for, or a thread is about to ask.  *)
(***************************************************************************)
Lost(n, j) == callbacks[j].net = n /\ callbacks[j].type = "lost"
LastOf(n)  == \E i \in 1..Len(callbacks) :
                  /\ callbacks[i].net = n /\ callbacks[i].type # "lost"
                  /\ \A j \in 1..Len(callbacks) : j > i => ~Lost(n, j)
AskedFor(n) == \/ \E t \in Threads : pc[t] = "check" /\ net[t] = n
               \/ \E t \in Threads : pc[t] \in {"on", "start", "started"}
               \/ /\ asked = "start"
                  /\ \A t \in Threads : pc[t] \notin {"check", "off"} \cup StopPath
Done(n) == AskedFor(n) /\ \A j \in 1..Len(callbacks) : ~Lost(n, j)
OnInv == registered => \A n \in Nets : gateway[n] = "pdanet" => LastOf(n) \/ Done(n)

LEMMA OnThread ==
    ASSUME TypeOK, ServiceInv, OrderInv, OnInv, NEW t \in Threads, Thread(t), blame' = {}
    PROVE  OnInv'
<1>1. /\ UNCHANGED <<gateway, callbacks, instance, alive, registered, net>>
      /\ ~Idle(t) /\ me[t] = instance /\ instance \in Instances
      /\ \A o \in Threads : o # t => pc[o] = "idle" /\ pc'[o] = "idle"
  BY ThreadStep DEF OrderInv, ServiceInv, Threads, Idle, TypeOK
<1> SUFFICES ASSUME NEW n \in Nets, gateway[n] = "pdanet", AskedFor(n)
             PROVE  AskedFor(n)'
  BY <1>1 DEF OnInv, LastOf, Done, Lost
<1>2. net[t] = n => Reading[net[t]] = "pdanet"
  BY NetsAssumption DEF Reading
<1> USE DEF AskedFor, StopPath, Goto, TypeOK
<1>3. pc[t] \in {"check", "on", "start", "started"} /\ (pc[t] = "check" => net[t] = n)
  BY <1>1, ThreadStep DEF Thread, CheckNetwork, CheckRunning, StartVpnService, Started,
     StopVpnService, CallStop, Stopped
<1>4. CASE pc[t] = "check"
  BY <1>2, <1>3, <1>4 DEF Thread, CheckNetwork, CheckRunning, StartVpnService, Started,
     StopVpnService, CallStop, Stopped
<1>5. CASE pc[t] = "on"
  <2>1. CheckRunning(t)
    BY <1>5 DEF Thread, CheckNetwork, CheckRunning, StartVpnService, Started, StopVpnService,
       CallStop, Stopped
  <2>2. pc'[t] = (IF running[instance] THEN "idle" ELSE "start") /\ asked' = asked
    BY <1>1, <1>5, <2>1 DEF CheckRunning
  <2>3. CASE running[instance]
    <3>1. \A o \in Threads : pc[o] \notin {"started", "stopped"}
      BY <1>1, <1>5
    <3>2. alive \/ ~Idle("main")
      BY <1>1 DEF OrderInv, ServiceInv, Threads
    <3>3. asked = "start"
      BY <2>3, <3>1, <3>2 DEF OrderInv
    <3> QED
      BY <1>1, <2>2, <2>3, <3>3
  <2> QED
    BY <2>2, <2>3
<1>6. CASE pc[t] = "start"
  BY <1>6 DEF Thread, CheckNetwork, CheckRunning, StartVpnService, Started, StopVpnService,
     CallStop, Stopped
<1>7. CASE pc[t] = "started"
  <2>1. asked = "start"
    BY <1>7 DEF OrderInv
  <2>2. pc'[t] = "idle" /\ asked' = asked
    BY <1>7 DEF Thread, CheckNetwork, CheckRunning, StartVpnService, Started, StopVpnService,
       CallStop, Stopped
  <2> QED
    BY <1>1, <2>1, <2>2
<1> QED
  BY <1>3, <1>4, <1>5, <1>6, <1>7

\* Two networks are another, and one more than those that are up.
LEMMA OneNetwork ==
    ASSUME TypeOK, NEW n \in Up, NEW m, Another(m) = {}
    PROVE  m = n
<1> SUFFICES ASSUME m # n PROVE FALSE
  OBVIOUS
<1>1. IsFiniteSet(Up) /\ IsFiniteSet(Up \cup {m})
  BY NetsAssumption, FS_Subset, FS_AddElement DEF Up
<1>2. {n, m} \subseteq Up \cup {m} /\ Cardinality({n, m}) = 2
  <2>1. IsFiniteSet({n}) /\ Cardinality({n}) = 1
    BY FS_Singleton
  <2>2. Cardinality({n} \cup {m}) = Cardinality({n}) + 1
    BY <2>1, FS_AddElement
  <2>3. {n} \cup {m} = {n, m} /\ n \in Up
    OBVIOUS
  <2> QED
    BY <2>1, <2>2, <2>3
<1>3. Cardinality({n, m}) <= Cardinality(Up \cup {m}) /\ Cardinality(Up \cup {m}) \in Nat
  BY <1>1, <1>2, FS_Subset, FS_CardinalityType
<1> QED
  BY <1>2, <1>3 DEF Another


LEMMA OnNext ==
    ASSUME TypeOK, ServiceInv, OrderInv, OnInv, Next, blame = {}, blame' = {}
    PROVE  OnInv'
<1> USE DEF Threads, Idle
<1>1. CASE OnCreate
  <2>1. registered'
    BY <1>1 DEF OnCreate
  <2>2. /\ \A i \in 1..Len(callbacks') : callbacks'[i].type = "available"
        /\ \A n \in Up : \E i \in 1..Len(callbacks') : callbacks'[i].net = n
    BY <1>1, <2>1, CreatedQueue
  <2>3. gateway' = gateway
    BY <1>1 DEF OnCreate
  <2>4. ASSUME NEW n \in Nets, gateway[n] = "pdanet"
        PROVE  LastOf(n)'
    <3>1. PICK i \in 1..Len(callbacks') : callbacks'[i].net = n
      BY <2>2, <2>4 DEF Up
    <3> QED
      BY <2>2, <3>1 DEF LastOf, Lost
  <2> QED
    BY <2>3, <2>4 DEF OnInv
<1>2. CASE CheckActiveNetwork
  <2>1. /\ pc["main"] = "registered" /\ UNCHANGED <<gateway, callbacks, registered, asked>>
        /\ registered /\ pc["conn"] = "idle" /\ pc' = [pc EXCEPT !["main"] = pc'["main"]]
    BY <1>2 DEF CheckActiveNetwork, OrderInv, ServiceInv, Goto, networkVars, serviceVars, TypeOK
  <2>2. CASE pc'["main"] = "idle" /\ net' = net
    <3>1. ASSUME NEW n \in Nets, AskedFor(n)
          PROVE  AskedFor(n)'
      BY <2>1, <2>2, <3>1 DEF AskedFor, TypeOK, StopPath
    <3> QED
      BY <2>1, <3>1 DEF OnInv, LastOf, Done, Lost
  <2>3. CASE callbacks = <<>> /\ ~running[instance]
    <3>1. instance \in Instances /\ \A t \in Threads : pc[t] \notin {"started", "stopped"}
      BY <2>1 DEF ServiceInv
    <3>2. asked # "start"
      BY <2>3, <3>1 DEF OrderInv
    <3>3. ASSUME NEW n \in Nets PROVE ~LastOf(n) /\ ~AskedFor(n)
      <4>1. Len(callbacks) = 0
        BY <2>3
      <4> QED
        BY <2>1, <3>2, <4>1 DEF LastOf, AskedFor
    <3> QED
      BY <2>1, <3>3 DEF OnInv, Done
  <2> QED
    BY <1>2, <2>2, <2>3 DEF CheckActiveNetwork, Goto, TypeOK
<1>3. CASE OnDestroy
  BY <1>3 DEF OnDestroy, OnInv
<1>4. CASE HandleCallback
  <2>1. /\ Idle("main") /\ Idle("conn") /\ callbacks # <<>> /\ registered
        /\ Another(Head(callbacks).net) = {}
    BY <1>4 DEF HandleCallback, Overlap, ServiceInv
  <2>2. pc' = [pc EXCEPT !["conn"] = Handler(Head(callbacks).type)]
        /\ net' = [net EXCEPT !["conn"] = Head(callbacks).net]
        /\ callbacks' = Tail(callbacks) /\ UNCHANGED <<gateway, asked>>
    BY <1>4 DEF HandleCallback, Goto
  <2>3. Head(callbacks) = callbacks[1] /\ Head(callbacks) \in Callback
        /\ Len(callbacks') = Len(callbacks) - 1 /\ Len(callbacks) \in Nat \ {0}
        /\ \A i \in 1..Len(callbacks') : callbacks'[i] = callbacks[i + 1]
    BY <2>1, <2>2, HeadTailProperties, LenProperties, EmptySeq DEF TypeOK
  <2> SUFFICES ASSUME NEW n \in Nets, gateway[n] = "pdanet" PROVE (LastOf(n) \/ Done(n))'
    BY <2>2 DEF OnInv
  <2>4. callbacks[1].net = n
    BY <2>1, <2>3, OneNetwork DEF Up
  <2>5. ASSUME \A j \in 1..Len(callbacks) : ~Lost(n, j)
        PROVE  Done(n)'
    <3>1. \A j \in 1..Len(callbacks') : ~Lost(n, j)'
      BY <2>3, <2>5 DEF Lost
    <3>2. pc'["conn"] = "check" /\ net'["conn"] = n
      BY <2>2, <2>3, <2>4, <2>5 DEF Lost, Handler, TypeOK
    <3> QED
      BY <3>1, <3>2 DEF Done, AskedFor
  <2>6. ASSUME LastOf(n)
        PROVE  (LastOf(n) \/ Done(n))'
    <3>1. PICK i \in 1..Len(callbacks) :
             /\ callbacks[i].net = n /\ callbacks[i].type # "lost"
             /\ \A j \in 1..Len(callbacks) : j > i => ~Lost(n, j)
      BY <2>6 DEF LastOf
    <3>2. CASE i = 1
      <4>1. \A j \in 1..Len(callbacks) : ~Lost(n, j)
        BY <2>3, <3>1, <3>2 DEF Lost
      <4> QED
        BY <2>5, <4>1
    <3>3. CASE i # 1
      <4> DEFINE k == i - 1
      <4>1. k \in 1..Len(callbacks') /\ k + 1 = i
        BY <2>3, <3>3
      <4>2. callbacks'[k].net = n /\ callbacks'[k].type # "lost"
        BY <2>3, <3>1, <4>1
      <4>3. ASSUME NEW j \in 1..Len(callbacks'), j > k
            PROVE  ~Lost(n, j)'
        <5>1. j + 1 \in 1..Len(callbacks) /\ j + 1 > i /\ callbacks'[j] = callbacks[j + 1]
          BY <2>3, <4>1, <4>3
        <5> QED
          BY <3>1, <5>1 DEF Lost
      <4> QED
        BY <4>1, <4>2, <4>3 DEF LastOf
    <3> QED
      BY <3>2, <3>3
  <2> QED
    BY <2>1, <2>5, <2>6 DEF OnInv, Done
<1>5. CASE NetworkChanges
  <2>1. UNCHANGED <<registered, pc, net, asked>>
    BY <1>5 DEF NetworkChanges, serviceVars, threadVars
  <2> SUFFICES ASSUME registered, NEW n \in Nets, gateway'[n] = "pdanet"
               PROVE  (LastOf(n) \/ Done(n))'
    BY <2>1 DEF OnInv
  <2>2. PICK m \in Nets, type \in {"available", "properties", "lost"},
             g \in {"down", "other", "pdanet"} :
           /\ callbacks' = Append(callbacks, [type |-> type, net |-> m])
           /\ gateway' = [gateway EXCEPT ![m] = g]
           /\ type = "lost" <=> g = "down"
    BY <1>5 DEF NetworkChanges, Notify, TypeOK
  <2>3. /\ Len(callbacks') = Len(callbacks) + 1 /\ Len(callbacks) \in Nat
        /\ \A i \in 1..Len(callbacks) : callbacks'[i] = callbacks[i]
        /\ callbacks'[Len(callbacks) + 1] = [type |-> type, net |-> m]
    <3>1. [type |-> type, net |-> m] \in Callback
      BY DEF Callback
    <3> QED
      BY <2>2, <3>1, AppendProperties, LenProperties DEF TypeOK
  <2>4. CASE n = m
    <3> DEFINE i == Len(callbacks) + 1
    <3>1. type # "lost" /\ i \in 1..Len(callbacks') /\ \A j \in 1..Len(callbacks') : ~(j > i)
      BY <2>2, <2>3, <2>4 DEF TypeOK
    <3>2. callbacks'[i].net = n /\ callbacks'[i].type # "lost"
      BY <2>3, <2>4, <3>1
    <3> QED
      BY <3>1, <3>2 DEF LastOf
  <2>5. CASE n # m
    <3>1. gateway[n] = "pdanet"
      BY <2>2, <2>5 DEF TypeOK
    <3>2. \A j \in 1..Len(callbacks') : j \in 1..Len(callbacks) \/ j = Len(callbacks) + 1
      BY <2>3
    <3>3. \A j \in 1..Len(callbacks') : Lost(n, j)' => j \in 1..Len(callbacks) /\ Lost(n, j)
      BY <2>3, <2>5, <3>2 DEF Lost
    <3>4. CASE LastOf(n)
      BY <2>3, <3>3, <3>4 DEF LastOf
    <3>5. CASE Done(n)
      BY <2>1, <3>3, <3>5 DEF Done, AskedFor
    <3> QED
      BY <3>1, <3>4, <3>5 DEF OnInv
  <2> QED
    BY <2>4, <2>5
<1> QED
  BY <1>1, <1>2, <1>3, <1>4, <1>5, OnThread DEF Next

-----------------------------------------------------------------------------
(***************************************************************************)
(* The monitor's invariant: each part for as long as its blame allows.     *)
(***************************************************************************)
MonitorInv ==
    /\ TypeOK /\ ServiceInv
    /\ InOrder => OrderInv /\ OffInv
    /\ blame = {} => OnInv

LEMMA MonitorInit == Init => MonitorInv
<1> SUFFICES ASSUME Init PROVE MonitorInv
  OBVIOUS
<1>1. TypeOK
  BY TypeInit
<1>2. ServiceInv /\ OrderInv /\ OffInv /\ OnInv
  BY DEF Init, ServiceInv, OrderInv, OffInv, OnInv, Idle, Threads, Instances, StopPath
<1> QED
  BY <1>1, <1>2 DEF MonitorInv

LEMMA MonitorNext == MonitorInv /\ [Next]_vars => MonitorInv'
<1> SUFFICES ASSUME MonitorInv, [Next]_vars PROVE MonitorInv'
  OBVIOUS
<1>1. CASE Next
  <2>1. TypeOK' /\ ServiceInv' /\ blame \subseteq blame'
    BY <1>1, TypeNext, ServiceNext, BlameGrows DEF MonitorInv
  <2>2. ASSUME InOrder'
        PROVE  OrderInv' /\ OffInv'
    <3>1. InOrder
      BY <2>1, <2>2 DEF InOrder
    <3> QED
      BY <1>1, <2>2, <3>1, OrderNext, OffNext DEF MonitorInv
  <2>3. ASSUME blame' = {}
        PROVE  OnInv'
    <3>1. blame = {} /\ InOrder
      BY <2>1, <2>3 DEF InOrder
    <3> QED
      BY <1>1, <2>3, <3>1, OnNext DEF MonitorInv
  <2> QED
    BY <2>1, <2>2, <2>3 DEF MonitorInv
<1>2. CASE UNCHANGED vars
  <2>1. UNCHANGED <<gateway, callbacks, instance, alive, registered, running, pc, net, me,
                    asked, blame>>
    BY <1>2 DEF vars, networkVars, serviceVars, threadVars
  <2>2. TypeOK' = TypeOK /\ ServiceInv' = ServiceInv /\ InOrder' = InOrder
    BY <2>1 DEF TypeOK, ServiceInv, InOrder, Idle
  <2>3. OrderInv' = OrderInv
    BY <2>1 DEF OrderInv, Idle
  <2>4. OffInv' = OffInv
    BY <2>1 DEF OffInv, PdaNetUp, Wants, OffQueued, OffHandled, Reading
  <2>5. OnInv' = OnInv
    BY <2>1 DEF OnInv, LastOf, Done, AskedFor, Lost
  <2> QED
    BY <2>1, <2>2, <2>3, <2>4, <2>5 DEF MonitorInv
<1> QED
  BY <1>1, <1>2

\* What the invariant says when every callback was handled and no thread is at work.
LEMMA SettledStates ==
    ASSUME MonitorInv, Settled, InOrder
    PROVE  /\ running[instance] <=> asked = "start"
           /\ asked = "start" => PdaNetUp
           /\ blame = {} /\ PdaNetUp => asked = "start"
<1>1. /\ instance \in Instances /\ Len(callbacks) = 0 /\ alive /\ registered
      /\ \A t \in Threads : pc[t] = "idle"
      /\ ServiceInv /\ OrderInv /\ OffInv
  BY DEF MonitorInv, Settled, ServiceInv, Idle
<1>2. running[instance] <=> asked = "start"
  BY <1>1 DEF OrderInv
<1>3. asked = "start" => PdaNetUp
  BY <1>1 DEF OffInv, Wants, OffQueued, OffHandled, StopPath
<1>4. ASSUME blame = {}, NEW n \in Nets, gateway[n] = "pdanet"
      PROVE  asked = "start"
  BY <1>1, <1>4 DEF MonitorInv, OnInv, LastOf, Done, AskedFor
<1> QED
  BY <1>2, <1>3, <1>4 DEF PdaNetUp

\* While the threads did not interleave and no call failed, the flag of the
\* instance says what was asked last, across instances too.
THEOREM FlagTellsTheRequestHolds == Spec => []FlagTellsTheRequest
<1>1. MonitorInv => FlagTellsTheRequest
  BY SettledStates DEF FlagTellsTheRequest
<1> QED
  BY <1>1, MonitorInit, MonitorNext, PTL DEF Spec

\* The tunnel is asked for only on PdaNet, and on PdaNet unless a second network
\* was in play, the threads interleaved or a call failed.
THEOREM RequestFollowsNetworkHolds == Spec => []RequestFollowsNetwork
<1>1. MonitorInv => RequestFollowsNetwork
  BY SettledStates DEF RequestFollowsNetwork, NoTunnelOffPdaNet, TunnelOnPdaNetInOrder,
                       TunnelOnPdaNet, InOrder
<1> QED
  BY <1>1, MonitorInit, MonitorNext, PTL DEF Spec

=============================================================================
