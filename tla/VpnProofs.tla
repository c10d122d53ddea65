------------------------------- MODULE VpnProofs -------------------------------
(***************************************************************************)
(* Theorems about the VPN service, for any number of tunnels and of        *)
(* messages that wait: its resources, tun2proxy's descriptor, the order of *)
(* its commands (it implements VpnCommands) and what they lead to.         *)
(***************************************************************************)
EXTENDS Tun2HttpVpnService, SequenceTheorems, TLAPS

Messages == {"create", "start", "stop", "destroy"}
Blames   == {"behind", "overlap", "late", "trouble", "crash"}

-----------------------------------------------------------------------------
(***************************************************************************)
(* The queue of the main thread.                                           *)
(***************************************************************************)
\* A message is appended.
LEMMA QueueAppend ==
    ASSUME inbox \in Seq(Messages), NEW m \in Messages, NEW q, q = Append(inbox, m)
    PROVE  /\ q \in Seq(Messages) /\ Len(inbox) \in Nat /\ Len(q) = Len(inbox) + 1
           /\ \A i \in 1..Len(inbox) : q[i] = inbox[i]
           /\ q[Len(inbox) + 1] = m
  BY AppendProperties, LenProperties

\* The first message is taken.
LEMMA QueueTail ==
    ASSUME inbox \in Seq(Messages), inbox # <<>>, inbox' = Tail(inbox)
    PROVE  /\ inbox' \in Seq(Messages) /\ Len(inbox) \in Nat \ {0}
           /\ Head(inbox) = inbox[1] /\ Len(inbox') = Len(inbox) - 1
           /\ \A i \in 1..Len(inbox') : inbox'[i] = inbox[i + 1]
  BY HeadTailProperties, LenProperties, EmptySeq

\* A command is appended, behind the creation of the service if it is not there.
LEMMA QueueRequest ==
    ASSUME inbox \in Seq(Messages), NEW c \in {"start", "stop"},
           inbox' = inbox \o (IF record THEN <<c>> ELSE <<"create", c>>)
    PROVE  /\ inbox' = IF record THEN Append(inbox, c) ELSE Append(Append(inbox, "create"), c)
           /\ inbox' \in Seq(Messages) /\ Len(inbox) \in Nat
           /\ \A i \in 1..Len(inbox) : inbox'[i] = inbox[i]
           /\ record => Len(inbox') = Len(inbox) + 1
           /\ ~record => /\ Len(inbox') = Len(inbox) + 2
                         /\ inbox'[Len(inbox) + 1] = "create"
           /\ inbox'[Len(inbox')] = c
<1>1. CASE record
  <2>1. inbox' = Append(inbox, c)
    BY <1>1, AppendIsConcat DEF Messages
  <2> QED
    BY <1>1, <2>1, QueueAppend DEF Messages
<1>2. CASE ~record
  <2> DEFINE q == Append(inbox, "create")
             r == Append(q, c)
             p == <<"create", c>>
  <2>1. /\ q \in Seq(Messages) /\ Len(inbox) \in Nat /\ Len(q) = Len(inbox) + 1
        /\ \A i \in 1..Len(inbox) : q[i] = inbox[i]
        /\ q[Len(inbox) + 1] = "create"
    BY QueueAppend DEF Messages
  <2>2. p \in Seq(Messages) /\ Len(p) = 2 /\ p[1] = "create" /\ p[2] = c
    BY DEF Messages
  <2> HIDE DEF q, p
  <2>3. r \in Seq(Messages) /\ Len(r) = Len(q) + 1
        /\ (\A i \in 1..Len(q) : r[i] = q[i]) /\ r[Len(q) + 1] = c
    <3>1. c \in Messages
      BY DEF Messages
    <3> QED
      BY <2>1, <3>1, AppendProperties
  <2> HIDE DEF r
  <2>4. inbox' = inbox \o p
    BY <1>2 DEF p
  <2>5. /\ inbox' \in Seq(Messages) /\ Len(inbox') = Len(inbox) + 2
        /\ \A i \in 1..(Len(inbox) + 2) :
              inbox'[i] = IF i <= Len(inbox) THEN inbox[i] ELSE p[i - Len(inbox)]
    BY <2>2, <2>4, ConcatProperties
  <2>6. \A i \in 1..Len(inbox) : inbox'[i] = inbox[i]
    BY <2>1, <2>5
  <2>7. inbox'[Len(inbox) + 1] = "create" /\ inbox'[Len(inbox) + 2] = c
    BY <2>1, <2>2, <2>5
  <2>8. inbox' = r
    <3>1. \A i \in 1..Len(inbox') : i \in 1..Len(inbox) \/ i = Len(inbox) + 1 \/ i = Len(inbox) + 2
      BY <2>1, <2>5
    <3>2. \A i \in 1..Len(inbox') : inbox'[i] = r[i]
      BY <2>1, <2>3, <2>6, <2>7, <3>1
    <3> QED
      BY <2>1, <2>3, <2>5, <3>2, SeqEqual
  <2> QED
    BY <1>2, <2>1, <2>5, <2>6, <2>7, <2>8 DEF q, r
<1> QED
  BY <1>1, <1>2

\* The queue after BringDown, stopSelf and the steps that may bring the service down.
LEMMA QueueBringDown ==
    ASSUME inbox \in Seq(Messages), BringDown
    PROVE  /\ ~record' /\ inbox' = Append(inbox, "destroy")
           /\ inbox' \in Seq(Messages) /\ Len(inbox) \in Nat /\ Len(inbox') = Len(inbox) + 1
           /\ \A i \in 1..Len(inbox) : inbox'[i] = inbox[i]
           /\ inbox'[Len(inbox) + 1] = "destroy"
  BY QueueAppend DEF BringDown, Messages

-----------------------------------------------------------------------------
(***************************************************************************)
(* Type correctness.                                                       *)
(***************************************************************************)
LEMMA TypeSystem ==
    ASSUME TypeOK,
           (\E c \in {"start", "stop"} : Request(c)) \/ OnRevoke \/ Unbind
    PROVE  TypeOK'
<1> USE DEF TypeOK, Threads, Places, serviceVars, resources, threadVars, engineVars
<1>1. ASSUME NEW c \in {"start", "stop"}, Request(c)
      PROVE  TypeOK'
  <2>1. inbox' \in Seq(Messages)
    BY <1>1, QueueRequest DEF Request, Messages
  <2> QED
    BY <1>1, <2>1 DEF Request, Messages
<1>2. CASE OnRevoke
  <2>1. inbox' \in Seq(Messages) /\ record' \in BOOLEAN
    BY <1>2, QueueBringDown DEF OnRevoke, BringDown, Messages
  <2>2. pc' \in [Threads -> Places] /\ after' \in [Threads -> {"stopself", "destroyed"}]
    BY <1>2 DEF OnRevoke, Goto
  <2> QED
    BY <1>2, <2>1, <2>2 DEF OnRevoke, Messages, Overlaps
<1>3. CASE Unbind
  <2>1. inbox' \in Seq(Messages) /\ record' \in BOOLEAN
    BY <1>3, QueueBringDown DEF Unbind, BringDown, Messages
  <2> QED
    BY <1>3, <2>1 DEF Unbind, Messages
<1> QED
  BY <1>1, <1>2, <1>3

LEMMA TypeMessage ==
    ASSUME TypeOK, OnCreate \/ OnStart \/ OnStopOrDestroy
    PROVE  TypeOK'
<1> USE DEF TypeOK, Threads, Places, serviceVars, resources, threadVars, engineVars
<1>1. inbox' \in Seq(Messages)
  BY QueueTail DEF OnCreate, OnStart, OnStopOrDestroy, Message, Messages
<1>2. CASE OnCreate
  BY <1>1, <1>2 DEF OnCreate, Message, Messages
<1>3. CASE OnStart
  <2>1. pc' \in [Threads -> Places] /\ after' \in [Threads -> {"stopself", "destroyed"}]
        /\ blame' \in SUBSET Blames
    <3> DEFINE o == Overlaps("binder")
    <3>1. blame \in SUBSET Blames /\ o \in SUBSET Blames /\ o \cup {"trouble"} \in SUBSET Blames
      BY DEF Overlaps, Blames
    <3>2. blame' = blame \/ blame' = o \/ blame' = o \cup {"trouble"}
      BY <1>3 DEF OnStart
    <3> HIDE DEF o, TypeOK
    <3>3. blame' \in SUBSET Blames
      BY <3>1, <3>2
    <3> USE DEF TypeOK
    <3>4. "main" \in Threads /\ "establish" \in Places /\ "stopself" \in Places
      OBVIOUS
    <3>5. pc' = pc \/ pc' = [pc EXCEPT !["main"] = "establish"] \/ pc' = [pc EXCEPT !["main"] = "stopself"]
      BY <1>3 DEF OnStart, Goto
    <3>6. after' = after \/ after' = [after EXCEPT !["main"] = "stopself"]
      BY <1>3 DEF OnStart
    <3>7. pc' \in [Threads -> Places]
      BY <3>4, <3>5
    <3>8. after' \in [Threads -> {"stopself", "destroyed"}]
      BY <3>4, <3>6
    <3> QED
      BY <3>3, <3>7, <3>8
  <2> QED
    BY <1>1, <1>3, <2>1 DEF OnStart, Message, Messages, Blames
<1>4. CASE OnStopOrDestroy
  <2>1. pc' \in [Threads -> Places] /\ after' \in [Threads -> {"stopself", "destroyed"}]
        /\ blame' \in SUBSET Blames
    BY <1>4 DEF OnStopOrDestroy, Goto, Overlaps, Blames
  <2> QED
    BY <1>1, <1>4, <2>1 DEF OnStopOrDestroy, Message, Messages, Blames
<1> QED
  BY <1>2, <1>3, <1>4

LEMMA TypeStart ==
    ASSUME TypeOK, StartTunnel
    PROVE  TypeOK'
<1> USE DEF TypeOK, Threads, Places, systemVars, serviceVars, resources, engineVars, Goto
<1>1. CASE Establish
  <2>1. pc' \in [Threads -> Places] /\ after' \in [Threads -> {"stopself", "destroyed"}]
    BY <1>1 DEF Establish, Fails
  <2>1a. /\ pfd' \in [Threads -> Tunnels \cup {None}] /\ open' \in SUBSET Tunnels
         /\ bound' \in BOOLEAN
    <3>1. \/ UNCHANGED <<pfd, open, bound>>
          \/ /\ bound' = TRUE
             /\ \E i \in Tunnels : open' = open \cup {i} /\ pfd' = [pfd EXCEPT !["main"] = i]
      BY <1>1 DEF Establish, Unused
    <3> QED
      BY <3>1
  <2>2. blame' \in SUBSET Blames
    BY <1>1 DEF Establish, Fails, Blame, Blames
  <2> QED
    BY <1>1, <2>1, <2>1a, <2>2 DEF Establish, Blames
<1>2. CASE KeepVpn
  BY <1>2 DEF KeepVpn
<1>3. CASE NewWakeLock
  BY <1>3 DEF NewWakeLock
<1>4. CASE Acquire
  BY <1>4 DEF Acquire
<1>5. CASE Spawn
  <2>1. pc' \in [Threads -> Places] /\ after' \in [Threads -> {"stopself", "destroyed"}]
        /\ pfd' \in [Threads -> Tunnels \cup {None}]
        /\ worker' \in [Tunnels -> {"none", "spawned", "ready", "run"}]
    BY <1>5 DEF Spawn, Fails
  <2>2. blame' \in SUBSET Blames
    BY <1>5 DEF Spawn, Fails, Blame, Blames
  <2> QED
    BY <1>5, <2>1, <2>2 DEF Spawn, Blames
<1> QED
  BY <1>1, <1>2, <1>3, <1>4, <1>5 DEF StartTunnel

LEMMA TypeCrash ==
    ASSUME TypeOK, Crash
    PROVE  TypeOK'
<1>1. inbox' \in Seq({"create", "start", "stop", "destroy"})
  BY EmptySeq DEF Crash
<1>2. pc' \in [Threads -> Places] /\ pfd' \in [Threads -> Tunnels \cup {None}]
      /\ after' \in [Threads -> {"stopself", "destroyed"}]
  BY DEF Crash, Places
<1>3. worker' \in [Tunnels -> {"none", "spawned", "ready", "run"}]
  BY DEF Crash
<1>4. blame' \in SUBSET {"behind", "overlap", "late", "trouble", "crash"}
  BY DEF Crash, TypeOK
<1> QED
  BY <1>1, <1>2, <1>3, <1>4 DEF Crash, TypeOK

LEMMA TypeStop ==
    ASSUME TypeOK, NEW t \in Threads, StopTunnel(t)
    PROVE  TypeOK'
<1> USE DEF systemVars, serviceVars, resources, engineVars, Goto
<1>1. CASE ReadVpn(t)
  <2>1. pc' \in [Threads -> Places] /\ pfd' \in [Threads -> Tunnels \cup {None}]
    BY <1>1 DEF ReadVpn, TypeOK, Places
  <2> QED
    BY <1>1, <2>1 DEF ReadVpn, TypeOK
<1>2. CASE Shutdown(t)
  <2>1. pc' \in [Threads -> Places] /\ quit' \in BOOLEAN /\ blame' \in SUBSET Blames
    BY <1>2 DEF Shutdown, TypeOK, Places, Blames
  <2> QED
    BY <1>2, <2>1 DEF Shutdown, TypeOK, Blames
<1>3. CASE ClosePfd(t)
  BY <1>3 DEF ClosePfd, TypeOK, Places
<1>4. CASE NullVpn(t)
  BY <1>4 DEF NullVpn, TypeOK, Places
<1>5. CASE Release(t)
  <2>1. Crash \/ /\ pc' \in [Threads -> Places] /\ held' \in SUBSET Tunnels
                 /\ UNCHANGED <<record, started, bound, inbox, alive, vpn, wakeLock, open,
                                pfd, after, worker, engine, quit, want, blame>>
    BY <1>5 DEF Release, TypeOK, Places
  <2> QED
    BY <2>1, TypeCrash DEF TypeOK
<1>6. CASE NullWakeLock(t)
  <2>1. pc' \in [Threads -> Places]
    BY <1>6 DEF NullWakeLock, TypeOK, Places
  <2> QED
    BY <1>6, <2>1 DEF NullWakeLock, TypeOK
<1>7. CASE Finish(t)
  <2>1. inbox' \in Seq(Messages) /\ record' \in BOOLEAN /\ started' \in BOOLEAN
        /\ alive' \in BOOLEAN
    BY <1>7, QueueBringDown DEF Finish, StopSelf, BringDown, TypeOK, Messages
  <2>2. pc' \in [Threads -> Places] /\ after' \in [Threads -> {"stopself", "destroyed"}]
    BY <1>7 DEF Finish, TypeOK, Places
  <2> QED
    BY <1>7, <2>1, <2>2 DEF Finish, TypeOK, Messages
<1> QED
  BY <1>1, <1>2, <1>3, <1>4, <1>5, <1>6, <1>7 DEF StopTunnel

LEMMA TypeWorker ==
    ASSUME TypeOK, NEW i \in Tunnels, Worker(i) \/ WorkerFails(i)
    PROVE  TypeOK'
<1> USE DEF systemVars, serviceVars, resources, threadVars
<1>1. Over(i) \in SUBSET Blames
  BY DEF Over, TypeOK, Blames
<1>2. CASE WorkerFd(i)
  <2>1. CASE Crash
    BY <2>1, TypeCrash
  <2>2. CASE ~Crash
    BY <1>2, <2>2 DEF WorkerFd, TypeOK
  <2> QED
    BY <2>1, <2>2
<1>3. CASE WorkerRun(i)
  <2>1. blame' \in SUBSET Blames /\ engine' \in Tunnels \cup {None}
    BY <1>1, <1>3 DEF WorkerRun, TypeOK, Blames
  <2>2. worker' \in [Tunnels -> {"none", "spawned", "ready", "run"}]
    BY <1>3 DEF WorkerRun, TypeOK
  <2> QED
    BY <1>3, <2>1, <2>2 DEF WorkerRun, TypeOK, Blames
<1>4. CASE WorkerStops(i) \/ WorkerFails(i)
  <2>1. RunEnds(i) /\ blame' \in SUBSET Blames
    BY <1>1, <1>4 DEF WorkerStops, WorkerFails, Blames
  <2> QED
    BY <2>1 DEF RunEnds, TypeOK, Blames
<1> QED
  BY <1>2, <1>3, <1>4 DEF Worker

LEMMA TypeNext == TypeOK /\ Next => TypeOK'
<1>1. "main" \in Threads /\ "binder" \in Threads
  BY DEF Threads
<1> QED
  BY <1>1, TypeSystem, TypeMessage, TypeStart, TypeStop, TypeWorker DEF Next, Main

LEMMA TypeInit == Init => TypeOK
<1> SUFFICES ASSUME Init PROVE TypeOK
  OBVIOUS
<1>1. inbox \in Seq({"create", "start", "stop", "destroy"})
  BY EmptySeq DEF Init
<1>2. pc \in [Threads -> Places] /\ pfd \in [Threads -> Tunnels \cup {None}]
      /\ after \in [Threads -> {"stopself", "destroyed"}]
      /\ worker \in [Tunnels -> {"none", "spawned", "ready", "run"}]
  BY DEF Init, Places
<1> QED
  BY <1>1, <1>2 DEF Init, TypeOK

\* Every variable keeps its type.
THEOREM TypeCorrect == Spec => []TypeOK
<1>1. TypeOK /\ UNCHANGED vars => TypeOK'
  BY DEF vars, systemVars, serviceVars, resources, threadVars, engineVars, TypeOK
<1> QED
  BY <1>1, TypeInit, TypeNext, PTL DEF Spec


-----------------------------------------------------------------------------
(***************************************************************************)
(* The threads: what a thread holds where it is, and what follows.         *)
(***************************************************************************)
Starting == {"keep", "lock", "acquire", "spawn"}
StopPath == {"stop", "shutdown", "close", "null", "release", "unlock"}

LocalInv ==
    /\ pc["binder"] \notin Starting \cup {"establish", "destroyed"}
    /\ after["binder"] = "stopself"
    /\ \A t \in Threads :
          /\ pfd[t] # None <=> pc[t] \in Starting \cup {"shutdown", "close", "null"}
          /\ pc[t] = "stopself" => after[t] = "stopself"
          /\ pc[t] = "destroyed" => after[t] = "destroyed"
    /\ after["main"] = "destroyed" => pc["main"] \in StopPath \cup {"destroyed"} /\ alive
    /\ ~Idle("binder") => "trouble" \in blame

\* The tunnel that is being set up has no thread yet, and tun2proxy runs on one of them.
WorkerInv ==
    /\ pc["main"] \in Starting => worker[pfd["main"]] = "none"
    /\ engine # None => \E i \in Tunnels : worker[i] = "run"

\* Creations and destructions alternate in the queue; the system's record says what the
\* service will be when every message was handled.
Current   == alive /\ after["main"] = "stopself"
Serves(q, now, i) == IF i = 1 THEN now ELSE q[i - 1] # "destroy"
InboxInv ==
    /\ \A i \in 1..Len(inbox) : inbox[i] = "create" <=> ~Serves(inbox, Current, i)
    /\ record <=> Serves(inbox, Current, Len(inbox) + 1)

\* What is next in the queue.
LEMMA FirstMessage ==
    ASSUME TypeOK, InboxInv, inbox # <<>>
    PROVE  Head(inbox) = "create" <=> ~Current
<1>1. Head(inbox) = inbox[1] /\ 1 \in 1..Len(inbox)
  BY HeadTailProperties, LenProperties, EmptySeq DEF TypeOK
<1> QED
  BY <1>1 DEF InboxInv, Serves

LEMMA LocalNext == TypeOK /\ LocalInv /\ InboxInv /\ Next => LocalInv'
<1> SUFFICES ASSUME TypeOK, LocalInv, InboxInv, Next PROVE LocalInv'
  OBVIOUS
<1> USE DEF TypeOK, LocalInv, Threads, Starting, StopPath, Idle, Goto, systemVars, serviceVars,
            resources, threadVars, engineVars
<1>1. ASSUME (\E c \in {"start", "stop"} : Request(c)) \/ Unbind
      PROVE  LocalInv'
  <2>1. UNCHANGED <<pc, pfd, after, alive>> /\ ("trouble" \in blame => "trouble" \in blame')
    BY <1>1 DEF Request, Unbind
  <2> QED
    BY <2>1
<1>2. CASE OnCreate
  <2>1. UNCHANGED <<pc, pfd, after>> /\ alive' = TRUE /\ Idle("binder")
    BY <1>2 DEF OnCreate
  <2> QED
    BY <2>1
<1>3. CASE OnStart
  <2>1. /\ Idle("main") /\ UNCHANGED <<pfd, alive>> /\ blame \subseteq blame'
        /\ \/ UNCHANGED <<pc, after>>
           \/ pc' = [pc EXCEPT !["main"] = "establish"] /\ after' = after
           \/ /\ pc' = [pc EXCEPT !["main"] = "stopself"]
              /\ after' = [after EXCEPT !["main"] = "stopself"]
    BY <1>3 DEF OnStart, Message, Overlaps
  <2> QED
    BY <2>1
<1>4. CASE OnStopOrDestroy
  <2>1. /\ Idle("main") /\ UNCHANGED <<pfd, alive>> /\ blame \subseteq blame'
        /\ pc' = [pc EXCEPT !["main"] = "stop"]
        /\ \/ after' = [after EXCEPT !["main"] = "stopself"]
           \/ Head(inbox) = "destroy" /\ after' = [after EXCEPT !["main"] = "destroyed"]
    BY <1>4 DEF OnStopOrDestroy, Message, Overlaps
  <2>2. alive
    BY <1>4, FirstMessage DEF OnStopOrDestroy, Message, Current
  <2> QED
    BY <2>1, <2>2
<1>5. CASE OnRevoke
  <2>1. /\ pc' = [pc EXCEPT !["binder"] = "stop"] /\ pc["binder"] = "idle"
        /\ after' = [after EXCEPT !["binder"] = "stopself"]
        /\ UNCHANGED <<pfd, alive>> /\ "trouble" \in blame'
    BY <1>5 DEF OnRevoke
  <2> QED
    BY <2>1
<1>6. CASE Establish
  <2>1. pc["main"] = "establish" /\ UNCHANGED alive
    BY <1>6 DEF Establish
  <2>2. \/ \E i \in Tunnels : /\ pfd' = [pfd EXCEPT !["main"] = i]
                              /\ pc' = [pc EXCEPT !["main"] = "keep"] /\ UNCHANGED <<after, blame>>
        \/ /\ pc' = [pc EXCEPT !["main"] = "stop"] /\ after' = [after EXCEPT !["main"] = "stopself"]
           /\ UNCHANGED pfd /\ blame' = blame \cup {"trouble"}
    BY <1>6 DEF Establish, Fails, Blame, Unused
  <2> QED
    BY <2>1, <2>2, TunnelsAssumption
<1>7. CASE KeepVpn \/ NewWakeLock \/ Acquire
  <2>1. /\ \/ pc["main"] = "keep" /\ pc' = [pc EXCEPT !["main"] = "lock"]
           \/ pc["main"] = "lock" /\ pc' = [pc EXCEPT !["main"] = "acquire"]
           \/ pc["main"] = "acquire" /\ pc' = [pc EXCEPT !["main"] = "spawn"]
        /\ UNCHANGED <<pfd, after, alive, blame>>
    BY <1>7 DEF KeepVpn, NewWakeLock, Acquire
  <2> QED
    BY <2>1
<1>8. CASE Spawn
  <2>1. /\ pc["main"] = "spawn" /\ UNCHANGED alive /\ pfd' = [pfd EXCEPT !["main"] = None]
        /\ \/ pc' = [pc EXCEPT !["main"] = "idle"] /\ UNCHANGED <<after, blame>>
           \/ /\ pc' = [pc EXCEPT !["main"] = "stop"] /\ after' = [after EXCEPT !["main"] = "stopself"]
              /\ blame' = blame \cup {"trouble"}
    BY <1>8 DEF Spawn, Fails, Blame
  <2> QED
    BY <2>1
<1>9. CASE Crash
  BY <1>9 DEF Crash
<1>10. ASSUME NEW t \in Threads, StopTunnel(t), ~Crash
       PROVE  LocalInv'
  <2>1. CASE ReadVpn(t)
    BY <2>1 DEF ReadVpn
  <2>2. CASE Shutdown(t)
    <3>1. /\ pc[t] = "shutdown" /\ pc' = [pc EXCEPT ![t] = "close"] /\ UNCHANGED <<pfd, after, alive>>
          /\ blame \subseteq blame'
      BY <2>2 DEF Shutdown
    <3> QED
      BY <3>1
  <2>3. CASE ClosePfd(t)
    BY <2>3 DEF ClosePfd
  <2>4. CASE NullVpn(t)
    BY <2>4 DEF NullVpn
  <2>5. CASE Release(t)
    BY <1>10, <2>5 DEF Release
  <2>6. CASE NullWakeLock(t)
    BY <2>6 DEF NullWakeLock
  <2>7. CASE Finish(t)
    <3>1. /\ pc[t] \in {"stopself", "destroyed"} /\ pc' = [pc EXCEPT ![t] = "idle"]
          /\ after' = [after EXCEPT ![t] = "stopself"] /\ UNCHANGED <<pfd, blame>>
          /\ pc[t] = "stopself" => alive' = alive
      BY <2>7 DEF Finish
    <3> QED
      BY <3>1
  <2> QED
    BY <1>10, <2>1, <2>2, <2>3, <2>4, <2>5, <2>6, <2>7 DEF StopTunnel
<1>11. ASSUME NEW i \in Tunnels, Worker(i) \/ WorkerFails(i), ~Crash
       PROVE  LocalInv'
  <2>1. UNCHANGED <<pc, pfd, after, alive>> /\ ("trouble" \in blame => "trouble" \in blame')
    BY <1>11 DEF Worker, WorkerFd, WorkerRun, WorkerStops, WorkerFails, RunEnds, Over
  <2> QED
    BY <2>1
<1> QED
  BY <1>1, <1>2, <1>3, <1>4, <1>5, <1>6, <1>7, <1>8, <1>9, <1>10, <1>11 DEF Next, Main, StartTunnel


LEMMA InboxSame ==
    ASSUME InboxInv, UNCHANGED <<inbox, record>>, Current' = Current
    PROVE  InboxInv'
  BY DEF InboxInv, Serves

LEMMA InboxBringDown ==
    ASSUME TypeOK, InboxInv, record, BringDown, Current' = Current
    PROVE  InboxInv'
<1>1. /\ ~record' /\ Len(inbox) \in Nat /\ Len(inbox') = Len(inbox) + 1
      /\ \A i \in 1..Len(inbox) : inbox'[i] = inbox[i]
      /\ inbox'[Len(inbox) + 1] = "destroy"
  BY QueueBringDown DEF TypeOK, Messages
<1>2. \A i \in 1..(Len(inbox) + 1) : Serves(inbox', Current', i) = Serves(inbox, Current, i)
  BY <1>1 DEF Serves
<1>3. ~Serves(inbox', Current', Len(inbox') + 1)
  BY <1>1 DEF Serves
<1>4. \A i \in 1..Len(inbox') : i \in 1..Len(inbox) \/ i = Len(inbox) + 1
  BY <1>1
<1> QED
  BY <1>1, <1>2, <1>3, <1>4 DEF InboxInv

LEMMA InboxRequest ==
    ASSUME TypeOK, InboxInv, NEW c \in {"start", "stop"}, Request(c)
    PROVE  InboxInv'
<1>1. Current' = Current /\ record'
  BY DEF Request, Current, serviceVars, threadVars
<1>2. /\ Len(inbox) \in Nat
      /\ \A i \in 1..Len(inbox) : inbox'[i] = inbox[i]
      /\ record => Len(inbox') = Len(inbox) + 1
      /\ ~record => /\ Len(inbox') = Len(inbox) + 2
                    /\ inbox'[Len(inbox) + 1] = "create"
      /\ inbox'[Len(inbox')] = c
  BY QueueRequest DEF Request, TypeOK, Messages
<1>3. \A i \in 1..(Len(inbox) + 1) : Serves(inbox', Current', i) = Serves(inbox, Current, i)
  BY <1>1, <1>2 DEF Serves
<1>4. Serves(inbox', Current', Len(inbox') + 1)
  BY <1>2 DEF Serves
<1>5. CASE record
  <2>1. \A i \in 1..Len(inbox') : i \in 1..Len(inbox) \/ i = Len(inbox) + 1
    BY <1>2, <1>5
  <2> QED
    BY <1>1, <1>2, <1>3, <1>4, <1>5, <2>1 DEF InboxInv
<1>6. CASE ~record
  <2>1. \A i \in 1..Len(inbox') : \/ i \in 1..Len(inbox)
                                  \/ i = Len(inbox) + 1 \/ i = Len(inbox) + 2
    BY <1>2, <1>6
  <2>2. Serves(inbox', Current', Len(inbox) + 2)
    BY <1>2, <1>6 DEF Serves
  <2>3. ~Serves(inbox', Current', Len(inbox) + 1)
    BY <1>2, <1>3, <1>6 DEF InboxInv
  <2> QED
    BY <1>1, <1>2, <1>3, <1>4, <1>6, <2>1, <2>2, <2>3 DEF InboxInv
<1> QED
  BY <1>5, <1>6

LEMMA InboxMessage ==
    ASSUME TypeOK, LocalInv, InboxInv, OnCreate \/ OnStart \/ OnStopOrDestroy
    PROVE  InboxInv'
<1>1. inbox # <<>> /\ inbox' = Tail(inbox) /\ record' = record
  BY DEF OnCreate, OnStart, OnStopOrDestroy, Message
<1>2. /\ inbox \in Seq(Messages) /\ Len(inbox) \in Nat \ {0}
      /\ Head(inbox) = inbox[1] /\ Len(inbox') = Len(inbox) - 1
      /\ \A i \in 1..Len(inbox') : inbox'[i] = inbox[i + 1]
  BY <1>1, QueueTail DEF TypeOK, Messages
<1>3. Current' <=> inbox[1] # "destroy"
  <2>1. Idle("main") /\ (inbox[1] = "create" <=> ~Current)
    BY <1>1, <1>2, FirstMessage DEF OnCreate, OnStart, OnStopOrDestroy, Message
  <2>2. after["main"] = "stopself"
    BY <2>1 DEF LocalInv, Idle, StopPath, TypeOK, Threads
  <2>3. CASE OnCreate
    BY <1>2, <2>2, <2>3 DEF OnCreate, Message, Current, threadVars
  <2>4. CASE OnStart
    BY <1>2, <2>1, <2>2, <2>4 DEF OnStart, Message, Current, serviceVars, threadVars, TypeOK
  <2>5. CASE OnStopOrDestroy
    <3>1. alive' = alive /\ inbox[1] \in {"stop", "destroy"}
          /\ after' = [after EXCEPT !["main"] = IF inbox[1] = "stop" THEN "stopself" ELSE "destroyed"]
      BY <1>2, <2>5 DEF OnStopOrDestroy, Message, serviceVars
    <3> QED
      BY <2>1, <3>1 DEF Current, TypeOK, Threads
  <2> QED
    BY <2>3, <2>4, <2>5
<1>4. \A i \in 1..(Len(inbox') + 1) : Serves(inbox', Current', i) <=> Serves(inbox, Current, i + 1)
  BY <1>2, <1>3 DEF Serves
<1>5. \A i \in 1..Len(inbox') : i + 1 \in 1..Len(inbox)
  BY <1>2
<1> QED
  BY <1>1, <1>2, <1>4, <1>5 DEF InboxInv

LEMMA InboxNext == TypeOK /\ LocalInv /\ InboxInv /\ Next => InboxInv'
<1> SUFFICES ASSUME TypeOK, LocalInv, InboxInv, Next PROVE InboxInv'
  OBVIOUS
<1> USE DEF systemVars, serviceVars, resources, threadVars, engineVars
<1>1. CASE OnRevoke
  <2>1. Current' = Current
    BY <1>1 DEF OnRevoke, Current, TypeOK
  <2> QED
    BY <1>1, <2>1, InboxSame, InboxBringDown DEF OnRevoke
<1>2. CASE Unbind
  <2>1. Current' = Current
    BY <1>2 DEF Unbind, Current
  <2> QED
    BY <1>2, <2>1, InboxSame, InboxBringDown DEF Unbind
<1>3. CASE StartTunnel
  <2>1. UNCHANGED <<inbox, record, alive>>
    BY <1>3 DEF StartTunnel, Establish, KeepVpn, NewWakeLock, Acquire, Spawn
  <2>2. pc["main"] \in Starting \cup {"establish"}
    BY <1>3 DEF StartTunnel, Establish, KeepVpn, NewWakeLock, Acquire, Spawn, Starting
  <2>3. after["main"] = "stopself"
    BY <2>2 DEF LocalInv, TypeOK, Threads, Starting, StopPath
  <2>4. after'["main"] = "stopself"
    BY <1>3, <2>3 DEF StartTunnel, Establish, KeepVpn, NewWakeLock, Acquire, Spawn, Fails,
       TypeOK, Threads
  <2> QED
    BY <2>1, <2>3, <2>4, InboxSame DEF Current
<1>4. CASE Crash
  BY <1>4 DEF Crash, InboxInv, Serves, Current
<1>5. ASSUME NEW t \in Threads, StopTunnel(t), ~Crash
      PROVE  InboxInv'
  <2>1. CASE Finish(t)
    <3>1. CASE pc[t] = "stopself"
      <4>1. Current' = Current
        BY <2>1, <3>1 DEF Finish, Current, LocalInv, TypeOK
      <4>2. CASE Contains(inbox, "create") \/ ~(record /\ ~bound)
        BY <2>1, <3>1, <4>1, <4>2, InboxSame DEF Finish, StopSelf
      <4>3. CASE ~Contains(inbox, "create") /\ record /\ ~bound
        BY <2>1, <3>1, <4>1, <4>3, InboxBringDown DEF Finish, StopSelf
      <4> QED
        BY <4>2, <4>3
    <3>2. CASE pc[t] = "destroyed"
      <4>1. t = "main" /\ after["main"] = "destroyed"
        BY <3>2 DEF LocalInv, Threads
      <4>2. ~Current /\ ~Current' /\ UNCHANGED <<inbox, record>>
        BY <2>1, <3>2, <4>1 DEF Finish, Current
      <4>3. Current' = Current
        BY <4>2 DEF Current
      <4> QED
        BY <4>2, <4>3, InboxSame
    <3> QED
      BY <2>1, <3>1, <3>2 DEF Finish
  <2>2. CASE ~Finish(t)
    <3>1. UNCHANGED <<inbox, record, alive, after>>
      BY <1>5, <2>2 DEF StopTunnel, ReadVpn, Shutdown, ClosePfd, NullVpn, Release, NullWakeLock
    <3> QED
      BY <3>1, InboxSame DEF Current
  <2> QED
    BY <2>1, <2>2
<1>6. ASSUME NEW i \in Tunnels, Worker(i) \/ WorkerFails(i), ~Crash
      PROVE  InboxInv'
  <2>1. UNCHANGED <<inbox, record, alive, after>>
    BY <1>6 DEF Worker, WorkerFd, WorkerRun, WorkerStops, WorkerFails, RunEnds
  <2> QED
    BY <2>1, InboxSame DEF Current
<1>7. "main" \in Threads /\ "binder" \in Threads
  BY DEF Threads
<1> QED
  BY <1>1, <1>2, <1>3, <1>4, <1>5, <1>6, <1>7, InboxRequest, InboxMessage DEF Next, Main


-----------------------------------------------------------------------------
(***************************************************************************)
(* The service implements VpnCommands: what waits, as commands, behind the *)
(* one at work.                                                            *)
(***************************************************************************)
Commands == {"create", "start", "stop"}
WaitingOf(q) == [i \in DOMAIN q |-> Order(q[i])]

LEMMA WaitingSeq ==
    ASSUME NEW q \in Seq(Messages)
    PROVE  /\ WaitingOf(q) \in Seq(Commands) /\ Len(WaitingOf(q)) = Len(q)
           /\ \A i \in 1..Len(q) : WaitingOf(q)[i] = Order(q[i])
<1>1. Len(q) \in Nat /\ DOMAIN q = 1..Len(q) /\ \A i \in 1..Len(q) : q[i] \in Messages
  BY LenProperties, ElementOfSeq
<1>2. \A i \in 1..Len(q) : Order(q[i]) \in Commands
  BY <1>1 DEF Order, Messages, Commands
<1>3. WaitingOf(q) \in [1..Len(q) -> Commands]
  BY <1>1, <1>2 DEF WaitingOf
<1>4. WaitingOf(q) \in Seq(Commands)
  BY <1>1, <1>3, SeqDef
<1>5. Len(WaitingOf(q)) = Len(q)
  BY <1>1, <1>3, <1>4, LenProperties
<1> QED
  BY <1>1, <1>4, <1>5 DEF WaitingOf

LEMMA WaitingAppend ==
    ASSUME NEW q \in Seq(Messages), NEW m \in Messages
    PROVE  WaitingOf(Append(q, m)) = Append(WaitingOf(q), Order(m))
<1> DEFINE p == Append(q, m)
<1>1. /\ p \in Seq(Messages) /\ Len(q) \in Nat /\ Len(p) = Len(q) + 1
      /\ \A i \in 1..Len(q) : p[i] = q[i]
      /\ p[Len(q) + 1] = m
  BY AppendProperties, LenProperties
<1> HIDE DEF p
<1>2. /\ WaitingOf(q) \in Seq(Commands) /\ Len(WaitingOf(q)) = Len(q)
      /\ \A i \in 1..Len(q) : WaitingOf(q)[i] = Order(q[i])
  BY WaitingSeq
<1>3. /\ WaitingOf(p) \in Seq(Commands) /\ Len(WaitingOf(p)) = Len(q) + 1
      /\ \A i \in 1..Len(p) : WaitingOf(p)[i] = Order(p[i])
  BY <1>1, WaitingSeq
<1> DEFINE w == WaitingOf(q)
           r == Append(w, Order(m))
<1>4. Order(m) \in Commands
  BY DEF Order, Messages, Commands
<1> HIDE DEF w
<1>5. /\ r \in Seq(Commands) /\ Len(r) = Len(w) + 1
      /\ \A i \in 1..Len(w) : r[i] = w[i]
      /\ r[Len(w) + 1] = Order(m)
  BY <1>2, <1>4, AppendProperties DEF w
<1> HIDE DEF r
<1>6. \A i \in 1..(Len(q) + 1) : WaitingOf(p)[i] = r[i]
  <2>1. \A i \in 1..(Len(q) + 1) : i \in 1..Len(q) \/ i = Len(q) + 1
    BY <1>1
  <2> QED
    BY <1>1, <1>2, <1>3, <1>5, <2>1 DEF w
<1>7. WaitingOf(p) = r
  BY <1>2, <1>3, <1>5, <1>6, SeqEqual DEF w
<1> QED
  BY <1>7 DEF p, r, w

LEMMA WaitingTail ==
    ASSUME NEW q \in Seq(Messages), q # <<>>
    PROVE  /\ WaitingOf(q) # <<>> /\ Head(WaitingOf(q)) = Order(Head(q))
           /\ WaitingOf(Tail(q)) = Tail(WaitingOf(q))
<1> DEFINE p == Tail(q)
           w == WaitingOf(q)
<1>1. /\ p \in Seq(Messages) /\ Len(q) \in Nat \ {0} /\ Head(q) = q[1]
      /\ Len(p) = Len(q) - 1 /\ \A i \in 1..Len(p) : p[i] = q[i + 1]
  BY HeadTailProperties, LenProperties, EmptySeq
<1> HIDE DEF p
<1>2. /\ w \in Seq(Commands) /\ Len(w) = Len(q) /\ \A i \in 1..Len(q) : w[i] = Order(q[i])
  BY WaitingSeq
<1>3. /\ WaitingOf(p) \in Seq(Commands) /\ Len(WaitingOf(p)) = Len(p)
      /\ \A i \in 1..Len(p) : WaitingOf(p)[i] = Order(p[i])
  BY <1>1, WaitingSeq
<1> HIDE DEF w
<1>4. w # <<>>
  BY <1>1, <1>2, EmptySeq
<1>5. /\ Tail(w) \in Seq(Commands) /\ Head(w) = w[1] /\ Len(Tail(w)) = Len(w) - 1
      /\ \A i \in 1..Len(Tail(w)) : Tail(w)[i] = w[i + 1]
  BY <1>2, <1>4, HeadTailProperties
<1>6. \A i \in 1..Len(p) : WaitingOf(p)[i] = Tail(w)[i]
  <2>1. \A i \in 1..Len(p) : i + 1 \in 1..Len(q)
    BY <1>1
  <2> QED
    BY <1>1, <1>2, <1>3, <1>5, <2>1
<1>7. WaitingOf(p) = Tail(w)
  BY <1>1, <1>2, <1>3, <1>5, <1>6, SeqEqual
<1> QED
  BY <1>1, <1>2, <1>4, <1>5, <1>7 DEF p, w

LEMMA Behind ==
    ASSUME NEW x \in Commands, NEW w \in Seq(Commands)
    PROVE  <<x>> \o w # <<>> /\ Head(<<x>> \o w) = x /\ Tail(<<x>> \o w) = w /\ <<>> \o w = w
<1> DEFINE u == <<x>>
           v == <<x>> \o w
<1>1. u \in Seq(Commands) /\ Len(u) = 1 /\ u[1] = x
  OBVIOUS
<1> HIDE DEF u
<1>2. /\ v \in Seq(Commands) /\ Len(v) = 1 + Len(w) /\ Len(w) \in Nat
      /\ \A i \in 1..(1 + Len(w)) : v[i] = IF i <= 1 THEN u[i] ELSE w[i - 1]
  BY <1>1, ConcatProperties, LenProperties DEF u
<1> HIDE DEF v
<1>3. v # <<>> /\ v[1] = x
  BY <1>1, <1>2, EmptySeq
<1>4. /\ Head(v) = v[1] /\ Tail(v) \in Seq(Commands) /\ Len(Tail(v)) = Len(w)
      /\ \A i \in 1..Len(Tail(v)) : Tail(v)[i] = v[i + 1]
  BY <1>2, <1>3, HeadTailProperties
<1>5. Tail(v) = w
  <2>1. \A i \in 1..Len(w) : Tail(v)[i] = w[i]
    BY <1>2, <1>4
  <2> QED
    BY <1>4, <2>1, SeqEqual
<1>6. <<>> \o w = w
  BY ConcatEmptySeq
<1> QED
  BY <1>3, <1>4, <1>5, <1>6 DEF v

LEMMA BehindAppend ==
    ASSUME NEW u \in Seq(Commands), NEW w \in Seq(Commands), NEW o \in Commands
    PROVE  u \o Append(w, o) = Append(u \o w, o)
<1>1. u \o w \in Seq(Commands) /\ <<o>> \in Seq(Commands)
  BY ConcatProperties
<1>2. Append(w, o) = w \o <<o>> /\ Append(u \o w, o) = (u \o w) \o <<o>>
  BY <1>1, AppendIsConcat
<1>3. (u \o w) \o <<o>> = u \o (w \o <<o>>)
  BY <1>1, ConcatAssociative
<1> QED
  BY <1>2, <1>3


LEMMA TakenBack ==
    ASSUME NEW w \in Seq(Commands), w # <<>>
    PROVE  <<Head(w)>> \o Tail(w) = w
<1> DEFINE u == <<Head(w)>>
           v == u \o Tail(w)
<1>1. /\ Head(w) = w[1] /\ w[1] \in Commands /\ Len(w) \in Nat \ {0} /\ Tail(w) \in Seq(Commands)
      /\ Len(Tail(w)) = Len(w) - 1 /\ \A i \in 1..Len(Tail(w)) : Tail(w)[i] = w[i + 1]
  BY HeadTailProperties, LenProperties, EmptySeq, ElementOfSeq
<1>2. u \in Seq(Commands) /\ Len(u) = 1 /\ u[1] = w[1]
  BY <1>1
<1> HIDE DEF u
<1>3. /\ v \in Seq(Commands) /\ Len(v) = Len(w)
      /\ \A i \in 1..Len(w) : v[i] = IF i <= 1 THEN u[i] ELSE Tail(w)[i - 1]
  <2>1. /\ v \in Seq(Commands) /\ Len(v) = Len(u) + Len(Tail(w))
        /\ \A i \in 1..(Len(u) + Len(Tail(w))) :
              v[i] = IF i <= Len(u) THEN u[i] ELSE Tail(w)[i - Len(u)]
    BY <1>1, <1>2, ConcatProperties
  <2> HIDE DEF v
  <2> QED
    BY <1>1, <1>2, <2>1
<1> HIDE DEF v
<1>4. \A i \in 1..Len(w) : v[i] = w[i]
  <2> SUFFICES ASSUME NEW i \in 1..Len(w) PROVE v[i] = w[i]
    OBVIOUS
  <2>1. CASE i = 1
    BY <1>1, <1>2, <1>3, <2>1
  <2>2. CASE i # 1
    <3>1. i - 1 \in 1..Len(Tail(w)) /\ (i - 1) + 1 = i /\ ~(i <= 1)
      BY <1>1, <2>2
    <3> QED
      BY <1>1, <1>3, <3>1
  <2> QED
    BY <2>1, <2>2
<1>5. v = w
  BY <1>3, <1>4, SeqEqual
<1> QED
  BY <1>5 DEF u, v

\* The commands as VpnCommands sees them.
Given == AtWork \o Waiting

LEMMA GivenType ==
    ASSUME TypeOK
    PROVE  /\ inbox \in Seq(Messages) /\ Waiting = WaitingOf(inbox) /\ Waiting \in Seq(Commands)
           /\ AtWork \in Seq(Commands) /\ AtWork \in {<<>>, <<"start">>, <<"stop">>}
<1>1. inbox \in Seq(Messages) /\ Waiting = WaitingOf(inbox)
  BY DEF TypeOK, Messages, Waiting, WaitingOf
<1>2. Waiting \in Seq(Commands)
  BY <1>1, WaitingSeq
<1>3. AtWork \in {<<>>, <<"start">>, <<"stop">>}
  BY DEF AtWork
<1>4. <<>> \in Seq(Commands) /\ <<"start">> \in Seq(Commands) /\ <<"stop">> \in Seq(Commands)
  BY EmptySeq DEF Commands
<1> QED
  BY <1>1, <1>2, <1>3, <1>4

LEMMA GivenAppend ==
    ASSUME TypeOK, NEW m \in Messages, inbox' = Append(inbox, m), AtWork' = AtWork
    PROVE  Given' = Append(Given, Order(m))
<1>1. Waiting' = Append(Waiting, Order(m))
  BY GivenType, WaitingAppend DEF Waiting, WaitingOf
<1>2. Order(m) \in Commands
  BY DEF Order, Messages, Commands
<1> QED
  BY <1>1, <1>2, GivenType, BehindAppend DEF Given

LEMMA GivenRequest ==
    ASSUME TypeOK, NEW c \in {"start", "stop"}, AtWork' = AtWork,
           inbox' = Append(Append(inbox, "create"), c)
    PROVE  Given' = Append(Append(Given, "create"), c)
<1> DEFINE q == Append(inbox, "create")
<1>1. q \in Seq(Messages) /\ "create" \in Messages /\ c \in Messages /\ inbox \in Seq(Messages)
  BY GivenType, AppendProperties DEF Messages
<1>2. WaitingOf(q) = Append(Waiting, "create")
  BY <1>1, GivenType, WaitingAppend DEF Order
<1>3. Waiting' = Append(WaitingOf(q), c)
  BY <1>1, WaitingAppend DEF Waiting, WaitingOf, Order
<1>4. WaitingOf(q) \in Seq(Commands) /\ c \in Commands /\ "create" \in Commands
  BY <1>1, WaitingSeq DEF Commands
<1> HIDE DEF q
<1>5. AtWork \o Append(Waiting, "create") = Append(Given, "create")
  BY <1>4, GivenType, BehindAppend DEF Given
<1>6. AtWork \o Append(WaitingOf(q), c) = Append(AtWork \o WaitingOf(q), c)
  BY <1>4, GivenType, BehindAppend
<1> QED
  BY <1>2, <1>3, <1>5, <1>6 DEF Given

\* With no command at work a message is taken, and begun or done at once.
LEMMA GivenTaken ==
    ASSUME TypeOK, inbox # <<>>, inbox' = Tail(inbox), AtWork = <<>>
    PROVE  /\ Given # <<>> /\ Head(Given) = Order(Head(inbox)) /\ Waiting' = Tail(Given)
           /\ AtWork' = <<>> => Given' = Tail(Given)
           /\ AtWork' = <<Order(Head(inbox))>> => Given' = Given
<1>1. /\ Waiting # <<>> /\ Head(Waiting) = Order(Head(inbox)) /\ Waiting' = Tail(Waiting)
      /\ Waiting \in Seq(Commands)
  BY GivenType, WaitingTail DEF Waiting, WaitingOf
<1>2. Given = Waiting
  BY <1>1, ConcatEmptySeq DEF Given
<1>3. Tail(Waiting) \in Seq(Commands)
  BY <1>1, HeadTailProperties
<1>4. <<>> \o Tail(Waiting) = Tail(Waiting)
  BY <1>3, ConcatEmptySeq
<1>5. <<Head(Waiting)>> \o Tail(Waiting) = Waiting
  BY <1>1, TakenBack
<1> QED
  BY <1>1, <1>2, <1>4, <1>5 DEF Given

\* The command at work is done, or becomes another.
LEMMA GivenDone ==
    ASSUME TypeOK, inbox' = inbox, NEW x \in Commands, AtWork = <<x>>
    PROVE  /\ Given # <<>> /\ Head(Given) = x
           /\ AtWork' = <<>> => Given' = Tail(Given)
           /\ \A y : AtWork' = <<y>> => Given' = <<y>> \o Tail(Given)
<1>1. Waiting' = Waiting /\ Waiting \in Seq(Commands)
  BY GivenType DEF Waiting
<1>2. Given # <<>> /\ Head(Given) = x /\ Tail(Given) = Waiting /\ <<>> \o Waiting = Waiting
  BY <1>1, Behind DEF Given
<1> QED
  BY <1>1, <1>2 DEF Given

LEMMA GivenFails ==
    ASSUME TypeOK, inbox' = inbox, AtWork = <<>>, AtWork' = <<"stop">>
    PROVE  Given' = <<"stop">> \o Given
<1>1. Waiting' = Waiting /\ <<>> \o Waiting = Waiting
  BY GivenType, ConcatEmptySeq DEF Waiting
<1> QED
  BY <1>1 DEF Given


LEMMA PromisedSystem ==
    ASSUME TypeOK, LocalInv, InboxInv,
           (\E c \in {"start", "stop"} : Request(c)) \/ OnRevoke \/ Unbind
    PROVE  [Promise!Next]_(Promise!promised)
<1> USE DEF Promise!Next, Promise!promised, Promise!Request, Given, serviceVars, threadVars
<1>1. ASSUME NEW c \in {"start", "stop"}, Request(c)
      PROVE  Promise!Request(c)
  <2>1. AtWork' = AtWork /\ vpn' = vpn
    BY <1>1 DEF Request, AtWork
  <2>2. inbox' = IF record THEN Append(inbox, c) ELSE Append(Append(inbox, "create"), c)
    BY <1>1, QueueRequest DEF Request, TypeOK, Messages
  <2>3. Given' = Append(Given, c) \/ Given' = Append(Append(Given, "create"), c)
    <3>1. c \in Messages /\ Order(c) = c
      BY DEF Messages, Order
    <3> QED
      BY <2>1, <2>2, <3>1, GivenAppend, GivenRequest
  <2> QED
    BY <2>1, <2>3
<1>2. ASSUME inbox' = inbox \/ BringDown, AtWork' = AtWork, vpn' = vpn
      PROVE  [Promise!Next]_(Promise!promised)
  <2>1. CASE inbox' = inbox
    <3>1. Given' = Given
      BY <1>2, <2>1 DEF Waiting
    <3> QED
      BY <1>2, <3>1
  <2>2. CASE BringDown
    <3>1. Given' = Append(Given, "stop")
      BY <1>2, <2>2, GivenAppend DEF BringDown, Messages, Order
    <3> QED
      BY <1>2, <3>1
  <2> QED
    BY <1>2, <2>1, <2>2
<1>3. CASE OnRevoke
  <2>1. pc'["main"] = pc["main"]
    BY <1>3 DEF OnRevoke, Goto, TypeOK
  <2>2. AtWork' = AtWork
    BY <2>1 DEF AtWork
  <2> QED
    BY <1>2, <1>3, <2>2 DEF OnRevoke
<1>4. CASE Unbind
  BY <1>2, <1>4 DEF Unbind, AtWork
<1> QED
  BY <1>1, <1>3, <1>4

LEMMA PromisedMessage ==
    ASSUME TypeOK, LocalInv, InboxInv, OnCreate \/ OnStart \/ OnStopOrDestroy
    PROVE  [Promise!Next]_(Promise!promised)
<1> USE DEF Promise!Next, Promise!promised, Promise!Turn, Given
<1>1. inbox # <<>> /\ inbox' = Tail(inbox) /\ pc["main"] = "idle" /\ AtWork = <<>>
  BY DEF OnCreate, OnStart, OnStopOrDestroy, Message, Idle, AtWork
<1>2. /\ Given # <<>> /\ Head(Given) = Order(Head(inbox))
      /\ AtWork' = <<>> => Given' = Tail(Given)
      /\ AtWork' = <<Order(Head(inbox))>> => Given' = Given
  BY <1>1, GivenTaken
<1>3. CASE OnCreate
  <2>1. AtWork' = <<>> /\ Head(inbox) = "create" /\ vpn' = None
    BY <1>1, <1>3 DEF OnCreate, Message, AtWork, threadVars
  <2> QED
    BY <1>2, <2>1 DEF Promise!Create, Order
<1>4. CASE OnStart
  <2>1. Head(inbox) = "start" /\ Order(Head(inbox)) = "start" /\ vpn' = vpn
    BY <1>4 DEF OnStart, Message, serviceVars, Order
  <2>2. pc'["main"] \in {"idle", "establish", "stopself"}
    BY <1>1, <1>4 DEF OnStart, Goto, threadVars, TypeOK, Threads
  <2>3. AtWork' = <<>> \/ AtWork' = <<"start">>
    BY <2>2 DEF AtWork
  <2> QED
    BY <1>2, <2>1, <2>3 DEF Promise!Start
<1>5. CASE OnStopOrDestroy
  <2>1. Order(Head(inbox)) = "stop" /\ vpn' = vpn
    BY <1>5 DEF OnStopOrDestroy, Message, serviceVars, Order
  <2>2. AtWork' = <<"stop">>
    BY <1>5 DEF OnStopOrDestroy, Goto, TypeOK, Threads, AtWork
  <2> QED
    BY <1>2, <2>1, <2>2
<1> QED
  BY <1>3, <1>4, <1>5

LEMMA PromisedStart ==
    ASSUME TypeOK, LocalInv, StartTunnel
    PROVE  [Promise!Next]_(Promise!promised)
<1> USE DEF Promise!Next, Promise!promised, Promise!Turn, Given
<1>1. inbox' = inbox /\ "start" \in Commands
  BY DEF StartTunnel, Establish, KeepVpn, NewWakeLock, Acquire, Spawn, systemVars, Commands
<1>2. CASE Establish
  <2>1. pc["main"] = "establish" /\ vpn' = vpn /\ AtWork = <<"start">>
    BY <1>2 DEF Establish, serviceVars, AtWork
  <2>2. pc'["main"] \in {"keep", "stop"}
    BY <1>2 DEF Establish, Fails, Goto, TypeOK, Threads
  <2>3. AtWork' = AtWork \/ AtWork' = <<"stop">>
    BY <2>1, <2>2 DEF AtWork
  <2>4. Given' = Given \/ (Given # <<>> /\ Head(Given) = "start" /\ Given' = <<"stop">> \o Tail(Given))
    BY <1>1, <2>1, <2>3, GivenDone DEF Waiting
  <2> QED
    BY <2>1, <2>4 DEF Promise!Fail
<1>3. CASE KeepVpn
  <2>1. pc["main"] = "keep" /\ pc'["main"] = "lock" /\ vpn' = pfd["main"]
    BY <1>3 DEF KeepVpn, Goto, TypeOK, Threads
  <2>2. AtWork = <<"start">> /\ AtWork' = <<>> /\ vpn' # None
    BY <2>1 DEF AtWork, LocalInv, Threads, Starting
  <2>3. Given # <<>> /\ Head(Given) = "start" /\ Given' = Tail(Given)
    BY <1>1, <2>2, GivenDone
  <2> QED
    BY <2>2, <2>3 DEF Promise!Start
<1>4. CASE NewWakeLock \/ Acquire \/ Spawn
  <2>1. vpn' = vpn /\ pc["main"] \in {"lock", "acquire", "spawn"}
        /\ pc'["main"] \in {"acquire", "spawn", "idle", "stop"}
    BY <1>4 DEF NewWakeLock, Acquire, Spawn, Fails, Goto, serviceVars, TypeOK, Threads
  <2>2. AtWork = <<>> /\ (AtWork' = <<>> \/ AtWork' = <<"stop">>)
    BY <2>1 DEF AtWork
  <2>3. Given' = Given \/ Given' = <<"stop">> \o Given
    BY <1>1, <2>2, GivenFails DEF Waiting
  <2> QED
    BY <2>1, <2>3 DEF Promise!Fail
<1> QED
  BY <1>2, <1>3, <1>4 DEF StartTunnel

LEMMA PromisedCrash ==
    ASSUME Crash
    PROVE  [Promise!Next]_(Promise!promised)
<1>1. inbox' = <<>> /\ pc'["main"] = "idle" /\ vpn' = None
  BY DEF Crash, Threads
<1>2. AtWork' = <<>> /\ Waiting' = <<>>
  BY <1>1 DEF AtWork, Waiting
<1> QED
  BY <1>1, <1>2 DEF Promise!Next, Promise!Die

LEMMA PromisedStop ==
    ASSUME TypeOK, LocalInv, InboxInv, NEW t \in Threads, StopTunnel(t)
    PROVE  [Promise!Next]_(Promise!promised)
<1> USE DEF Promise!Next, Promise!promised, Promise!Turn, Given, Goto
<1>1. ASSUME inbox' = inbox, AtWork' = AtWork, vpn' = vpn \/ vpn' = None
      PROVE  [Promise!Next]_(Promise!promised)
  <2>1. Given' = Given
    BY <1>1 DEF Waiting
  <2> QED
    BY <1>1, <2>1 DEF Promise!Lose
<1>2. ASSUME inbox' = inbox, AtWork = <<"stop">>, AtWork' = <<>>, vpn' = None
      PROVE  [Promise!Next]_(Promise!promised)
  <2>1. Given # <<>> /\ Head(Given) = "stop" /\ Given' = Tail(Given)
    BY <1>2, GivenDone DEF Commands
  <2> QED
    BY <1>2, <2>1 DEF Promise!Stop
<1>3. t # "main" => pc'["main"] = pc["main"] \/ Crash
  BY DEF StopTunnel, ReadVpn, Shutdown, ClosePfd, NullVpn, Release, NullWakeLock, Finish,
         TypeOK, Threads
<1>4. CASE ReadVpn(t) \/ Shutdown(t) \/ ClosePfd(t) \/ NullVpn(t)
  <2>1. /\ inbox' = inbox /\ (vpn' = vpn \/ vpn' = None)
        /\ pc[t] \in {"stop", "shutdown", "close", "null"}
        /\ pc'[t] \in {"shutdown", "close", "null"} \/ (pc'[t] = "release" /\ vpn' = None)
    BY <1>4 DEF ReadVpn, Shutdown, ClosePfd, NullVpn, systemVars, serviceVars, TypeOK
  <2>2. CASE t = "main" /\ pc'[t] = "release"
    <3>1. AtWork = <<"stop">> /\ AtWork' = <<>>
      BY <2>1, <2>2 DEF AtWork
    <3> QED
      BY <1>2, <2>1, <2>2, <3>1
  <2>3. CASE t = "main" /\ pc'[t] # "release"
    <3>1. AtWork = <<"stop">> /\ AtWork' = <<"stop">>
      BY <2>1, <2>3 DEF AtWork
    <3> QED
      BY <1>1, <2>1, <3>1
  <2>4. CASE t # "main" /\ ~Crash
    <3>1. AtWork' = AtWork
      BY <1>3, <2>4 DEF AtWork
    <3> QED
      BY <1>1, <2>1, <3>1
  <2> QED
    BY <2>2, <2>3, <2>4, PromisedCrash
<1>5. CASE Release(t) \/ NullWakeLock(t) \/ Finish(t)
  <2>1. CASE Crash
    BY <2>1, PromisedCrash
  <2>2. CASE ~Crash
    <3>1. /\ vpn' = vpn /\ pc[t] \in {"release", "unlock", "stopself", "destroyed"}
          /\ pc'[t] \in {"unlock", "stopself", "destroyed", "idle"}
      BY <1>5, <2>2 DEF Release, NullWakeLock, Finish, systemVars, serviceVars, TypeOK
    <3>2. AtWork' = AtWork
      BY <1>3, <2>2, <3>1 DEF AtWork
    <3>3. inbox' = inbox \/ BringDown
      BY <1>5, <2>2 DEF Release, NullWakeLock, Finish, StopSelf, systemVars
    <3>4. CASE BringDown
      <4>1. Given' = Append(Given, "stop")
        BY <3>2, <3>4, GivenAppend DEF BringDown, Messages, Order
      <4> QED
        BY <3>1, <4>1 DEF Promise!Request
    <3> QED
      BY <1>1, <3>1, <3>2, <3>3, <3>4
  <2> QED
    BY <2>1, <2>2
<1> QED
  BY <1>4, <1>5 DEF StopTunnel

LEMMA PromisedNext ==
    TypeOK /\ LocalInv /\ InboxInv /\ Next => [Promise!Next]_(Promise!promised)
<1>1. "main" \in Threads /\ "binder" \in Threads
  BY DEF Threads
<1>2. ASSUME NEW i \in Tunnels, Worker(i) \/ WorkerFails(i)
      PROVE  [Promise!Next]_(Promise!promised)
  <2>1. CASE ~Crash
    <3>1. UNCHANGED <<inbox, vpn, pc>>
      BY <1>2, <2>1 DEF Worker, WorkerFd, WorkerRun, WorkerStops, WorkerFails, RunEnds,
         systemVars, serviceVars, threadVars
    <3>2. AtWork' = AtWork /\ Waiting' = Waiting
      BY <3>1 DEF AtWork, Waiting
    <3> QED
      BY <3>1, <3>2 DEF Promise!promised
  <2> QED
    BY <2>1, PromisedCrash
<1> QED
  BY <1>1, <1>2, PromisedSystem, PromisedMessage, PromisedStart, PromisedStop DEF Next, Main


BaseInv == TypeOK /\ LocalInv /\ InboxInv

LEMMA BaseInit == Init => BaseInv
<1> SUFFICES ASSUME Init PROVE BaseInv
  OBVIOUS
<1>1. TypeOK
  BY TypeInit
<1>2. LocalInv
  BY DEF Init, LocalInv, Threads, Starting, Idle, StopPath
<1>3. InboxInv
  BY DEF Init, InboxInv, Serves, Current
<1> QED
  BY <1>1, <1>2, <1>3 DEF BaseInv

LEMMA BaseNext == BaseInv /\ [Next]_vars => BaseInv'
<1> SUFFICES ASSUME BaseInv, [Next]_vars PROVE BaseInv'
  OBVIOUS
<1>1. CASE Next
  BY <1>1, TypeNext, LocalNext, InboxNext DEF BaseInv
<1>2. CASE UNCHANGED vars
  <2>1. UNCHANGED <<record, started, bound, inbox, alive, vpn, wakeLock, open, held, pc, pfd,
                    after, worker, engine, quit, want, blame>>
    BY <1>2 DEF vars, systemVars, serviceVars, resources, threadVars, engineVars
  <2>2. TypeOK' = TypeOK
    BY <2>1 DEF TypeOK
  <2>3. LocalInv' = LocalInv /\ InboxInv' = InboxInv
    BY <2>1 DEF LocalInv, InboxInv, Serves, Current, Idle
  <2> QED
    BY <2>2, <2>3 DEF BaseInv
<1> QED
  BY <1>1, <1>2

\* Commands take effect in the order they were given, whatever happens in between: the
\* service implements VpnCommands.
THEOREM CommandsInOrderHolds == Spec => CommandsInOrder
<1>1. Init => Promise!Init
  <2> SUFFICES ASSUME Init PROVE Promise!Init
    OBVIOUS
  <2>1. AtWork = <<>> /\ Waiting = <<>> /\ vpn = None
    BY DEF Init, AtWork, Waiting, Threads
  <2> QED
    BY <2>1 DEF Promise!Init
<1>2. BaseInv /\ [Next]_vars => [Promise!Next]_(Promise!promised)
  <2> SUFFICES ASSUME BaseInv, [Next]_vars PROVE [Promise!Next]_(Promise!promised)
    OBVIOUS
  <2>1. CASE Next
    BY <2>1, PromisedNext DEF BaseInv
  <2>2. CASE UNCHANGED vars
    <3>1. UNCHANGED <<inbox, vpn, pc>>
      BY <2>2 DEF vars, systemVars, serviceVars, threadVars
    <3>2. AtWork' = AtWork /\ Waiting' = Waiting
      BY <3>1 DEF AtWork, Waiting
    <3> QED
      BY <3>1, <3>2 DEF Promise!promised
  <2> QED
    BY <2>1, <2>2
<1> QED
  BY <1>1, <1>2, BaseInit, BaseNext, PTL DEF Spec, CommandsInOrder, Promise!Spec


-----------------------------------------------------------------------------
(***************************************************************************)
(* Resources.  As long as no two threads overlapped one thread at most is  *)
(* at work, and descriptor, wake lock and the fields are what its position *)
(* says; with none at work they go together.                               *)
(***************************************************************************)
Parts(v, o, h, w) == vpn = v /\ open = o /\ held = h /\ wakeLock = w

\* A thread at a position, with the local pfd i
Shape(at, i) ==
    \/ at \in {"idle", "stop"} /\ open = {vpn} \ {None} /\ held = open /\ wakeLock = vpn
    \/ at \in {"establish", "stopself", "destroyed"} /\ Parts(None, {}, {}, None)
    \/ at = "keep" /\ Parts(None, {i}, {}, None)
    \/ at = "lock" /\ Parts(i, {i}, {}, None)
    \/ at = "acquire" /\ Parts(i, {i}, {}, i)
    \/ at \in {"spawn", "shutdown", "close"} /\ Parts(i, {i}, {i}, i)
    \/ at = "null" /\ Parts(i, {}, {i}, i)
    \/ at = "release" /\ vpn = None /\ open = {} /\ held = {wakeLock} \ {None}
    \/ at = "unlock" /\ vpn = None /\ open = {} /\ held = {}

Alone(t) == Shape(pc[t], pfd[t]) /\ \A o \in Threads \ {t} : Idle(o)

WholeInv ==
    /\ \E t \in Threads : Alone(t)
    /\ ~alive => vpn = None /\ \A t \in Threads : Idle(t)

LEMMA OneAtWork ==
    ASSUME WholeInv, NEW t \in Threads, ~Idle(t) \/ \A o \in Threads : Idle(o)
    PROVE  Alone(t)
<1>1. PICK w \in Threads : Alone(w)
  BY DEF WholeInv
<1>2. CASE ~Idle(t)
  <2>1. t = w
    BY <1>1, <1>2 DEF Alone
  <2> QED
    BY <1>1, <2>1
<1>3. CASE \A o \in Threads : Idle(o)
  BY <1>1, <1>3 DEF Alone, Shape, Idle
<1> QED
  BY <1>2, <1>3

LEMMA WholeMessage ==
    ASSUME TypeOK, LocalInv, InboxInv, "overlap" \notin blame => WholeInv, "overlap" \notin blame',
           OnCreate \/ OnStart \/ OnStopOrDestroy \/ OnRevoke
    PROVE  WholeInv'
<1> USE DEF Threads, Idle, Goto, Message, systemVars, serviceVars, resources, threadVars
<1>1. CASE OnCreate
  <2>1. /\ vpn' = None /\ wakeLock' = None /\ alive' = TRUE /\ UNCHANGED <<open, held, pc, pfd>>
        /\ \A t \in Threads : Idle(t)
    BY <1>1 DEF OnCreate
  <2>2. open = {} /\ held = {}
    <3>1. CASE Ended
      BY <3>1 DEF Ended
    <3>2. CASE ~Ended
      <4>1. WholeInv
        BY <1>1, <3>2 DEF OnCreate
      <4>2. ~alive
        BY <1>1, <2>1, FirstMessage DEF OnCreate, Current, LocalInv, TypeOK, StopPath
      <4>3. Alone("main") /\ vpn = None
        BY <2>1, <4>1, <4>2, OneAtWork DEF WholeInv
      <4> QED
        BY <2>1, <4>3 DEF Alone, Shape
    <3> QED
      BY <3>1, <3>2
  <2>3. Shape(pc["main"], pfd["main"])'
    BY <2>1, <2>2 DEF Shape
  <2> QED
    BY <2>1, <2>3 DEF WholeInv, Alone
<1>2. OnStart \/ OnStopOrDestroy \/ OnRevoke => WholeInv
  BY DEF OnStart, OnStopOrDestroy, OnRevoke, Overlaps
<1>3. CASE OnStart
  <2>1. alive /\ Idle("main") /\ UNCHANGED <<alive, vpn, wakeLock, open, held, pfd>>
    BY <1>3, FirstMessage DEF OnStart, Current
  <2>2. CASE UNCHANGED pc
    BY <1>2, <1>3, <2>1, <2>2 DEF WholeInv, Alone, Shape, Parts
  <2>3. CASE vpn = None /\ Idle("binder") /\ pc' = [pc EXCEPT !["main"] = pc'["main"]]
             /\ pc'["main"] \in {"establish", "stopself"}
    <3>1. Alone("main")
      BY <1>2, <1>3, <2>1, <2>3, OneAtWork
    <3>2. Shape(pc["main"], pfd["main"])'
      BY <2>1, <2>3, <3>1 DEF Alone, Shape, Parts
    <3> QED
      BY <2>1, <2>3, <3>2 DEF WholeInv, Alone, TypeOK
  <2> QED
    BY <1>3, <2>2, <2>3 DEF OnStart, Overlaps, TypeOK
<1>4. CASE OnStopOrDestroy
  <2>1. /\ alive /\ Idle("main") /\ Idle("binder") /\ pc' = [pc EXCEPT !["main"] = "stop"]
        /\ UNCHANGED <<alive, vpn, wakeLock, open, held, pfd>>
    BY <1>4, FirstMessage DEF OnStopOrDestroy, Current, Overlaps
  <2>2. Alone("main")
    BY <1>2, <1>4, <2>1, OneAtWork
  <2>3. Shape(pc["main"], pfd["main"])'
    BY <2>1, <2>2 DEF Alone, Shape, TypeOK
  <2> QED
    BY <2>1, <2>3 DEF WholeInv, Alone, TypeOK
<1>5. CASE OnRevoke
  <2>1. /\ alive /\ Idle("main") /\ Idle("binder") /\ pc' = [pc EXCEPT !["binder"] = "stop"]
        /\ UNCHANGED <<alive, vpn, wakeLock, open, held, pfd>>
    BY <1>5 DEF OnRevoke, Overlaps
  <2>2. Alone("binder")
    BY <1>2, <1>5, <2>1, OneAtWork
  <2>3. Shape(pc["binder"], pfd["binder"])'
    BY <2>1, <2>2 DEF Alone, Shape, TypeOK
  <2> QED
    BY <2>1, <2>3 DEF WholeInv, Alone, TypeOK
<1> QED
  BY <1>1, <1>3, <1>4, <1>5


LEMMA WholeStart ==
    ASSUME TypeOK, LocalInv, WholeInv, StartTunnel
    PROVE  WholeInv'
<1> USE DEF Threads, Idle, Goto, systemVars, serviceVars, resources, engineVars
<1>1. pc["main"] \in Starting \cup {"establish"}
  BY DEF StartTunnel, Establish, KeepVpn, NewWakeLock, Acquire, Spawn, Starting
<1>2. Alone("main") /\ alive /\ "main" \in Threads
  BY <1>1, OneAtWork DEF Starting, WholeInv
<1>3. /\ alive' = TRUE /\ pc' = [pc EXCEPT !["main"] = pc'["main"]] /\ pc["binder"] = "idle"
      /\ pc["main"] \in Starting => pfd["main"] # None
  BY <1>1, <1>2 DEF StartTunnel, Establish, KeepVpn, NewWakeLock, Acquire, Spawn, Fails, LocalInv,
     Alone, TypeOK, Starting
<1>4. ASSUME Shape(pc["main"], pfd["main"])' PROVE WholeInv'
  BY <1>3, <1>4 DEF WholeInv, Alone, TypeOK
<1>5. CASE Establish
  <2>1. pc["main"] = "establish" /\ Parts(None, {}, {}, None)
    BY <1>2, <1>5 DEF Establish, Alone, Shape
  <2>2. UNCHANGED <<vpn, wakeLock, held>>
    BY <1>5 DEF Establish
  <2>3. \/ \E i \in Tunnels : pc'["main"] = "keep" /\ pfd'["main"] = i /\ open' = open \cup {i}
        \/ pc'["main"] = "stop" /\ open' = open
    BY <1>5 DEF Establish, Fails, TypeOK, Unused
  <2> QED
    BY <1>4, <2>1, <2>2, <2>3 DEF Shape, Parts
<1>6. CASE KeepVpn
  <2>1. pc["main"] = "keep" /\ pc'["main"] = "lock" /\ vpn' = pfd["main"] /\ pfd' = pfd
        /\ UNCHANGED <<open, held, wakeLock>>
    BY <1>6 DEF KeepVpn, TypeOK
  <2>2. Parts(None, {pfd["main"]}, {}, None)
    BY <1>2, <2>1 DEF Alone, Shape
  <2> QED
    BY <1>4, <2>1, <2>2 DEF Shape, Parts
<1>7. CASE NewWakeLock
  <2>1. pc["main"] = "lock" /\ pc'["main"] = "acquire" /\ wakeLock' = pfd["main"] /\ pfd' = pfd
        /\ UNCHANGED <<open, held, vpn>>
    BY <1>7 DEF NewWakeLock, TypeOK
  <2>2. Parts(pfd["main"], {pfd["main"]}, {}, None)
    BY <1>2, <2>1 DEF Alone, Shape
  <2> QED
    BY <1>4, <2>1, <2>2 DEF Shape, Parts
<1>8. CASE Acquire
  <2>1. pc["main"] = "acquire" /\ pc'["main"] = "spawn" /\ pfd' = pfd
        /\ held' = (IF wakeLock = None THEN held ELSE held \cup {wakeLock})
        /\ UNCHANGED <<open, wakeLock, vpn>>
    BY <1>8 DEF Acquire, TypeOK
  <2>2. Parts(pfd["main"], {pfd["main"]}, {}, pfd["main"]) /\ pfd["main"] # None
    BY <1>2, <1>3, <2>1 DEF Alone, Shape, Starting
  <2> QED
    BY <1>4, <2>1, <2>2 DEF Shape, Parts
<1>9. CASE Spawn
  <2>1. pc["main"] = "spawn" /\ UNCHANGED <<open, held, wakeLock, vpn>>
    BY <1>9 DEF Spawn
  <2>2. Parts(pfd["main"], {pfd["main"]}, {pfd["main"]}, pfd["main"]) /\ pfd["main"] # None
    BY <1>2, <1>3, <2>1 DEF Alone, Shape, Starting
  <2>3. pc'["main"] = "idle"
    BY <1>9, <2>2 DEF Spawn, TypeOK, Parts
  <2> QED
    BY <1>4, <2>1, <2>2, <2>3 DEF Shape, Parts
<1> QED
  BY <1>5, <1>6, <1>7, <1>8, <1>9 DEF StartTunnel

LEMMA WholeCrash ==
    ASSUME Crash
    PROVE  WholeInv'
  BY DEF Crash, WholeInv, Alone, Shape, Threads, Idle

LEMMA WholeStop ==
    ASSUME TypeOK, LocalInv, WholeInv, NEW t \in Threads, StopTunnel(t)
    PROVE  WholeInv'
<1> USE DEF Idle, Goto, systemVars, serviceVars, resources, engineVars
<1>1. pc[t] \in StopPath \cup {"stopself", "destroyed"} /\ ~Idle(t)
  BY DEF StopTunnel, ReadVpn, Shutdown, ClosePfd, NullVpn, Release, NullWakeLock, Finish, StopPath
<1>2. Alone(t) /\ alive
  BY <1>1, OneAtWork DEF WholeInv
<1>3. /\ pc' = [pc EXCEPT ![t] = pc'[t]] \/ Crash
      /\ pc[t] \in {"shutdown", "close", "null"} => pfd[t] # None
  BY <1>1 DEF StopTunnel, ReadVpn, Shutdown, ClosePfd, NullVpn, Release, NullWakeLock, Finish,
     LocalInv, TypeOK, StopPath
<1>4. ASSUME Shape(pc[t], pfd[t])', ~Crash, alive' \/ (Idle(t)' /\ vpn' = None)
      PROVE WholeInv'
  BY <1>2, <1>3, <1>4 DEF WholeInv, Alone, TypeOK
<1>5. CASE ReadVpn(t) /\ ~Crash
  <2>1. /\ pc[t] = "stop" /\ pc'[t] = IF vpn = None THEN "release" ELSE "shutdown"
        /\ pfd'[t] = vpn /\ UNCHANGED <<vpn, open, held, wakeLock, alive>>
    BY <1>5 DEF ReadVpn, TypeOK
  <2>2. open = {vpn} \ {None} /\ held = open /\ wakeLock = vpn
    BY <1>2, <2>1 DEF Alone, Shape
  <2> QED
    BY <1>2, <1>4, <1>5, <2>1, <2>2 DEF Shape, Parts
<1>6. CASE Shutdown(t) /\ ~Crash
  <2>1. pc[t] = "shutdown" /\ pc'[t] = "close" /\ UNCHANGED <<pfd, vpn, open, held, wakeLock, alive>>
    BY <1>6 DEF Shutdown, TypeOK
  <2> QED
    BY <1>2, <1>4, <1>6, <2>1 DEF Alone, Shape, Parts
<1>7. CASE ClosePfd(t) /\ ~Crash
  <2>1. /\ pc[t] = "close" /\ pc'[t] = "null" /\ open' = open \ {pfd[t]}
        /\ UNCHANGED <<pfd, vpn, held, wakeLock, alive>>
    BY <1>7 DEF ClosePfd, TypeOK
  <2> QED
    BY <1>2, <1>4, <1>7, <2>1 DEF Alone, Shape, Parts
<1>8. CASE NullVpn(t) /\ ~Crash
  <2>1. /\ pc[t] = "null" /\ pc'[t] = "release" /\ vpn' = None
        /\ UNCHANGED <<open, held, wakeLock, alive>>
    BY <1>8 DEF NullVpn, TypeOK
  <2>2. Parts(pfd[t], {}, {pfd[t]}, pfd[t]) /\ pfd[t] # None
    BY <1>2, <1>3, <2>1 DEF Alone, Shape
  <2> QED
    BY <1>2, <1>4, <1>8, <2>1, <2>2 DEF Shape, Parts
<1>9. CASE Release(t) /\ ~Crash
  <2>1. vpn = None /\ open = {} /\ held = {wakeLock} \ {None}
    BY <1>2, <1>9 DEF Release, Alone, Shape
  <2>2. /\ pc'[t] = "unlock" /\ held' = held \ {wakeLock}
        /\ UNCHANGED <<open, vpn, wakeLock, alive>>
    BY <1>9, <2>1 DEF Release, TypeOK
  <2> QED
    BY <1>2, <1>4, <1>9, <2>1, <2>2 DEF Shape
<1>10. CASE NullWakeLock(t) /\ ~Crash
  <2>1. /\ pc[t] = "unlock" /\ pc'[t] \in {"stopself", "destroyed"} /\ wakeLock' = None
        /\ UNCHANGED <<open, held, vpn, alive>>
    BY <1>10 DEF NullWakeLock, TypeOK
  <2> QED
    BY <1>2, <1>4, <1>10, <2>1 DEF Alone, Shape, Parts
<1>11. CASE Finish(t) /\ ~Crash
  <2>1. pc[t] \in {"stopself", "destroyed"} /\ pc'[t] = "idle" /\ UNCHANGED <<open, held, vpn, wakeLock>>
    BY <1>11 DEF Finish, TypeOK
  <2>2. Parts(None, {}, {}, None)
    BY <1>2, <2>1 DEF Alone, Shape
  <2> QED
    BY <1>4, <1>11, <2>1, <2>2 DEF Shape, Parts
<1> QED
  BY <1>5, <1>6, <1>7, <1>8, <1>9, <1>10, <1>11, WholeCrash DEF StopTunnel

\* Only the creation of a service of which nothing is left ends an overlap.
LEMMA OverlapEnds ==
    ASSUME Next, ~OnCreate, "overlap" \notin blame'
    PROVE  "overlap" \notin blame
<1>1. ASSUME NEW c \in {"start", "stop"}, Request(c)
      PROVE  "overlap" \notin blame
  BY <1>1 DEF Request
<1>2. ASSUME NEW t \in Threads, StopTunnel(t)
      PROVE  "overlap" \notin blame
  BY <1>2 DEF StopTunnel, ReadVpn, Shutdown, ClosePfd, NullVpn, Release, NullWakeLock, Finish, Crash
<1>3. ASSUME NEW i \in Tunnels, Worker(i) \/ WorkerFails(i)
      PROVE  "overlap" \notin blame
  BY <1>3 DEF Worker, WorkerFd, WorkerRun, WorkerStops, WorkerFails, Over, Crash
<1>4. CASE StartTunnel
  BY <1>4 DEF StartTunnel, Establish, KeepVpn, NewWakeLock, Acquire, Spawn, Fails, Blame
<1>5. CASE OnStart \/ OnStopOrDestroy \/ OnRevoke \/ Unbind
  BY <1>5 DEF OnStart, OnStopOrDestroy, OnRevoke, Unbind, Overlaps
<1>6. "main" \in Threads /\ "binder" \in Threads
  BY DEF Threads
<1> QED
  BY <1>1, <1>2, <1>3, <1>4, <1>5, <1>6 DEF Next, Main

LEMMA WholeNext ==
    ASSUME BaseInv, "overlap" \notin blame => WholeInv, Next, "overlap" \notin blame'
    PROVE  WholeInv'
<1>1. TypeOK /\ LocalInv /\ InboxInv /\ "main" \in Threads /\ "binder" \in Threads
  BY DEF BaseInv, Threads
<1>2. CASE OnCreate \/ OnStart \/ OnStopOrDestroy \/ OnRevoke
  BY <1>1, <1>2, WholeMessage
<1>3. CASE ~OnCreate
  <2>1. WholeInv
    BY <1>3, OverlapEnds
  <2>2. ASSUME (\E c \in {"start", "stop"} : Request(c)) \/ Unbind
        PROVE  WholeInv'
    <3>1. UNCHANGED <<alive, vpn, wakeLock, open, held, pc, pfd>>
      BY <2>2 DEF Request, Unbind, serviceVars, resources, threadVars
    <3> QED
      BY <2>1, <3>1 DEF WholeInv, Alone, Shape, Parts, Idle
  <2>3. ASSUME NEW i \in Tunnels, Worker(i) \/ WorkerFails(i)
        PROVE  WholeInv'
    <3>1. CASE ~Crash
      <4>1. UNCHANGED <<alive, vpn, wakeLock, open, held, pc, pfd>>
        BY <2>3, <3>1 DEF Worker, WorkerFd, WorkerRun, WorkerStops, WorkerFails, RunEnds, serviceVars,
           resources, threadVars
      <4> QED
        BY <2>1, <4>1 DEF WholeInv, Alone, Shape, Parts, Idle
    <3> QED
      BY <3>1, WholeCrash
  <2> QED
    BY <1>1, <1>2, <2>1, <2>2, <2>3, WholeStart, WholeStop DEF Next, Main
<1> QED
  BY <1>2, <1>3


-----------------------------------------------------------------------------
(***************************************************************************)
(* tun2proxy.  Unless two threads overlapped or a tunnel was closed before *)
(* its thread came to run, a thread that has not begun to run finds its    *)
(* descriptor open, and tun2proxy was told to stop before it was closed.   *)
(***************************************************************************)
Begun(i) == worker[i] \in {"spawned", "ready"}
InTime   == blame \cap {"late", "overlap"} = {}

DescInv ==
    /\ \A i \in Tunnels : Begun(i) => i \in open
    /\ engine # None /\ ~quit => engine \in open
    /\ (\E t \in Threads : pc[t] = "close") =>
           /\ engine # None => quit
           /\ \A i \in Tunnels : ~Begun(i)

CrashInv ==
    "crash" \in blame => /\ ~InTime /\ ~alive /\ Ended
                         /\ \A t \in Threads : Idle(t)

\* A step of a tun2proxy thread, but for the death of the process.
LEMMA WorkerStep ==
    ASSUME TypeOK, WorkerInv, NEW i \in Tunnels, Worker(i) \/ WorkerFails(i), ~Crash
    PROVE  /\ UNCHANGED <<open, pc, pfd, alive>> /\ worker[i] # "none"
           /\ \A j \in Tunnels \ {i} : worker'[j] = worker[j]
           /\ \/ /\ worker[i] = "spawned" /\ worker'[i] = "ready" /\ i \in open
                 /\ UNCHANGED <<engine, quit, blame>>
              \/ /\ worker[i] = "ready" /\ worker'[i] = "run" /\ engine' # None
                 /\ (i \in open => engine' = i) /\ UNCHANGED blame
              \/ /\ worker[i] \in {"ready", "run"} /\ worker'[i] = "none"
                 /\ blame' \in {Over(i), Over(i) \cup {"trouble"}}
                 /\ engine' = None \/ (worker[i] = "ready" /\ UNCHANGED <<engine, quit>>)
<1> USE DEF serviceVars, resources, threadVars, TypeOK
<1>1. CASE WorkerFd(i)
  BY <1>1 DEF WorkerFd
<1>2. CASE WorkerRun(i)
  <2>1. UNCHANGED <<open, pc, pfd, alive, quit>> /\ worker[i] = "ready"
    BY <1>2 DEF WorkerRun
  <2>2. CASE worker' = [worker EXCEPT ![i] = "run"] /\ blame' = blame
             /\ (\E on \in IF i \in open THEN {i} ELSE open : engine' = on)
    BY <2>1, <2>2, TunnelsAssumption
  <2>3. CASE /\ worker' = [worker EXCEPT ![i] = "none"]
             /\ blame' = Over(i) \cup IF i \in open THEN {"trouble"} ELSE {}
             /\ engine' = engine
    BY <2>1, <2>3
  <2> QED
    BY <1>2, <2>2, <2>3 DEF WorkerRun
<1>3. CASE WorkerStops(i) \/ WorkerFails(i)
  BY <1>3 DEF WorkerStops, WorkerFails, RunEnds
<1> QED
  BY <1>1, <1>2, <1>3 DEF Worker

LEMMA WorkerNext == TypeOK /\ WorkerInv /\ LocalInv /\ Next => WorkerInv'
<1> SUFFICES ASSUME TypeOK, WorkerInv, LocalInv, Next PROVE WorkerInv'
  OBVIOUS
<1> USE DEF Starting, Idle, Goto, systemVars, serviceVars, resources, threadVars, engineVars
<1>0. "main" \in Threads /\ "binder" \in Threads
  BY DEF Threads
<1>1. ASSUME (\E c \in {"start", "stop"} : Request(c)) \/ Unbind \/ OnRevoke \/ OnCreate \/ OnStart
             \/ OnStopOrDestroy
      PROVE  WorkerInv'
  <2>1. UNCHANGED <<worker, engine>> /\ (pc'["main"] \in Starting => pc'["main"] = pc["main"])
        /\ UNCHANGED pfd
    BY <1>0, <1>1 DEF Request, Unbind, OnRevoke, OnCreate, OnStart, OnStopOrDestroy, Message, TypeOK
  <2> QED
    BY <2>1 DEF WorkerInv
<1>2. CASE Establish
  <2>1. UNCHANGED <<worker, engine>>
    BY <1>2 DEF Establish
  <2>2. \/ \E i \in Unused : pfd'["main"] = i
        \/ pc'["main"] \notin Starting
    BY <1>0, <1>2 DEF Establish, Fails, TypeOK
  <2> QED
    BY <2>1, <2>2 DEF WorkerInv, Unused
<1>3. CASE KeepVpn \/ NewWakeLock \/ Acquire
  BY <1>3 DEF KeepVpn, NewWakeLock, Acquire, WorkerInv
<1>4. CASE Spawn
  <2>1. pc'["main"] \notin Starting /\ engine' = engine /\ pc["main"] = "spawn"
        /\ (worker' = worker \/ worker' = [worker EXCEPT ![pfd["main"]] = "spawned"])
    BY <1>0, <1>4 DEF Spawn, Fails, TypeOK
  <2>2. \A i \in Tunnels : worker[i] = "run" => worker'[i] = "run"
    BY <2>1 DEF WorkerInv, TypeOK
  <2> QED
    BY <2>1, <2>2 DEF WorkerInv
<1>5. CASE Crash
  BY <1>0, <1>5 DEF Crash, WorkerInv
<1>6. ASSUME NEW t \in Threads, StopTunnel(t), ~Crash
      PROVE  WorkerInv'
  <2>1. UNCHANGED <<worker, engine>> /\ (pc'["main"] \in Starting => t # "main")
    BY <1>6 DEF StopTunnel, ReadVpn, Shutdown, ClosePfd, NullVpn, Release, NullWakeLock, Finish,
       TypeOK
  <2>2. t # "main" => pc'["main"] = pc["main"] /\ pfd'["main"] = pfd["main"]
    BY <1>0, <1>6 DEF StopTunnel, ReadVpn, Shutdown, ClosePfd, NullVpn, Release, NullWakeLock, Finish,
       TypeOK
  <2> QED
    BY <2>1, <2>2 DEF WorkerInv
<1>7. ASSUME NEW i \in Tunnels, Worker(i) \/ WorkerFails(i), ~Crash
      PROVE  WorkerInv'
  <2>1. /\ UNCHANGED <<pc, pfd>> /\ worker[i] # "none"
        /\ \A j \in Tunnels \ {i} : worker'[j] = worker[j]
        /\ \/ worker'[i] = "run"
           \/ engine' = None
           \/ worker[i] # "run" /\ engine' = engine
    BY <1>7, WorkerStep
  <2>2. pc["main"] \in Starting => pfd["main"] \in Tunnels \ {i}
    BY <1>0, <2>1 DEF WorkerInv, LocalInv, TypeOK
  <2> QED
    BY <2>1, <2>2 DEF WorkerInv
<1> QED
  BY <1>0, <1>1, <1>2, <1>3, <1>4, <1>5, <1>6, <1>7 DEF Next, Main, StartTunnel

\* Only the creation of a service of which nothing is left, and the last thread of tun2proxy,
\* end what a race leads to.
LEMMA RaceEnds ==
    ASSUME Next, ~OnCreate, \A i \in Tunnels : ~(Worker(i) \/ WorkerFails(i)), InTime'
    PROVE  InTime
<1>1. ASSUME NEW c \in {"start", "stop"}, Request(c)
      PROVE  InTime
  BY <1>1 DEF Request, InTime
<1>2. ASSUME NEW t \in Threads, StopTunnel(t)
      PROVE  InTime
  <2>1. blame \cap {"late", "overlap"} \subseteq blame'
    BY <1>2 DEF StopTunnel, ReadVpn, Shutdown, ClosePfd, NullVpn, Release, NullWakeLock, Finish, Crash
  <2> QED
    BY <2>1 DEF InTime
<1>3. CASE StartTunnel
  <2>1. blame \subseteq blame'
    BY <1>3 DEF StartTunnel, Establish, KeepVpn, NewWakeLock, Acquire, Spawn, Fails, Blame
  <2> QED
    BY <2>1 DEF InTime
<1>4. CASE OnStart \/ OnStopOrDestroy \/ OnRevoke \/ Unbind
  BY <1>4 DEF OnStart, OnStopOrDestroy, OnRevoke, Unbind, Overlaps, InTime
<1>5. "main" \in Threads /\ "binder" \in Threads
  BY DEF Threads
<1> QED
  BY <1>1, <1>2, <1>3, <1>4, <1>5 DEF Next, Main

LEMMA DescWorker ==
    ASSUME TypeOK, WorkerInv, InTime => DescInv, InTime',
           NEW i \in Tunnels, Worker(i) \/ WorkerFails(i)
    PROVE  DescInv'
<1>1. CASE Crash
  BY <1>1 DEF Crash, DescInv, Begun
<1>2. CASE ~Crash
  <2>1. /\ UNCHANGED <<open, pc, pfd, alive>> /\ worker[i] # "none"
        /\ \A j \in Tunnels \ {i} : worker'[j] = worker[j]
        /\ \/ /\ worker[i] = "spawned" /\ worker'[i] = "ready" /\ i \in open
              /\ UNCHANGED <<engine, quit, blame>>
           \/ /\ worker[i] = "ready" /\ worker'[i] = "run" /\ engine' # None
              /\ (i \in open => engine' = i) /\ UNCHANGED blame
           \/ /\ worker[i] \in {"ready", "run"} /\ worker'[i] = "none"
              /\ blame' \in {Over(i), Over(i) \cup {"trouble"}}
              /\ engine' = None \/ (worker[i] = "ready" /\ UNCHANGED <<engine, quit>>)
    BY <1>2, WorkerStep
  <2>2. CASE InTime
    <3>1. DescInv
      BY <2>2
    <3>2. /\ \A j \in Tunnels : Begun(j)' => Begun(j)
          /\ worker[i] \in {"spawned", "ready"} => i \in open
      BY <2>1, <3>1 DEF DescInv, Begun
    <3> QED
      BY <2>1, <3>1, <3>2 DEF DescInv, Begun
  <2>3. CASE ~InTime
    <3>1. /\ worker[i] \in {"ready", "run"} /\ worker'[i] = "none"
          /\ blame' \in {Over(i), Over(i) \cup {"trouble"}}
          /\ engine' = None \/ (worker[i] = "ready" /\ UNCHANGED <<engine, quit>>)
      BY <2>1, <2>3 DEF InTime
    <3>2. \A j \in Tunnels \ {i} : worker[j] = "none"
      BY <2>3, <3>1 DEF InTime, Over
    <3>3. engine' = None
      BY <3>1, <3>2 DEF WorkerInv
    <3> QED
      BY <2>1, <3>1, <3>2, <3>3 DEF DescInv, Begun
  <2> QED
    BY <2>2, <2>3
<1> QED
  BY <1>1, <1>2

LEMMA DescStop ==
    ASSUME TypeOK, WholeInv, DescInv, InTime', NEW t \in Threads, StopTunnel(t)
    PROVE  DescInv'
<1> USE DEF TypeOK, Goto, systemVars, serviceVars, resources, engineVars
<1>1. CASE Crash
  BY <1>1 DEF Crash, DescInv, Begun
<1>2. CASE Shutdown(t)
  <2>1. /\ pc[t] = "shutdown" /\ UNCHANGED <<open, worker, engine>> /\ quit' = (quit \/ engine # None)
        /\ ~Begun(pfd[t])
    BY <1>2 DEF Shutdown, InTime, Begun
  <2>2. open = {pfd[t]}
    BY <2>1, OneAtWork DEF Alone, Shape, Parts, Idle
  <2>3. \A i \in Tunnels : ~Begun(i)
    BY <2>1, <2>2 DEF DescInv
  <2> QED
    BY <2>1, <2>3 DEF DescInv, Begun
<1>3. CASE ClosePfd(t)
  <2>1. /\ pc[t] = "close" /\ open' = open \ {pfd[t]} /\ UNCHANGED <<worker, engine, quit>>
    BY <1>3 DEF ClosePfd
  <2> QED
    BY <2>1 DEF DescInv, Begun
<1>4. CASE ~Crash /\ ~Shutdown(t) /\ ~ClosePfd(t)
  <2>1. /\ UNCHANGED <<open, worker, engine, quit>>
        /\ \A o \in Threads : pc'[o] = "close" => pc[o] = "close"
    BY <1>4 DEF StopTunnel, ReadVpn, NullVpn, Release, NullWakeLock, Finish
  <2> QED
    BY <2>1 DEF DescInv, Begun
<1> QED
  BY <1>1, <1>2, <1>3, <1>4

LEMMA DescStart ==
    ASSUME TypeOK, LocalInv, WholeInv, DescInv, StartTunnel
    PROVE  DescInv'
<1> USE DEF TypeOK, Goto, systemVars, serviceVars, resources, engineVars
<1>1. pc["main"] \in Starting \cup {"establish"} /\ "main" \in Threads
  BY DEF StartTunnel, Establish, KeepVpn, NewWakeLock, Acquire, Spawn, Starting, Threads
<1>2. \A o \in Threads : pc'[o] # "close"
  <2>1. Alone("main")
    BY <1>1, OneAtWork DEF Starting, Idle
  <2>2. \A o \in Threads \ {"main"} : pc'[o] = "idle"
    BY <2>1 DEF StartTunnel, Establish, KeepVpn, NewWakeLock, Acquire, Spawn, Fails, Alone, Idle
  <2>3. pc'["main"] # "close"
    BY <1>1 DEF StartTunnel, Establish, KeepVpn, NewWakeLock, Acquire, Spawn, Fails
  <2> QED
    BY <2>2, <2>3
<1>3. open \subseteq open' /\ UNCHANGED <<engine, quit>>
  BY DEF StartTunnel, Establish, KeepVpn, NewWakeLock, Acquire, Spawn
<1>4. worker' = worker \/ (pfd["main"] \in open /\ worker' = [worker EXCEPT ![pfd["main"]] = "spawned"])
  BY DEF StartTunnel, Establish, KeepVpn, NewWakeLock, Acquire, Spawn
<1>5. \A i \in Tunnels : Begun(i)' => Begun(i) \/ i \in open
  BY <1>4 DEF Begun
<1> QED
  BY <1>2, <1>3, <1>5 DEF DescInv

LEMMA DescNext ==
    ASSUME BaseInv, WorkerInv, "overlap" \notin blame => WholeInv, InTime => DescInv, Next, InTime'
    PROVE  DescInv'
<1> USE DEF Goto, systemVars, serviceVars, resources, threadVars, engineVars
<1>1. TypeOK /\ LocalInv /\ "main" \in Threads /\ "binder" \in Threads
  BY DEF BaseInv, Threads
<1>2. CASE OnCreate
  <2>1. UNCHANGED <<open, worker, engine, quit, pc>> /\ \A t \in Threads : Idle(t)
    BY <1>2 DEF OnCreate, Message, Threads
  <2>2. CASE Ended
    BY <2>1, <2>2 DEF Ended, DescInv, Begun, Idle
  <2>3. CASE ~Ended
    <3>1. InTime
      BY <1>2, <2>3 DEF OnCreate, InTime
    <3> QED
      BY <2>1, <3>1 DEF DescInv, Begun
  <2> QED
    BY <2>2, <2>3
<1>3. ASSUME NEW i \in Tunnels, Worker(i) \/ WorkerFails(i)
      PROVE  DescInv'
  BY <1>1, <1>3, DescWorker
<1>4. CASE ~OnCreate /\ \A i \in Tunnels : ~(Worker(i) \/ WorkerFails(i))
  <2>1. InTime
    BY <1>4, RaceEnds
  <2>2. DescInv /\ WholeInv
    BY <2>1 DEF InTime
  <2>3. ASSUME (\E c \in {"start", "stop"} : Request(c)) \/ Unbind \/ OnStart \/ OnStopOrDestroy \/ OnRevoke
        PROVE  DescInv'
    <3>1. /\ UNCHANGED <<open, worker, engine, quit>>
          /\ \A o \in Threads : pc'[o] = "close" => pc[o] = "close"
      BY <1>1, <2>3 DEF Request, Unbind, OnStart, OnStopOrDestroy, OnRevoke, Message, TypeOK
    <3> QED
      BY <2>2, <3>1 DEF DescInv, Begun
  <2> QED
    BY <1>1, <1>4, <2>2, <2>3, DescStart, DescStop DEF Next, Main
<1> QED
  BY <1>2, <1>3, <1>4

\* The process dies of a race only, and with it all that it held.
LEMMA CrashNext ==
    ASSUME BaseInv, "overlap" \notin blame => WholeInv, InTime => DescInv, CrashInv, Next
    PROVE  CrashInv'
<1> USE DEF Goto, Message, Idle, systemVars, serviceVars, resources, threadVars, engineVars
<1>1. TypeOK /\ LocalInv /\ InboxInv /\ "main" \in Threads /\ "binder" \in Threads
  BY DEF BaseInv, Threads
<1>2. ASSUME Crash, ~InTime PROVE CrashInv'
  <2>1. ~InTime'
    BY <1>2 DEF Crash, InTime
  <2> QED
    BY <1>2, <2>1 DEF Crash, CrashInv, Ended
<1>3. ASSUME NEW t \in Threads, Release(t), Crash PROVE CrashInv'
  <2>1. CASE "overlap" \in blame
    BY <1>2, <1>3, <2>1 DEF InTime
  <2>2. CASE "overlap" \notin blame
    <3>1. Alone(t)
      BY <1>3, <2>2, OneAtWork DEF Release
    <3>2. wakeLock \in held \cup {None}
      BY <1>3, <3>1 DEF Release, Alone, Shape
    <3>3. /\ UNCHANGED blame /\ UNCHANGED alive /\ pc' = [pc EXCEPT ![t] = "unlock"]
      BY <1>3, <3>2 DEF Release
    <3> QED
      BY <1>1, <1>3, <3>3 DEF Crash, TypeOK
  <2> QED
    BY <2>1, <2>2
<1>4. ASSUME NEW i \in Tunnels, WorkerFd(i), i \notin open PROVE CrashInv'
  <2>1. ~InTime /\ Crash
    BY <1>4 DEF WorkerFd, DescInv, Begun
  <2> QED
    BY <1>2, <2>1
<1>5. CASE "crash" \notin blame'
  BY <1>5 DEF CrashInv
<1>6. CASE "crash" \in blame
  <2>1. /\ ~InTime /\ ~alive /\ Ended /\ \A t \in Threads : pc[t] = "idle"
    BY <1>6 DEF CrashInv
  <2>2. ASSUME (\E c \in {"start", "stop"} : Request(c)) \/ Unbind
        PROVE  CrashInv'
    <3>1. UNCHANGED <<alive, open, held, engine, worker, pc>> /\ (InTime' => InTime)
      BY <2>2 DEF Request, Unbind, InTime
    <3> QED
      BY <2>1, <3>1 DEF CrashInv, Ended
  <2>3. CASE OnCreate
    BY <2>1, <2>3 DEF OnCreate, CrashInv
  <2>4. ~(OnStart \/ OnStopOrDestroy)
    BY <1>1, <2>1, FirstMessage DEF OnStart, OnStopOrDestroy, Current
  <2>5. ~OnRevoke
    BY <2>1 DEF OnRevoke
  <2>6. ~StartTunnel
    BY <1>1, <2>1 DEF StartTunnel, Establish, KeepVpn, NewWakeLock, Acquire, Spawn
  <2>7. \A t \in Threads : ~StopTunnel(t)
    BY <2>1 DEF StopTunnel, ReadVpn, Shutdown, ClosePfd, NullVpn, Release, NullWakeLock, Finish
  <2>8. \A i \in Tunnels : ~(Worker(i) \/ WorkerFails(i))
    BY <2>1 DEF Ended, Worker, WorkerFd, WorkerRun, WorkerStops, WorkerFails, RunEnds
  <2> QED
    BY <1>1, <2>2, <2>3, <2>4, <2>5, <2>6, <2>7, <2>8 DEF Next, Main
<1>7. CASE "crash" \notin blame /\ "crash" \in blame'
  <2>1. ~\E c \in {"start", "stop"} : Request(c)
    BY <1>7 DEF Request
  <2>2. ~(OnCreate \/ OnStart \/ OnStopOrDestroy \/ OnRevoke \/ Unbind)
    BY <1>7 DEF OnCreate, OnStart, OnStopOrDestroy, OnRevoke, Unbind, Overlaps
  <2>3. ~StartTunnel
    BY <1>7 DEF StartTunnel, Establish, KeepVpn, NewWakeLock, Acquire, Spawn, Fails, Blame
  <2>4. ASSUME NEW t \in Threads, StopTunnel(t) PROVE CrashInv'
    <3>1. Release(t) /\ Crash
      BY <1>7, <2>4 DEF StopTunnel, ReadVpn, Shutdown, ClosePfd, NullVpn, Release, NullWakeLock, Finish
    <3> QED
      BY <1>3, <3>1
  <2>5. ASSUME NEW i \in Tunnels, Worker(i) \/ WorkerFails(i) PROVE CrashInv'
    <3>1. WorkerFd(i) /\ i \notin open
      BY <1>7, <2>5 DEF Worker, WorkerFd, WorkerRun, WorkerStops, WorkerFails, Over
    <3> QED
      BY <1>4, <3>1
  <2> QED
    BY <1>1, <2>1, <2>2, <2>3, <2>4, <2>5 DEF Next, Main
<1> QED
  BY <1>5, <1>6, <1>7

-----------------------------------------------------------------------------
(***************************************************************************)
(* What the commands lead to.  After a stop every start that waits has an  *)
(* end behind it, and so has a tunnel; after a start no end waits, or a    *)
(* creation does behind it - unless the start came behind a stop, or       *)
(* something went wrong.                                                   *)
(***************************************************************************)
Ends(j)    == inbox[j] \in {"stop", "destroy"}
StopWork   == {"stop", "shutdown", "close", "null"}
Anew       == \E i \in 1..Len(inbox) : inbox[i] = "create"

StopInv == want = "stop" =>
    /\ \A i \in 1..Len(inbox) : inbox[i] = "start" => \E j \in 1..Len(inbox) : j > i /\ Ends(j)
    /\ vpn # None \/ pc["main"] \in {"establish", "keep"} =>
          pc["main"] \in StopWork \/ \E j \in 1..Len(inbox) : Ends(j)

AnewInv == Anew => started /\ record /\ inbox[Len(inbox)] = want

BehindInv ==
    want = "start" /\ Anew =>
        \A i \in 1..Len(inbox) : Ends(i) => \E j \in 1..Len(inbox) : j > i /\ inbox[j] = "create"

StartInv ==
    want = "start" /\ ~Anew =>
        /\ started /\ record
        /\ \A i \in 1..Len(inbox) : ~Ends(i)
        /\ ~Stopping("main")
        /\ IF inbox = <<>> THEN vpn # None \/ pc["main"] \in {"establish", "keep"}
           ELSE inbox[Len(inbox)] = "start"

\* A service that is on record, and need not be created, is not about to be destroyed.
LEMMA Serving ==
    ASSUME TypeOK, InboxInv, record, ~Anew
    PROVE  Current /\ \A i \in 1..Len(inbox) : inbox[i] # "destroy"
<1>1. Len(inbox) \in Nat
  BY LenProperties DEF TypeOK
<1>2. \A i \in 1..(Len(inbox) + 1) : Serves(inbox, Current, i)
  <2>1. \A i \in 1..(Len(inbox) + 1) : i \in 1..Len(inbox) \/ i = Len(inbox) + 1
    BY <1>1
  <2> QED
    BY <2>1 DEF InboxInv, Anew
<1>3. Serves(inbox, Current, 1) /\ \A i \in 1..Len(inbox) : Serves(inbox, Current, i + 1)
  BY <1>1, <1>2
<1> QED
  BY <1>1, <1>3 DEF Serves

\* A destroyed service is created anew before it handles what follows.
LEMMA AfterDestroy ==
    ASSUME TypeOK, InboxInv, record, NEW i \in 1..Len(inbox), inbox[i] = "destroy"
    PROVE  i + 1 \in 1..Len(inbox) /\ inbox[i + 1] = "create"
<1>1. Len(inbox) \in Nat
  BY LenProperties DEF TypeOK
<1>2. ~Serves(inbox, Current, i + 1)
  BY <1>1 DEF Serves
<1>3. i # Len(inbox)
  BY <1>1, <1>2 DEF InboxInv
<1> QED
  BY <1>1, <1>2, <1>3 DEF InboxInv

\* The service is brought down only when none waits to be created.
LEMMA AnewBringDown ==
    ASSUME TypeOK, BringDown, ~Anew
    PROVE  /\ ~Anew' /\ Len(inbox) \in Nat /\ Len(inbox') = Len(inbox) + 1
           /\ inbox'[Len(inbox) + 1] = "destroy"
           /\ \A i \in 1..Len(inbox) : inbox'[i] = inbox[i]
<1>1. /\ Len(inbox) \in Nat /\ Len(inbox') = Len(inbox) + 1
      /\ \A i \in 1..Len(inbox) : inbox'[i] = inbox[i]
      /\ inbox'[Len(inbox) + 1] = "destroy"
  BY QueueBringDown DEF TypeOK, Messages
<1>2. \A i \in 1..Len(inbox') : i \in 1..Len(inbox) \/ i = Len(inbox) + 1
  BY <1>1
<1> QED
  BY <1>1, <1>2 DEF Anew

\* What stopSelf, or the end of a binding, does to the queue.
LEMMA SystemBringsDown ==
    ASSUME TypeOK, AnewInv,
           OnRevoke \/ Unbind \/ \E t \in Threads : StopTunnel(t) /\ ~Crash
    PROVE  /\ want' = want
           /\ inbox' = inbox \/ (BringDown /\ ~Anew)
           /\ Anew => UNCHANGED <<record, started>>
<1>1. CASE OnRevoke \/ Unbind
  BY <1>1 DEF OnRevoke, Unbind, AnewInv
<1>2. ASSUME NEW t \in Threads, StopTunnel(t), ~Crash
      PROVE  /\ want' = want
             /\ inbox' = inbox \/ (BringDown /\ ~Anew)
             /\ Anew => UNCHANGED <<record, started>>
  <2>1. CASE Finish(t)
    BY <2>1 DEF Finish, StopSelf, Contains, Anew
  <2>2. CASE ~Finish(t)
    BY <1>2, <2>2 DEF StopTunnel, ReadVpn, Shutdown, ClosePfd, NullVpn, Release, NullWakeLock, systemVars
  <2> QED
    BY <2>1, <2>2
<1> QED
  BY <1>1, <1>2

\* The queue did not change, and what the main thread does next to a tunnel only for the better.
LEMMA StopSame ==
    ASSUME StopInv, UNCHANGED <<inbox, want>>,
           vpn' # None \/ pc'["main"] \in {"establish", "keep"} =>
               /\ vpn # None \/ pc["main"] \in {"establish", "keep"}
               /\ pc["main"] \in StopWork => pc'["main"] \in StopWork
    PROVE  StopInv'
  BY DEF StopInv, Ends

LEMMA StopEnds ==
    ASSUME TypeOK, inbox' \in Seq(Messages), Ends(Len(inbox))', Len(inbox') # 0
    PROVE  StopInv'
<1>1. Len(inbox') \in Nat /\ Len(inbox') \in 1..Len(inbox')
  BY LenProperties
<1>2. \A i \in 1..Len(inbox') : inbox'[i] = "start" => i < Len(inbox')
  BY <1>1 DEF Ends
<1> QED
  BY <1>1, <1>2 DEF StopInv, Ends

LEMMA StopMessage ==
    ASSUME TypeOK, StopInv, OnCreate \/ OnStart \/ OnStopOrDestroy
    PROVE  StopInv'
<1> USE DEF Goto, Message, Idle, systemVars, serviceVars, threadVars
<1> SUFFICES ASSUME want' = "stop" PROVE StopInv'
  BY DEF StopInv
<1>1. /\ inbox # <<>> /\ inbox' = Tail(inbox) /\ pc["main"] = "idle" /\ want = "stop"
      /\ Head(inbox) \in Messages
  BY DEF OnCreate, OnStart, OnStopOrDestroy, Messages
<1>2. /\ Len(inbox) \in Nat \ {0} /\ Head(inbox) = inbox[1] /\ Len(inbox') = Len(inbox) - 1
      /\ \A i \in 1..Len(inbox') : inbox'[i] = inbox[i + 1]
  BY <1>1, QueueTail DEF TypeOK, Messages
<1>3. \A j \in 1..Len(inbox) : j > 1 => j - 1 \in 1..Len(inbox') /\ inbox'[j - 1] = inbox[j]
  <2> SUFFICES ASSUME NEW j \in 1..Len(inbox), j > 1
               PROVE  j - 1 \in 1..Len(inbox') /\ inbox'[j - 1] = inbox[j]
    OBVIOUS
  <2>1. j - 1 \in 1..Len(inbox') /\ (j - 1) + 1 = j
    BY <1>2
  <2> QED
    BY <1>2, <2>1
<1>4. ASSUME NEW i \in 1..Len(inbox'), inbox'[i] = "start"
      PROVE  \E j \in 1..Len(inbox') : j > i /\ Ends(j)'
  <2>1. i + 1 \in 1..Len(inbox) /\ inbox[i + 1] = "start"
    BY <1>2, <1>4
  <2>2. PICK j \in 1..Len(inbox) : j > i + 1 /\ Ends(j)
    BY <1>1, <2>1 DEF StopInv
  <2>3. j > 1 /\ j - 1 > i
    BY <1>2, <2>2
  <2> QED
    BY <1>3, <2>2, <2>3 DEF Ends
<1>5. vpn' # None \/ pc'["main"] \in {"establish", "keep"} =>
          pc'["main"] \in StopWork \/ \E j \in 1..Len(inbox') : Ends(j)'
  <2>1. CASE OnCreate
    BY <1>1, <2>1 DEF OnCreate
  <2>2. CASE OnStart
    <3>1. inbox[1] = "start" /\ 1 \in 1..Len(inbox)
      BY <1>2, <2>2 DEF OnStart
    <3>2. PICK j \in 1..Len(inbox) : j > 1 /\ Ends(j)
      BY <1>1, <3>1 DEF StopInv
    <3> QED
      BY <1>3, <3>2 DEF Ends
  <2>3. CASE OnStopOrDestroy
    BY <2>3 DEF OnStopOrDestroy, StopWork, TypeOK, Threads
  <2> QED
    BY <2>1, <2>2, <2>3
<1> QED
  BY <1>4, <1>5 DEF StopInv

LEMMA StopNext == BaseInv /\ AnewInv /\ StopInv /\ Next => StopInv'
<1> SUFFICES ASSUME BaseInv, AnewInv, StopInv, Next PROVE StopInv'
  OBVIOUS
<1> USE DEF Goto, systemVars, serviceVars, threadVars
<1>1. TypeOK /\ LocalInv /\ InboxInv /\ "main" \in Threads /\ "binder" \in Threads
  BY DEF BaseInv, Threads
<1>2. CASE BringDown
  <2>1. /\ inbox' \in Seq(Messages) /\ Len(inbox) \in Nat /\ Len(inbox') = Len(inbox) + 1
        /\ inbox'[Len(inbox) + 1] = "destroy"
    BY <1>1, <1>2, QueueBringDown DEF TypeOK, Messages
  <2>2. Ends(Len(inbox))' /\ Len(inbox') # 0
    BY <2>1 DEF Ends
  <2> QED
    BY <1>1, <2>1, <2>2, StopEnds
<1>3. ASSUME NEW c \in {"start", "stop"}, Request(c)
      PROVE  StopInv'
  <2>1. CASE c = "start"
    BY <1>3, <2>1 DEF Request, StopInv
  <2>2. CASE c = "stop"
    <3>1. /\ inbox' \in Seq(Messages) /\ inbox'[Len(inbox')] = c /\ Len(inbox) \in Nat
          /\ Len(inbox') = Len(inbox) + 1 \/ Len(inbox') = Len(inbox) + 2
      BY <1>1, <1>3, QueueRequest DEF Request, TypeOK, Messages
    <3>2. Ends(Len(inbox))' /\ Len(inbox') # 0
      BY <2>2, <3>1 DEF Ends
    <3> QED
      BY <1>1, <3>1, <3>2, StopEnds
  <2> QED
    BY <2>1, <2>2
<1>4. CASE OnRevoke \/ Unbind
  <2>1. vpn' = vpn /\ pc'["main"] = pc["main"] /\ want' = want
    BY <1>1, <1>4 DEF OnRevoke, Unbind, TypeOK
  <2>2. inbox' = inbox \/ BringDown
    BY <1>4 DEF OnRevoke, Unbind
  <2> QED
    BY <1>2, <2>1, <2>2, StopSame
<1>5. CASE StartTunnel
  <2>1. /\ UNCHANGED <<inbox, want>> /\ pc["main"] \in Starting \cup {"establish"}
        /\ pc["main"] \in {"establish", "keep"} \/ (vpn' = vpn /\ pc'["main"] \notin {"establish", "keep"})
    BY <1>1, <1>5 DEF StartTunnel, Establish, KeepVpn, NewWakeLock, Acquire, Spawn, Fails, TypeOK, Starting
  <2> QED
    BY <2>1, StopSame DEF Starting, StopWork
<1>6. CASE Crash
  BY <1>1, <1>6 DEF Crash, StopInv
<1>7. ASSUME NEW t \in Threads, StopTunnel(t), ~Crash
      PROVE  StopInv'
  <2>1. want' = want /\ (inbox' = inbox \/ BringDown)
    BY <1>1, <1>7, SystemBringsDown
  <2>2. /\ t # "main" => pc'["main"] = pc["main"]
        /\ vpn' = vpn \/ vpn' = None
        /\ t = "main" => /\ pc'["main"] \notin {"establish", "keep"}
                         /\ pc["main"] \in StopWork => pc'["main"] \in StopWork \/ vpn' = None
    BY <1>1, <1>7 DEF StopTunnel, ReadVpn, Shutdown, ClosePfd, NullVpn, Release, NullWakeLock,
       Finish, StopWork, TypeOK
  <2> QED
    BY <1>2, <2>1, <2>2, StopSame
<1>8. ASSUME NEW i \in Tunnels, Worker(i) \/ WorkerFails(i), ~Crash
      PROVE  StopInv'
  <2>1. UNCHANGED <<inbox, want, vpn, pc>>
    BY <1>8 DEF Worker, WorkerFd, WorkerRun, WorkerStops, WorkerFails, RunEnds
  <2> QED
    BY <2>1, StopSame
<1> QED
  BY <1>1, <1>3, <1>4, <1>5, <1>6, <1>7, <1>8, StopMessage DEF Next, Main

LEMMA AnewNext == BaseInv /\ AnewInv /\ Next => AnewInv'
<1> SUFFICES ASSUME BaseInv, AnewInv, Next, Anew' PROVE AnewInv'
  BY DEF AnewInv
<1> USE DEF Goto, systemVars, serviceVars, threadVars
<1>1. TypeOK /\ LocalInv /\ InboxInv /\ "main" \in Threads /\ "binder" \in Threads
  BY DEF BaseInv, Threads
<1>2. ASSUME NEW c \in {"start", "stop"}, Request(c)
      PROVE  AnewInv'
  <2>1. inbox'[Len(inbox')] = c
    BY <1>1, <1>2, QueueRequest DEF Request, TypeOK, Messages
  <2> QED
    BY <1>2, <2>1 DEF Request, AnewInv
<1>3. CASE OnCreate \/ OnStart \/ OnStopOrDestroy
  <2>1. inbox # <<>> /\ inbox' = Tail(inbox) /\ UNCHANGED <<record, started, want>>
    BY <1>3 DEF OnCreate, OnStart, OnStopOrDestroy, Message
  <2>2. /\ Len(inbox) \in Nat \ {0} /\ Len(inbox') = Len(inbox) - 1
        /\ \A i \in 1..Len(inbox') : inbox'[i] = inbox[i + 1]
    BY <1>1, <2>1, QueueTail DEF TypeOK, Messages
  <2>3. PICK i \in 1..Len(inbox') : inbox'[i] = "create"
    BY DEF Anew
  <2>4. i + 1 \in 1..Len(inbox) /\ Len(inbox') \in 1..Len(inbox') /\ Len(inbox') + 1 = Len(inbox)
    BY <2>2
  <2>5. Anew
    BY <2>2, <2>3, <2>4 DEF Anew
  <2> QED
    BY <2>1, <2>2, <2>4, <2>5 DEF AnewInv
<1>4. ASSUME OnRevoke \/ Unbind \/ \E t \in Threads : StopTunnel(t) /\ ~Crash
      PROVE  AnewInv'
  <2>1. /\ want' = want
        /\ inbox' = inbox \/ (BringDown /\ ~Anew)
        /\ Anew => UNCHANGED <<record, started>>
    BY <1>1, <1>4, SystemBringsDown
  <2>2. inbox' = inbox
    BY <1>1, <2>1, AnewBringDown
  <2> QED
    BY <2>1, <2>2 DEF AnewInv, Anew
<1>5. CASE Crash
  BY <1>5 DEF Crash, Anew
<1>6. ASSUME StartTunnel \/ \E i \in Tunnels : (Worker(i) \/ WorkerFails(i)) /\ ~Crash
      PROVE  AnewInv'
  <2>1. UNCHANGED <<inbox, want, record, started>>
    BY <1>6 DEF StartTunnel, Establish, KeepVpn, NewWakeLock, Acquire, Spawn, Worker, WorkerFd,
       WorkerRun, WorkerStops, WorkerFails, RunEnds
  <2> QED
    BY <2>1 DEF AnewInv, Anew
<1> QED
  BY <1>1, <1>2, <1>3, <1>4, <1>5, <1>6 DEF Next, Main

\* A start that does not come behind a stop.
LEMMA StartRequested ==
    ASSUME BaseInv, Request("start"), ~StopPending
    PROVE  BehindInv' /\ StartInv'
<1>1. TypeOK /\ LocalInv /\ InboxInv /\ "main" \in Threads
  BY DEF BaseInv, Threads
<1>2. /\ Len(inbox) \in Nat
      /\ \A i \in 1..Len(inbox) : inbox'[i] = inbox[i]
      /\ record => Len(inbox') = Len(inbox) + 1
      /\ ~record => /\ Len(inbox') = Len(inbox) + 2
                    /\ inbox'[Len(inbox) + 1] = "create"
      /\ inbox'[Len(inbox')] = "start"
  BY <1>1, QueueRequest DEF Request, TypeOK, Messages
<1>3. UNCHANGED <<pc, after>> /\ started' /\ record'
  BY DEF Request, threadVars
<1>4. CASE ~record
  <2>1. Len(inbox) + 1 \in 1..Len(inbox')
    BY <1>2, <1>4
  <2>2. \A i \in 1..Len(inbox') : \/ i \in 1..Len(inbox)
                                  \/ i = Len(inbox) + 1 \/ i = Len(inbox')
    BY <1>2, <1>4
  <2>3. \A i \in 1..Len(inbox') : Ends(i)' => Len(inbox) + 1 > i
    <3>1. \A i \in 1..Len(inbox) : Len(inbox) + 1 > i
      BY <1>2
    <3>2. inbox'[Len(inbox) + 1] \notin {"stop", "destroy"} /\ inbox'[Len(inbox')] \notin {"stop", "destroy"}
      BY <1>2, <1>4
    <3> QED
      BY <2>2, <3>1, <3>2 DEF Ends
  <2>4. BehindInv'
    BY <1>2, <1>4, <2>1, <2>3 DEF BehindInv
  <2>5. Anew'
    BY <1>2, <1>4, <2>1 DEF Anew
  <2> QED
    BY <2>4, <2>5 DEF StartInv
<1>5. CASE record
  <2>1. \A i \in 1..Len(inbox') : i \in 1..Len(inbox) \/ i = Len(inbox')
    BY <1>2, <1>5
  <2>2. \A i \in 1..Len(inbox) : i \in 1..Len(inbox') /\ inbox[i] # "stop"
    BY <1>2, <1>5 DEF StopPending, Contains
  <2>3. \A i \in 1..Len(inbox') : Ends(i)' => i \in 1..Len(inbox) /\ inbox[i] = "destroy"
    BY <1>2, <2>1, <2>2 DEF Ends
  <2>4. BehindInv'
    <3> SUFFICES ASSUME NEW i \in 1..Len(inbox'), Ends(i)'
                 PROVE  \E j \in 1..Len(inbox') : j > i /\ inbox'[j] = "create"
      BY DEF BehindInv
    <3>1. i + 1 \in 1..Len(inbox) /\ inbox[i + 1] = "create"
      BY <1>1, <1>5, <2>3, AfterDestroy
    <3>2. i + 1 \in 1..Len(inbox') /\ inbox'[i + 1] = "create" /\ i + 1 > i
      BY <1>2, <2>2, <3>1
    <3> QED
      BY <3>2
  <2>5. StartInv'
    <3> SUFFICES ASSUME ~Anew' PROVE StartInv'
      BY DEF StartInv
    <3>1. ~Anew
      BY <1>2, <2>2 DEF Anew
    <3>2. after["main"] = "stopself" /\ \A i \in 1..Len(inbox) : inbox[i] # "destroy"
      BY <1>1, <1>5, <3>1, Serving DEF Current
    <3>3. ~Stopping("main")'
      BY <1>3, <1>5, <3>2 DEF StopPending, Stopping
    <3>4. inbox' # <<>>
      BY <1>2, <1>5
    <3>5. \A i \in 1..Len(inbox') : ~Ends(i)'
      BY <2>3, <3>2
    <3> QED
      BY <1>2, <1>3, <3>3, <3>4, <3>5 DEF StartInv
  <2> QED
    BY <2>4, <2>5
<1> QED
  BY <1>4, <1>5

LEMMA RequestNotBehind ==
    ASSUME BaseInv, NEW c \in {"start", "stop"}, Request(c), "behind" \notin blame'
    PROVE  BehindInv' /\ StartInv'
<1>1. CASE c = "start"
  <2>1. Request("start") /\ ~StopPending
    BY <1>1 DEF Request
  <2> QED
    BY <2>1, StartRequested
<1>2. CASE c = "stop"
  BY <1>2 DEF Request, BehindInv, StartInv
<1> QED
  BY <1>1, <1>2

\* A message taken from the queue.
LEMMA Taken ==
    ASSUME TypeOK, OnCreate \/ OnStart \/ OnStopOrDestroy
    PROVE  /\ inbox # <<>> /\ inbox' = Tail(inbox) /\ UNCHANGED <<record, started, want>>
           /\ Len(inbox) \in Nat \ {0} /\ Head(inbox) = inbox[1] /\ 1 \in 1..Len(inbox)
           /\ Len(inbox') = Len(inbox) - 1
           /\ \A i \in 1..Len(inbox') : i + 1 \in 1..Len(inbox) /\ inbox'[i] = inbox[i + 1]
           /\ \A j \in 1..Len(inbox) : j > 1 => j - 1 \in 1..Len(inbox') /\ inbox'[j - 1] = inbox[j]
<1>1. inbox # <<>> /\ inbox' = Tail(inbox) /\ UNCHANGED <<record, started, want>>
  BY DEF OnCreate, OnStart, OnStopOrDestroy, Message
<1>2. /\ Len(inbox) \in Nat \ {0} /\ Head(inbox) = inbox[1] /\ Len(inbox') = Len(inbox) - 1
      /\ \A i \in 1..Len(inbox') : inbox'[i] = inbox[i + 1]
  BY <1>1, QueueTail DEF TypeOK, Messages
<1>3. \A i \in 1..Len(inbox') : i + 1 \in 1..Len(inbox)
  BY <1>2
<1>4. ASSUME NEW j \in 1..Len(inbox), j > 1
      PROVE  j - 1 \in 1..Len(inbox') /\ inbox'[j - 1] = inbox[j]
  <2>1. j - 1 \in 1..Len(inbox') /\ (j - 1) + 1 = j
    BY <1>2, <1>4
  <2> QED
    BY <1>2, <2>1
<1> QED
  BY <1>1, <1>2, <1>3, <1>4

LEMMA BehindNext ==
    ASSUME BaseInv, AnewInv, "behind" \notin blame => BehindInv, Next, "behind" \notin blame'
    PROVE  BehindInv'
<1> SUFFICES ASSUME Anew', want' = "start" PROVE BehindInv'
  BY DEF BehindInv
<1> USE DEF Goto, systemVars, serviceVars, threadVars
<1>1. TypeOK /\ "main" \in Threads /\ "binder" \in Threads
  BY DEF BaseInv, Threads
<1>2. ASSUME NEW c \in {"start", "stop"}, Request(c)
      PROVE  BehindInv'
  BY <1>2, RequestNotBehind
<1>3. CASE OnCreate \/ OnStart \/ OnStopOrDestroy
  <2>1. "behind" \notin blame
    BY <1>3 DEF OnCreate, OnStart, OnStopOrDestroy, Overlaps
  <2>2. /\ want' = want /\ Len(inbox) \in Nat
        /\ \A i \in 1..Len(inbox') : i + 1 \in 1..Len(inbox) /\ inbox'[i] = inbox[i + 1]
        /\ \A j \in 1..Len(inbox) : j > 1 => j - 1 \in 1..Len(inbox') /\ inbox'[j - 1] = inbox[j]
    BY <1>1, <1>3, Taken
  <2>3. Anew
    BY <2>2 DEF Anew
  <2>4. ASSUME NEW i \in 1..Len(inbox'), Ends(i)'
        PROVE  \E j \in 1..Len(inbox') : j > i /\ inbox'[j] = "create"
    <3>1. PICK j \in 1..Len(inbox) : j > i + 1 /\ inbox[j] = "create"
      BY <2>1, <2>2, <2>3, <2>4 DEF BehindInv, Ends
    <3>2. j > 1 /\ j - 1 > i
      BY <2>2, <3>1
    <3> QED
      BY <2>2, <3>1, <3>2
  <2> QED
    BY <2>4 DEF BehindInv
<1>4. ASSUME OnRevoke \/ Unbind \/ \E t \in Threads : StopTunnel(t) /\ ~Crash
      PROVE  BehindInv'
  <2>1. want' = want /\ inbox' = inbox
    BY <1>1, <1>4, SystemBringsDown, AnewBringDown
  <2>2. "behind" \notin blame
    BY <1>4 DEF OnRevoke, Unbind, Overlaps, StopTunnel, ReadVpn, Shutdown, ClosePfd, NullVpn, Release,
       NullWakeLock, Finish
  <2> QED
    BY <2>1, <2>2 DEF BehindInv, Anew, Ends
<1>5. CASE Crash
  BY <1>5 DEF Crash
<1>6. ASSUME StartTunnel \/ \E i \in Tunnels : (Worker(i) \/ WorkerFails(i)) /\ ~Crash
      PROVE  BehindInv'
  <2>1. UNCHANGED <<inbox, want>>
    BY <1>6 DEF StartTunnel, Establish, KeepVpn, NewWakeLock, Acquire, Spawn, Worker, WorkerFd,
       WorkerRun, WorkerStops, WorkerFails, RunEnds
  <2>2. "behind" \notin blame
    BY <1>6 DEF StartTunnel, Establish, KeepVpn, NewWakeLock, Acquire, Spawn, Fails, Blame, Worker,
       WorkerFd, WorkerRun, WorkerStops, WorkerFails, RunEnds, Over
  <2> QED
    BY <2>1, <2>2 DEF BehindInv, Anew, Ends
<1> QED
  BY <1>1, <1>2, <1>3, <1>4, <1>5, <1>6 DEF Next, Main

\* The creation of a service at the head of the queue leads to the start behind it.
LEMMA StartCreated ==
    ASSUME BaseInv, AnewInv, BehindInv, OnCreate
    PROVE  StartInv'
<1> SUFFICES ASSUME want' = "start", ~Anew' PROVE StartInv'
  BY DEF StartInv
<1>1. TypeOK /\ "main" \in Threads
  BY DEF BaseInv, Threads
<1>2. /\ UNCHANGED <<record, started, want>> /\ Len(inbox) \in Nat \ {0} /\ Len(inbox') = Len(inbox) - 1
      /\ \A i \in 1..Len(inbox') : i + 1 \in 1..Len(inbox) /\ inbox'[i] = inbox[i + 1]
      /\ \A j \in 1..Len(inbox) : j > 1 => j - 1 \in 1..Len(inbox') /\ inbox'[j - 1] = inbox[j]
      /\ inbox[1] = "create" /\ 1 \in 1..Len(inbox)
  BY <1>1, Taken DEF OnCreate, Message
<1>3. Anew
  BY <1>2 DEF Anew
<1>4. started' /\ record' /\ inbox[Len(inbox)] = "start"
  BY <1>2, <1>3 DEF AnewInv
<1>5. Len(inbox') # 0 /\ Len(inbox') \in 1..Len(inbox') /\ Len(inbox') + 1 = Len(inbox)
  <2>1. Len(inbox) # 1
    BY <1>2, <1>4
  <2> QED
    BY <1>2, <2>1
<1>6. inbox' # <<>> /\ inbox'[Len(inbox')] = "start"
  BY <1>2, <1>4, <1>5
<1>7. \A i \in 1..Len(inbox') : ~Ends(i)'
  <2> SUFFICES ASSUME NEW i \in 1..Len(inbox'), Ends(i)' PROVE FALSE
    OBVIOUS
  <2>1. PICK j \in 1..Len(inbox) : j > i + 1 /\ inbox[j] = "create"
    BY <1>2, <1>3 DEF BehindInv, Ends
  <2>2. j > 1
    BY <1>2, <2>1
  <2> QED
    BY <1>2, <2>1, <2>2 DEF Anew
<1>8. ~Stopping("main")'
  BY DEF OnCreate, Message, Idle, threadVars, Stopping
<1> QED
  BY <1>4, <1>6, <1>7, <1>8 DEF StartInv

\* Of what waits neither changes, nor what the main thread does for a tunnel, but for the better.
LEMMA StartSame ==
    ASSUME StartInv, UNCHANGED <<inbox, want, record, started>>,
           ~Stopping("main") => ~Stopping("main")',
           vpn # None \/ pc["main"] \in {"establish", "keep"} =>
               Stopping("main") \/ vpn' # None \/ pc'["main"] \in {"establish", "keep"}
    PROVE  StartInv'
  BY DEF StartInv, Anew, Ends

\* An order at work is not one to stop as long as a start came last.
LEMMA StartNotEnding ==
    ASSUME BaseInv, AnewInv, StartInv, want = "start", pc["main"] = "destroyed" \/ Stopping("main")
    PROVE  Anew
<1>1. TypeOK /\ LocalInv /\ InboxInv /\ "main" \in Threads
  BY DEF BaseInv, Threads
<1>2. CASE pc["main"] = "destroyed"
  <2>1. ~Current
    BY <1>1, <1>2 DEF LocalInv, Current
  <2> QED
    BY <1>1, <2>1, Serving DEF StartInv
<1>3. CASE Stopping("main")
  BY <1>3 DEF StartInv
<1> QED
  BY <1>2, <1>3

LEMMA StartMessage ==
    ASSUME BaseInv, StartInv, OnStart \/ OnStopOrDestroy, "trouble" \notin blame'
    PROVE  StartInv'
<1> USE DEF Goto, Message, Idle, systemVars, serviceVars, threadVars
<1> SUFFICES ASSUME want' = "start", ~Anew' PROVE StartInv'
  BY DEF StartInv
<1>1. TypeOK /\ "main" \in Threads
  BY DEF BaseInv, Threads
<1>2. /\ UNCHANGED <<record, started, want>> /\ Len(inbox) \in Nat \ {0} /\ Len(inbox') = Len(inbox) - 1
      /\ \A i \in 1..Len(inbox') : i + 1 \in 1..Len(inbox) /\ inbox'[i] = inbox[i + 1]
      /\ \A j \in 1..Len(inbox) : j > 1 => j - 1 \in 1..Len(inbox') /\ inbox'[j - 1] = inbox[j]
      /\ inbox[1] = Head(inbox) /\ 1 \in 1..Len(inbox) /\ inbox # <<>>
  BY <1>1, Taken
<1>3. inbox[1] # "create"
  BY <1>2 DEF OnStart, OnStopOrDestroy
<1>4. ~Anew
  <2> SUFFICES ASSUME NEW j \in 1..Len(inbox), inbox[j] = "create" PROVE FALSE
    BY DEF Anew
  <2>1. j > 1
    BY <1>2, <1>3
  <2> QED
    BY <1>2, <2>1 DEF Anew
<1>5. /\ started /\ record /\ inbox[Len(inbox)] = "start"
      /\ \A i \in 1..Len(inbox) : ~Ends(i)
  BY <1>2, <1>4 DEF StartInv
<1>6. Head(inbox) \notin {"stop", "destroy"}
  BY <1>2, <1>5 DEF Ends
<1>7. /\ pc'["main"] \in {"idle", "establish"}
      /\ vpn' # None \/ pc'["main"] = "establish"
  BY <1>1, <1>6 DEF OnStart, OnStopOrDestroy, TypeOK
<1>8. \A i \in 1..Len(inbox') : ~Ends(i)'
  BY <1>2, <1>5 DEF Ends
<1>9. inbox' # <<>> => inbox'[Len(inbox')] = "start"
  <2> SUFFICES ASSUME inbox' # <<>> PROVE inbox'[Len(inbox')] = "start"
    OBVIOUS
  <2>1. inbox' \in Seq(Messages)
    BY <1>1, <1>2, QueueTail, Taken DEF TypeOK, Messages
  <2>2. Len(inbox') # 0
    BY <2>1, EmptySeq
  <2>3. Len(inbox') \in 1..Len(inbox') /\ Len(inbox') + 1 = Len(inbox)
    BY <1>2, <2>2
  <2> QED
    BY <1>2, <1>5, <2>3
<1> QED
  BY <1>2, <1>5, <1>7, <1>8, <1>9 DEF StartInv, Stopping

LEMMA StartNext ==
    ASSUME BaseInv, AnewInv, "behind" \notin blame => BehindInv, blame \subseteq {"late"} => StartInv,
           Next, blame' \subseteq {"late"}
    PROVE  StartInv'
<1> SUFFICES ASSUME want' = "start", ~Anew' PROVE StartInv'
  BY DEF StartInv
<1> USE DEF Goto, Idle, systemVars, serviceVars, threadVars
<1>1. TypeOK /\ LocalInv /\ InboxInv /\ "main" \in Threads /\ "binder" \in Threads
  BY DEF BaseInv, Threads
<1>2. ASSUME NEW c \in {"start", "stop"}, Request(c)
      PROVE  StartInv'
  BY <1>2, RequestNotBehind
<1>3. CASE OnCreate
  <2>1. BehindInv
    BY <1>3 DEF OnCreate
  <2> QED
    BY <1>3, <2>1, StartCreated
<1>4. CASE OnStart \/ OnStopOrDestroy
  <2>1. StartInv /\ "trouble" \notin blame'
    BY <1>4 DEF OnStart, OnStopOrDestroy, Overlaps
  <2> QED
    BY <1>4, <2>1, StartMessage
<1>5. CASE OnRevoke
  BY <1>5 DEF OnRevoke
<1>6. CASE Unbind
  <2>1. StartInv
    BY <1>6 DEF Unbind
  <2>2. ~(BringDown /\ ~started)
    <3>1. want = "start"
      BY <1>6 DEF Unbind
    <3> QED
      BY <2>1, <3>1 DEF AnewInv, StartInv
  <2>3. UNCHANGED <<inbox, record, started, want, vpn, pc>>
    BY <1>6, <2>2 DEF Unbind
  <2> QED
    BY <2>1, <2>3, StartSame DEF Stopping
<1>7. CASE StartTunnel
  <2>1. StartInv
    BY <1>7 DEF StartTunnel, Establish, KeepVpn, NewWakeLock, Acquire, Spawn, Fails, Blame
  <2>2. UNCHANGED <<inbox, record, started, want>>
    BY <1>7 DEF StartTunnel, Establish, KeepVpn, NewWakeLock, Acquire, Spawn
  <2>3. CASE Establish
    <3>1. pc'["main"] = "keep"
      BY <1>1, <2>3 DEF Establish, Fails, Blame, TypeOK
    <3> QED
      BY <2>1, <2>2, <3>1, StartSame DEF Stopping
  <2>4. CASE KeepVpn
    <3>1. pc'["main"] = "lock" /\ vpn' # None
      BY <1>1, <2>4 DEF KeepVpn, LocalInv, TypeOK, Starting
    <3> QED
      BY <2>1, <2>2, <3>1, StartSame DEF Stopping
  <2>5. CASE NewWakeLock \/ Acquire \/ Spawn
    <3>1. /\ pc["main"] \notin {"establish", "keep"} /\ vpn' = vpn
          /\ pc'["main"] \in {"acquire", "spawn", "idle"}
      BY <1>1, <2>5 DEF NewWakeLock, Acquire, Spawn, Fails, Blame, TypeOK
    <3> QED
      BY <2>1, <2>2, <3>1, StartSame DEF Stopping
  <2> QED
    BY <1>7, <2>3, <2>4, <2>5 DEF StartTunnel
<1>8. CASE Crash
  BY <1>8 DEF Crash
<1>9. ASSUME NEW t \in Threads, StopTunnel(t), ~Crash
      PROVE  StartInv'
  <2>0. blame \subseteq blame'
    BY <1>9 DEF StopTunnel, ReadVpn, Shutdown, ClosePfd, NullVpn, Release, NullWakeLock, Finish
  <2>1. StartInv /\ "trouble" \notin blame
    BY <2>0
  <2>2. t = "main"
    BY <1>9, <2>1, <1>1 DEF StopTunnel, ReadVpn, Shutdown, ClosePfd, NullVpn, Release, NullWakeLock,
       Finish, LocalInv, Threads
  <2>3. pc["main"] = "destroyed" \/ Stopping("main")
    BY <1>9, <2>2 DEF StopTunnel, ReadVpn, Shutdown, ClosePfd, NullVpn, Release, NullWakeLock,
       Finish, Stopping
  <2>4. want' = want /\ (inbox' = inbox \/ ~Anew)
    BY <1>1, <1>9, SystemBringsDown
  <2>5. Anew
    BY <2>1, <2>3, <2>4, StartNotEnding
  <2> QED
    BY <2>4, <2>5 DEF Anew
<1>10. ASSUME NEW i \in Tunnels, Worker(i) \/ WorkerFails(i), ~Crash
       PROVE  StartInv'
  <2>1. UNCHANGED <<inbox, want, record, started, vpn, pc>>
    BY <1>10 DEF Worker, WorkerFd, WorkerRun, WorkerStops, WorkerFails, RunEnds
  <2>2. StartInv
    BY <1>10 DEF Worker, WorkerFd, WorkerRun, WorkerStops, WorkerFails, RunEnds, Over
  <2> QED
    BY <2>1, <2>2, StartSame DEF Stopping
<1> QED
  BY <1>1, <1>2, <1>3, <1>4, <1>5, <1>6, <1>7, <1>8, <1>9, <1>10 DEF Next, Main

-----------------------------------------------------------------------------
(***************************************************************************)
(* The invariant of the service, and the properties that follow from it.   *)
(***************************************************************************)
VpnInv ==
    /\ BaseInv /\ WorkerInv /\ CrashInv /\ StopInv /\ AnewInv
    /\ "overlap" \notin blame => WholeInv
    /\ InTime => DescInv
    /\ "behind" \notin blame => BehindInv
    /\ blame \subseteq {"late"} => StartInv

LEMMA VpnInit == Init => VpnInv
<1> SUFFICES ASSUME Init PROVE VpnInv
  OBVIOUS
<1>1. "main" \in Threads /\ \A t \in Threads : pc[t] = "idle"
  BY DEF Init, Threads
<1>2. WorkerInv /\ CrashInv /\ DescInv
  BY <1>1 DEF Init, WorkerInv, Starting, CrashInv, DescInv, Begun
<1>3. StopInv /\ AnewInv /\ BehindInv /\ StartInv
  BY <1>1 DEF Init, StopInv, AnewInv, Anew, BehindInv, StartInv
<1>4. WholeInv
  BY <1>1 DEF Init, WholeInv, Alone, Shape, Idle
<1> QED
  BY <1>2, <1>3, <1>4, BaseInit DEF VpnInv

LEMMA VpnNext == VpnInv /\ [Next]_vars => VpnInv'
<1> SUFFICES ASSUME VpnInv, [Next]_vars PROVE VpnInv'
  OBVIOUS
<1>1. BaseInv'
  BY BaseNext DEF VpnInv
<1>2. CASE Next
  <2>1. WorkerInv' /\ CrashInv'
    BY <1>2, WorkerNext, CrashNext DEF VpnInv, BaseInv
  <2>2. StopInv' /\ AnewInv'
    BY <1>2, StopNext, AnewNext DEF VpnInv
  <2>3. "overlap" \notin blame' => WholeInv'
    BY <1>2, WholeNext DEF VpnInv
  <2>4. InTime' => DescInv'
    BY <1>2, DescNext DEF VpnInv
  <2>5. "behind" \notin blame' => BehindInv'
    BY <1>2, BehindNext DEF VpnInv
  <2>6. blame' \subseteq {"late"} => StartInv'
    BY <1>2, StartNext DEF VpnInv
  <2> QED
    BY <1>1, <2>1, <2>2, <2>3, <2>4, <2>5, <2>6 DEF VpnInv
<1>3. CASE UNCHANGED vars
  <2>1. UNCHANGED <<record, started, bound, inbox, alive, vpn, wakeLock, open, held, pc, pfd,
                    after, worker, engine, quit, want, blame>>
    BY <1>3 DEF vars, systemVars, serviceVars, resources, threadVars, engineVars
  <2>2. WorkerInv' /\ CrashInv' /\ (InTime' => DescInv')
    BY <2>1 DEF VpnInv, WorkerInv, CrashInv, Ended, Idle, InTime, DescInv, Begun
  <2>3. "overlap" \notin blame' => WholeInv'
    BY <2>1 DEF VpnInv, WholeInv, Alone, Shape, Parts, Idle
  <2>4. StopInv' /\ AnewInv' /\ ("behind" \notin blame' => BehindInv')
    BY <2>1 DEF VpnInv, StopInv, AnewInv, Anew, Ends, BehindInv
  <2>5. blame' \subseteq {"late"} => StartInv'
    BY <2>1 DEF VpnInv, StartInv, Anew, Ends, Stopping
  <2> QED
    BY <1>1, <2>1, <2>2, <2>3, <2>4, <2>5 DEF VpnInv
<1> QED
  BY <1>2, <1>3

LEMMA VpnInvariant == Spec => []VpnInv
  BY VpnInit, VpnNext, PTL DEF Spec

\* Nothing of a tunnel outlives its service, and no tunnel is left in parts, as long as no
\* two threads overlapped (lines 140-145, 168-183).
THEOREM ResourcesWholeHolds == Spec => []ResourcesWhole
<1>1. VpnInv => ResourcesWhole
  <2> SUFFICES ASSUME VpnInv, Settled, "overlap" \notin blame
               PROVE  /\ open = {vpn} \ {None} /\ held = open /\ wakeLock = vpn
                      /\ ~alive => open = {} /\ held = {}
    BY DEF ResourcesWhole, NothingLeft, TunnelIsWhole
  <2>1. WholeInv /\ "main" \in Threads /\ \A t \in Threads : Idle(t)
    BY DEF VpnInv, Settled, Threads
  <2>2. Alone("main")
    BY <2>1, OneAtWork
  <2> QED
    BY <2>1, <2>2 DEF Alone, Shape, Idle, WholeInv
<1> QED
  BY <1>1, VpnInvariant, PTL

\* A thread that works on a closed descriptor, or releases a wake lock twice, lost one of the
\* races that the property names (lines 153, 171-180).
THEOREM DescriptorInUseHolds == Spec => []DescriptorInUse
<1>1. VpnInv => DescriptorInUse
  BY DEF VpnInv, CrashInv, InTime, DescInv, DescriptorInUse, CrashNeedsRace, EngineHasDescriptor
<1> QED
  BY <1>1, VpnInvariant, PTL

\* Once the commands are handled there is a tunnel if a start came last, and none if a stop
\* did (lines 31-78).
THEOREM TunnelAsAskedHolds == Spec => []TunnelAsAsked
<1>1. VpnInv => TunnelAsAsked
  <2> SUFFICES ASSUME VpnInv, Settled, blame = {} PROVE want = "start" <=> vpn # None
    BY DEF TunnelAsAsked
  <2>1. inbox = <<>> /\ pc["main"] = "idle" /\ want \in {"start", "stop"}
    BY DEF VpnInv, BaseInv, TypeOK, Settled, Idle, Threads
  <2>2. ~Anew /\ ~\E j \in 1..Len(inbox) : Ends(j)
    BY <2>1 DEF Anew
  <2>3. want = "start" => vpn # None
    BY <2>1, <2>2 DEF VpnInv, StartInv
  <2>4. want = "stop" => vpn = None
    BY <2>1, <2>2 DEF VpnInv, StopInv, StopWork
  <2> QED
    BY <2>1, <2>3, <2>4
<1> QED
  BY <1>1, VpnInvariant, PTL

================================================================================
