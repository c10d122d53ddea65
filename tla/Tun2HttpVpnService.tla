-------------------------- MODULE Tun2HttpVpnService --------------------------
(***************************************************************************)
(* Tun2HttpVpnService.kt: the service that owns the VPN's descriptor, its  *)
(* wake lock and the thread that runs tun2proxy on it.  Commands wait in   *)
(* the queue of the main thread; onRevoke runs on a binder thread; the     *)
(* tun2proxy thread evaluates the descriptor when it gets to run.  The     *)
(* fields are not synchronised, so that each access is a step.             *)
(*                                                                         *)
(* Android is modelled from the use the code makes of it: a service lives  *)
(* as long as it is started, until stopSelf, or bound, which the system    *)
(* does while the VPN interface exists.  tun2proxy (a binary library) runs *)
(* one instance at most, and its stop() is for the one that runs.          *)
(***************************************************************************)
EXTENDS Naturals, Sequences, FiniteSets, SequencesExt

CONSTANTS
    Tunnels,      \* results of establish(); bounds those still referred to
    None,         \* null
    MaxInbox,     \* bound: messages waiting for the main thread
    CallsMayFail, \* establish() fails, permission is missing, tun2proxy exits
    MayRevoke     \* the user or another application revokes the VPN

ASSUME TunnelsAssumption == None \notin Tunnels /\ IsFiniteSet(Tunnels)
ASSUME BoundAssumption == MaxInbox \in Nat
ASSUME SwitchesAssumption == CallsMayFail \in BOOLEAN /\ MayRevoke \in BOOLEAN

Threads == {"main", "binder"}

VARIABLES
    record, started, bound,  \* what the system knows of the service
    inbox,                   \* messages of the main thread
    alive,                   \* the instance was created and not destroyed
    vpn, wakeLock,           \* its fields
    open, held,              \* descriptors that are open, wake locks that are held
    pc, pfd, after,          \* per thread: position, local pfd, what follows stopTunnel
    worker,                  \* the tun2proxy thread of each tunnel
    engine, quit,            \* the descriptor tun2proxy works on; stop() was called
    want,                    \* the last command
    blame                    \* what happened so far that properties make exception for

systemVars  == <<record, started, bound, inbox>>
serviceVars == <<alive, vpn, wakeLock>>
resources   == <<open, held>>
threadVars  == <<pc, pfd, after>>
engineVars  == <<worker, engine, quit>>
vars == <<systemVars, serviceVars, resources, threadVars, engineVars, want, blame>>

Idle(t)     == pc[t] = "idle"
Goto(t, at) == pc' = [pc EXCEPT ![t] = at]
Blame(what) == blame' = blame \cup {what}

\* The thread is in stopTunnel, or in the stopSelf that follows it
Stopping(t) == pc[t] \in {"stop", "shutdown", "close", "null", "release", "unlock", "stopself"}

\* A thread begins; two of them are inside startTunnel or stopTunnel
Overlaps(other) == blame \cup IF Idle(other) THEN {} ELSE {"overlap"}

Init ==
    /\ record = FALSE /\ started = FALSE /\ bound = FALSE /\ inbox = <<>>
    /\ alive = FALSE /\ vpn = None /\ wakeLock = None
    /\ open = {} /\ held = {}
    /\ pc = [t \in Threads |-> "idle"] /\ pfd = [t \in Threads |-> None]
    /\ after = [t \in Threads |-> "stopself"]
    /\ worker = [i \in Tunnels |-> "none"] /\ engine = None /\ quit = FALSE
    /\ want = "stop" /\ blame = {}

\* Operators marked "mutant" stand for a plausible mistake in the definition that
\* follows them; the specification does not use them.

-----------------------------------------------------------------------------
(***************************************************************************)
(* The system: commands, stopSelf, binding.                                *)
(***************************************************************************)
\* A stop is queued or being handled whose stopSelf will hit a start behind it
StopPending ==
    record /\ (Contains(inbox, "stop") \/ (Stopping("main") /\ after["main"] = "stopself"))

\* start() and stop() of the companion object, lines 31-45.  Bound: the
\* properties promise nothing once two threads overlapped, and only a stop follows.
Request(c) ==
    /\ Len(inbox) + 2 <= MaxInbox
    /\ "overlap" \in blame => c = "stop" /\ inbox = <<>>
    /\ inbox' = inbox \o (IF record THEN <<c>> ELSE <<"create", c>>)
    /\ record' = TRUE /\ started' = TRUE /\ want' = c
    /\ blame' = IF c = "stop" THEN blame
                ELSE IF StopPending THEN blame \cup {"behind"} ELSE blame \ {"behind"}
    /\ UNCHANGED <<bound, serviceVars, resources, threadVars, engineVars>>

BringDown == record' = FALSE /\ inbox' = Append(inbox, "destroy")

\* Without effect when the instance that calls it is not the one of the record
StopSelf ==
    IF Contains(inbox, "create") THEN UNCHANGED <<record, started, inbox>>
    ELSE /\ started' = FALSE
         /\ IF record /\ ~bound THEN BringDown ELSE UNCHANGED <<record, inbox>>

\* The interface is gone some time after its descriptor was closed
Unbind ==
    /\ bound /\ open = {} /\ bound' = FALSE
    /\ IF record /\ ~started THEN BringDown ELSE UNCHANGED <<record, inbox>>
    /\ UNCHANGED <<started, serviceVars, resources, threadVars, engineVars, want, blame>>

-----------------------------------------------------------------------------
(***************************************************************************)
(* Messages of the main thread.                                            *)
(***************************************************************************)
Message(m) ==
    /\ Idle("main") /\ inbox # <<>> /\ Head(inbox) = m
    /\ inbox' = Tail(inbox)
    /\ UNCHANGED <<record, started, bound, resources, engineVars, want>>

\* Nothing is left of the instance before
Ended == open = {} /\ held = {} /\ engine = None /\ \A i \in Tunnels : worker[i] = "none"

\* The next instance is created when the last revocation was handled
OnCreate ==
    /\ Message("create") /\ Idle("binder")
    /\ alive' = TRUE /\ vpn' = None /\ wakeLock' = None
    /\ blame' = IF Ended THEN blame \cap {"behind"} ELSE blame
    /\ UNCHANGED threadVars

\* Lines 56-65
OnStart ==
    /\ Message("start")
    /\ \/ vpn # None /\ UNCHANGED <<threadVars, blame>>
       \/ vpn = None /\ Goto("main", "establish")
          /\ blame' = Overlaps("binder") /\ UNCHANGED <<pfd, after>>
       \/ vpn = None /\ CallsMayFail
          /\ Goto("main", "stopself")
          /\ after' = [after EXCEPT !["main"] = "stopself"]
          /\ blame' = Overlaps("binder") \cup {"trouble"} /\ UNCHANGED pfd
    /\ UNCHANGED serviceVars

StopLeavesTunnel ==                                                 \* mutant
    /\ \/ Message("stop") /\ after' = [after EXCEPT !["main"] = "stopself"]
          /\ Goto("main", "stopself")
       \/ Message("destroy") /\ after' = [after EXCEPT !["main"] = "destroyed"]
          /\ Goto("main", "stop")
    /\ blame' = Overlaps("binder")
    /\ UNCHANGED <<serviceVars, pfd>>

\* Lines 66-69 and 74-78
OnStopOrDestroy ==
    /\ \/ Message("stop") /\ after' = [after EXCEPT !["main"] = "stopself"]
       \/ Message("destroy") /\ after' = [after EXCEPT !["main"] = "destroyed"]
    /\ Goto("main", "stop") /\ blame' = Overlaps("binder")
    /\ UNCHANGED <<serviceVars, pfd>>

\* Lines 80-85, on a binder thread.  Revoking unbinds the service.
OnRevoke ==
    /\ MayRevoke /\ bound /\ alive /\ Idle("binder")
    /\ Goto("binder", "stop")
    /\ after' = [after EXCEPT !["binder"] = "stopself"]
    /\ bound' = FALSE
    /\ IF record /\ ~started THEN BringDown ELSE UNCHANGED <<record, inbox>>
    /\ blame' = Overlaps("main") \cup {"trouble"}
    /\ UNCHANGED <<started, serviceVars, resources, pfd, engineVars, want>>

-----------------------------------------------------------------------------
(***************************************************************************)
(* startTunnel, on the main thread.                                        *)
(***************************************************************************)
Unused == {i \in Tunnels :
             /\ i \notin open \cup held \cup {vpn, wakeLock, engine, pfd["binder"]}
             /\ worker[i] = "none"}

FailsUncaught ==                                                    \* mutant
    Goto("main", "thrown") /\ UNCHANGED after /\ Blame("trouble")

\* An exception leads to stopTunnel and stopSelf
Fails ==
    /\ Goto("main", "stop") /\ after' = [after EXCEPT !["main"] = "stopself"]
    /\ Blame("trouble")

Establish ==
    /\ pc["main"] = "establish"
    /\ \/ \E i \in Unused :
            /\ open' = open \cup {i} /\ bound' = TRUE
            /\ pfd' = [pfd EXCEPT !["main"] = i]
            /\ Goto("main", "keep")
            /\ UNCHANGED <<after, blame>>
       \/ /\ CallsMayFail \/ Unused = {}
          /\ Fails
          /\ UNCHANGED <<open, bound, pfd>>
    /\ UNCHANGED <<record, started, inbox, serviceVars, held, engineVars, want>>

\* Line 140
KeepVpn ==
    /\ pc["main"] = "keep" /\ Goto("main", "lock")
    /\ vpn' = pfd["main"]
    /\ UNCHANGED <<systemVars, alive, wakeLock, resources, pfd, after, engineVars, want, blame>>

\* Line 144
NewWakeLock ==
    /\ pc["main"] = "lock" /\ Goto("main", "acquire")
    /\ wakeLock' = pfd["main"]
    /\ UNCHANGED <<systemVars, alive, vpn, resources, pfd, after, engineVars, want, blame>>

\* Line 145: the field is read again
Acquire ==
    /\ pc["main"] = "acquire" /\ Goto("main", "spawn")
    /\ held' = IF wakeLock = None THEN held ELSE held \cup {wakeLock}
    /\ UNCHANGED <<systemVars, serviceVars, open, pfd, after, engineVars, want, blame>>

ThreadNotStarted ==                                                 \* mutant
    /\ pc["main"] = "spawn" /\ Goto("main", "idle")
    /\ pfd' = [pfd EXCEPT !["main"] = None]
    /\ UNCHANGED <<systemVars, serviceVars, resources, after, engineVars, want, blame>>

\* Lines 148-160: pfd.fd throws when it was closed
Spawn ==
    /\ pc["main"] = "spawn"
    /\ IF pfd["main"] \in open
       THEN /\ worker' = [worker EXCEPT ![pfd["main"]] = "spawned"]
            /\ Goto("main", "idle")
            /\ UNCHANGED <<after, blame>>
       ELSE Fails /\ UNCHANGED worker
    /\ pfd' = [pfd EXCEPT !["main"] = None]
    /\ UNCHANGED <<systemVars, serviceVars, resources, engine, quit, want>>

StartTunnel == Establish \/ KeepVpn \/ NewWakeLock \/ Acquire \/ Spawn

-----------------------------------------------------------------------------
(***************************************************************************)
(* stopTunnel and what follows it, on either thread.                       *)
(***************************************************************************)
\* The process dies with all it holds; START_NOT_STICKY, nothing is restarted
Crash ==
    /\ record' = FALSE /\ started' = FALSE /\ bound' = FALSE /\ inbox' = <<>>
    /\ alive' = FALSE /\ vpn' = None /\ wakeLock' = None
    /\ open' = {} /\ held' = {}
    /\ pc' = [t \in Threads |-> "idle"] /\ pfd' = [t \in Threads |-> None]
    /\ after' = [t \in Threads |-> "stopself"]
    /\ worker' = [i \in Tunnels |-> "none"] /\ engine' = None /\ quit' = FALSE
    /\ want' = "stop" /\ blame' = (blame \ {"behind", "trouble"}) \cup {"crash"}

ReadVpn(t) ==
    /\ pc[t] = "stop"
    /\ pfd' = [pfd EXCEPT ![t] = vpn]
    /\ Goto(t, IF vpn = None THEN "release" ELSE "shutdown")
    /\ UNCHANGED <<systemVars, serviceVars, resources, after, engineVars, want, blame>>

ShutdownForgotten(t) ==                                             \* mutant
    /\ pc[t] = "shutdown" /\ Goto(t, "close")
    /\ UNCHANGED <<systemVars, serviceVars, resources, pfd, after, engineVars, want, blame>>

\* Line 171; nothing to stop when the thread did not come to run yet
Shutdown(t) ==
    /\ pc[t] = "shutdown" /\ Goto(t, "close")
    /\ quit' = (quit \/ engine # None)
    /\ blame' = IF worker[pfd[t]] \in {"spawned", "ready"} THEN blame \cup {"late"} ELSE blame
    /\ UNCHANGED <<systemVars, serviceVars, resources, pfd, after, worker, engine, want>>

CloseForgotten(t) ==                                                \* mutant
    /\ pc[t] = "close" /\ Goto(t, "null")
    /\ UNCHANGED <<systemVars, serviceVars, resources, pfd, after, engineVars, want, blame>>

ClosePfd(t) ==
    /\ pc[t] = "close" /\ Goto(t, "null")
    /\ open' = open \ {pfd[t]}
    /\ UNCHANGED <<systemVars, serviceVars, held, pfd, after, engineVars, want, blame>>

VpnKept(t) ==                                                       \* mutant
    /\ pc[t] = "null" /\ Goto(t, "release")
    /\ pfd' = [pfd EXCEPT ![t] = None]
    /\ UNCHANGED <<systemVars, serviceVars, resources, after, engineVars, want, blame>>

NullVpn(t) ==
    /\ pc[t] = "null" /\ Goto(t, "release")
    /\ vpn' = None /\ pfd' = [pfd EXCEPT ![t] = None]
    /\ UNCHANGED <<systemVars, alive, wakeLock, resources, after, engineVars, want, blame>>

\* Line 180.  Releasing a lock that is not held throws: on the main thread the
\* process dies, the binder swallows the exception and onRevoke ends there.
Release(t) ==
    /\ pc[t] = "release"
    /\ \/ /\ wakeLock \in held \cup {None} /\ Goto(t, "unlock")
          /\ held' = held \ {wakeLock}
          /\ UNCHANGED <<systemVars, serviceVars, open, pfd, after, engineVars, want, blame>>
       \/ /\ wakeLock \notin held \cup {None} /\ t = "binder" /\ Goto(t, "idle")
          /\ UNCHANGED <<systemVars, serviceVars, resources, pfd, after, engineVars, want, blame>>
       \/ wakeLock \notin held \cup {None} /\ t = "main" /\ Crash

ReleasedKept(t) ==                                                  \* mutant
    /\ pc[t] = "unlock" /\ Goto(t, after[t])
    /\ UNCHANGED <<systemVars, serviceVars, resources, pfd, after, engineVars, want, blame>>

NullWakeLock(t) ==
    /\ pc[t] = "unlock" /\ Goto(t, after[t])
    /\ wakeLock' = None
    /\ UNCHANGED <<systemVars, alive, vpn, resources, pfd, after, engineVars, want, blame>>

\* stopSelf of a command or of onRevoke, or the end of onDestroy
Finish(t) ==
    /\ pc[t] \in {"stopself", "destroyed"} /\ Goto(t, "idle")
    /\ after' = [after EXCEPT ![t] = "stopself"]
    /\ IF pc[t] = "stopself" THEN StopSelf /\ UNCHANGED alive
       ELSE alive' = FALSE /\ UNCHANGED <<record, started, inbox>>
    /\ UNCHANGED <<bound, vpn, wakeLock, resources, pfd, engineVars, want, blame>>

StopTunnel(t) == ReadVpn(t) \/ Shutdown(t) \/ ClosePfd(t) \/ NullVpn(t)
                 \/ Release(t) \/ NullWakeLock(t) \/ Finish(t)

-----------------------------------------------------------------------------
(***************************************************************************)
(* The tun2proxy threads.                                                  *)
(***************************************************************************)
\* Line 153: the thread evaluates pfd.fd
WorkerFd(i) ==
    /\ worker[i] = "spawned"
    /\ IF i \in open
       THEN /\ worker' = [worker EXCEPT ![i] = "ready"]
            /\ UNCHANGED <<systemVars, serviceVars, resources, threadVars, engine, quit,
                           want, blame>>
       ELSE Crash

\* With the last thread ends what a late one can do
Over(i) == IF \A j \in Tunnels \ {i} : worker[j] = "none" THEN blame \ {"late"} ELSE blame

\* run() on a descriptor closed meanwhile fails, or works on a new tunnel that
\* got the same number; a second instance is refused
WorkerRun(i) ==
    /\ worker[i] = "ready"
    /\ \/ \E on \in IF i \in open THEN {i} ELSE open :
            /\ engine = None
            /\ engine' = on /\ worker' = [worker EXCEPT ![i] = "run"]
            /\ UNCHANGED blame
       \/ /\ engine # None \/ i \notin open
          /\ worker' = [worker EXCEPT ![i] = "none"]
          /\ blame' = Over(i) \cup IF i \in open THEN {"trouble"} ELSE {}
          /\ UNCHANGED engine
    /\ UNCHANGED <<systemVars, serviceVars, resources, threadVars, quit, want>>

RunEnds(i) ==
    /\ worker[i] = "run"
    /\ worker' = [worker EXCEPT ![i] = "none"] /\ engine' = None /\ quit' = FALSE
    /\ UNCHANGED <<systemVars, serviceVars, resources, threadVars, want>>

WorkerStops(i) == quit /\ RunEnds(i) /\ blame' = Over(i)
WorkerFails(i) == CallsMayFail /\ RunEnds(i) /\ blame' = Over(i) \cup {"trouble"}

Main == OnCreate \/ OnStart \/ OnStopOrDestroy \/ StartTunnel \/ StopTunnel("main")
Worker(i) == WorkerFd(i) \/ WorkerRun(i) \/ WorkerStops(i)

Next ==
    \/ \E c \in {"start", "stop"} : Request(c)
    \/ Main \/ OnRevoke \/ StopTunnel("binder") \/ Unbind
    \/ \E i \in Tunnels : Worker(i) \/ WorkerFails(i)

Spec == Init /\ [][Next]_vars

\* All threads are scheduled, and the system notices a closed interface
FairSpec == /\ Spec /\ WF_vars(Main) /\ WF_vars(StopTunnel("binder")) /\ WF_vars(Unbind)
            /\ \A i \in Tunnels : WF_vars(Worker(i))

-----------------------------------------------------------------------------
Settled == inbox = <<>> /\ \A t \in Threads : Idle(t)
Places  == {"idle", "establish", "keep", "lock", "acquire", "spawn", "stop", "shutdown",
            "close", "null", "release", "unlock", "stopself", "destroyed"}

\* Every variable has the type of the field, local or platform state it stands for.
TypeOK ==
    /\ record \in BOOLEAN /\ started \in BOOLEAN /\ bound \in BOOLEAN
    /\ inbox \in Seq({"create", "start", "stop", "destroy"})
    /\ alive \in BOOLEAN
    /\ vpn \in Tunnels \cup {None} /\ wakeLock \in Tunnels \cup {None}
    /\ open \in SUBSET Tunnels /\ held \in SUBSET Tunnels
    /\ pc \in [Threads -> Places] /\ pfd \in [Threads -> Tunnels \cup {None}]
    /\ after \in [Threads -> {"stopself", "destroyed"}]
    /\ worker \in [Tunnels -> {"none", "spawned", "ready", "run"}]
    /\ engine \in Tunnels \cup {None} /\ quit \in BOOLEAN
    /\ want \in {"start", "stop"}
    /\ blame \in SUBSET {"behind", "overlap", "late", "trouble", "crash"}

\* A destroyed service leaves no descriptor and no wake lock behind, unless a
\* revocation overlapped with the main thread.
NothingLeft ==
    ~alive /\ Settled /\ "overlap" \notin blame => open = {} /\ held = {}

\* The process dies only when a tunnel was closed before its thread got to the
\* descriptor (line 153), or when two threads released the wake lock (line 180).
CrashNeedsRace == "crash" \in blame => blame \cap {"late", "overlap"} # {}

\* tun2proxy works on a descriptor that is open until it is told to stop.
EngineHasDescriptor ==
    engine # None /\ ~quit /\ blame \cap {"late", "overlap"} = {} => engine \in open

\* Descriptor, wake lock and the field vpn go together once the commands are
\* handled: no start leads to a second tunnel, no stop leaves half of one.
TunnelIsWhole ==
    Settled /\ "overlap" \notin blame =>
        open = {vpn} \ {None} /\ held = open /\ wakeLock = vpn

\* Nothing of a tunnel outlives its service, and no tunnel is left in parts (lines 140-145,
\* 168-183).
ResourcesWhole == NothingLeft /\ TunnelIsWhole

\* The descriptor is in use exactly as long as it is open: a thread that runs on a closed
\* one, or releases a lock twice, needs a race that the properties name (lines 153, 171-180).
DescriptorInUse == CrashNeedsRace /\ EngineHasDescriptor

\* Once the commands are handled there is a tunnel if a start came last and none if a
\* stop did, except for a start that came behind a stop: that stop's stopSelf(), which
\* names no start id, ends the service all the same.
TunnelAsAsked == Settled /\ blame = {} => (want = "start" <=> vpn # None)

\* The order at work, then those that wait; a service that is destroyed stops first
AtWork == IF pc["main"] \in {"establish", "keep"} THEN <<"start">>
          ELSE IF pc["main"] \in {"stop", "shutdown", "close", "null"} THEN <<"stop">> ELSE <<>>
Order(m) == IF m = "destroy" THEN "stop" ELSE m
Waiting  == [i \in DOMAIN inbox |-> Order(inbox[i])]

Promise == INSTANCE VpnCommands WITH commands <- AtWork \o Waiting, tunnel <- vpn # None

\* Commands take effect in the order they were given, whatever happens in between: the field
\* vpn is set only by a start at its turn and is null after every stop, destruction and
\* failed start, before the next command is looked at (lines 51-85, 137-183).
CommandsInOrder == Promise!Spec

\* A tunnel that stays is served by tun2proxy.
EventuallyServed ==
    <>[](vpn # None /\ blame = {}) => <>[](engine = vpn)

\* After a last start everything ends, however often stop() is called: service,
\* descriptor, wake lock, tun2proxy.
EventuallyStopped ==
    <>[](want = "stop" /\ blame \subseteq {"behind", "trouble"})
        => []<>(~alive /\ open = {} /\ held = {} /\ engine = None)
=============================================================================
