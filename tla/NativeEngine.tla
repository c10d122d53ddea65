------------------------------ MODULE NativeEngine ------------------------------
(***************************************************************************)
(* The life of the native engine: the calls jni_init, jni_start, jni_stop  *)
(* and jni_done (app/src/main/cpp/tun2http.c), the event thread that       *)
(* jni_start creates (handle_events, session.c), and the descriptors they  *)
(* hold: the signal pipe, the thread's epoll file and the sockets of the   *)
(* sessions (open_tcp_socket, open_udp_socket, open_icmp_socket).          *)
(*                                                                         *)
(* One thread of the application makes the calls, one at a time, and       *)
(* jni_done only after jni_stop; no Kotlin file calls them today, so this  *)
(* order is the one their names and the service's life ask for.  The       *)
(* event thread runs beside it, and so does the rest of the process, which *)
(* opens and closes files: numbers of closed descriptors come back.        *)
(*                                                                         *)
(* What packets and answers do to a session is in TcpSession and           *)
(* DatagramSessions; here a session is its socket, until it is closed.     *)
(***************************************************************************)
EXTENDS Integers, FiniteSets

CONSTANTS
    Threads,     \* identifiers pthread_create gives out
    Fds,         \* numbers of descriptors the process may have
    None,        \* no thread
    MaxBytes,    \* bytes the pipe takes
    MaxProcess   \* bound: descriptors the rest of the process has open

ASSUME FdsAssumption == Fds \subseteq Nat
ASSUME NoneAssumption == None \notin Threads
ASSUME BoundsAssumption == MaxBytes \in Nat \ {0} /\ MaxProcess \in Nat

VARIABLES
    caller,     \* what the caller's thread is doing
    asked,      \* history: the last call to return was "started" or "stopped"
    target,     \* jni_stop's t
    thread_id,
    phase,      \* where each event thread is
    ready,      \* what the batch of events of a thread still holds
    kernel,     \* what each descriptor is
    pipefds,    \* the two ends of the pipe
    bytes,      \* stop bytes in the pipe
    epoll_fd,   \* local variable of handle_events
    sock,       \* local variable of open_*_socket
    held,       \* the sessions of the list ng_session, by their socket
    protected,  \* descriptors the VPN service protected
    leaked,     \* history: sockets that open_*_socket gave up
    failed      \* history: a thread was not created, or ended on its own

calls == <<caller, asked, target>>
thread == <<phase, ready, epoll_fd, sock>>
vars == <<calls, thread_id, thread, kernel, pipefds, bytes, held, protected, leaked, failed>>

NoFd == -1

Init ==
    /\ caller = "none" /\ asked = "stopped" /\ target = None
    /\ thread_id = None
    /\ phase = [t \in Threads |-> "off"] /\ ready = [t \in Threads |-> {}]
    /\ kernel = [fd \in Fds |-> "free"]
    /\ pipefds = <<NoFd, NoFd>> /\ bytes = 0
    /\ epoll_fd = [t \in Threads |-> NoFd] /\ sock = [t \in Threads |-> NoFd]
    /\ held = [fd \in Fds |-> "none"]
    /\ protected = {} /\ leaked = {} /\ failed = FALSE

Alive(t) == phase[t] \notin {"off", "exited"}

\* A new descriptor has the lowest free number
Lowest(fd) == kernel[fd] = "free" /\ \A g \in Fds : kernel[g] = "free" => fd <= g

\* Operators marked "mutant" stand for a plausible mistake in the definition that
\* follows them; the specification does not use them.

-----------------------------------------------------------------------------
(***************************************************************************)
(* The calls.                                                              *)
(***************************************************************************)
\* pipe() is taken to succeed: without a pipe every event thread ends at once
JniInit ==
    /\ caller = "none" /\ caller' = "idle" /\ asked' = "stopped"
    /\ \E r, w \in Fds :
        /\ r < w /\ Lowest(r)
        /\ kernel[w] = "free" /\ \A g \in Fds \ {r} : kernel[g] = "free" => w <= g
        /\ pipefds' = <<r, w>> /\ kernel' = [kernel EXCEPT ![r] = "pipe", ![w] = "pipe"]
    /\ held' = [fd \in Fds |-> "none"]
    /\ bytes' = 0 /\ failed' = FALSE
    /\ UNCHANGED <<target, thread_id, thread, protected, leaked>>

HasId(t) == t # None /\ phase[t] = "attach"                         \* mutant

\* pthread_kill(t, 0): the thread was created and has not ended
Running(t) == t # None /\ Alive(t)

StartRefused ==
    /\ caller = "idle" /\ Running(thread_id)
    /\ asked' = "started"
    /\ UNCHANGED <<caller, target, thread_id, thread, kernel, pipefds, bytes, held,
                   protected, leaked, failed>>

Start ==
    /\ caller = "idle" /\ ~Running(thread_id)
    /\ asked' = "started"
    /\ \/ \E t \in Threads :
            /\ phase[t] = "off"
            /\ thread_id' = t /\ phase' = [phase EXCEPT ![t] = "attach"]
            /\ UNCHANGED failed
       \/ failed' = TRUE /\ UNCHANGED <<thread_id, phase>>
    /\ UNCHANGED <<caller, target, ready, epoll_fd, sock, kernel, pipefds, bytes, held,
                   protected, leaked>>

StopNotRunning ==
    /\ caller = "idle" /\ ~Running(thread_id)
    /\ asked' = "stopped"
    /\ UNCHANGED <<caller, target, thread_id, thread, kernel, pipefds, bytes, held,
                   protected, leaked, failed>>

Stop ==
    /\ caller = "idle" /\ Running(thread_id)
    /\ target' = thread_id /\ caller' = "write"
    /\ UNCHANGED <<asked, thread_id, thread, kernel, pipefds, bytes, held, protected,
                   leaked, failed>>

ClearNext == "clear"                                                \* mutant

\* What jni_stop does when it has written the byte
AfterWrite == "join"

StopWrite ==
    /\ caller = "write" /\ bytes < MaxBytes
    /\ bytes' = bytes + 1 /\ caller' = AfterWrite
    /\ UNCHANGED <<asked, target, thread_id, thread, kernel, pipefds, held, protected,
                   leaked, failed>>

\* The pipe is full and does not block: jni_stop goes on to clear() beside the thread
StopWriteFails ==
    /\ caller = "write" /\ bytes = MaxBytes
    /\ caller' = "race"
    /\ UNCHANGED <<asked, target, thread_id, thread, kernel, pipefds, bytes, held, protected,
                   leaked, failed>>

StopJoin ==
    /\ caller = "join" /\ phase[target] = "exited"
    /\ caller' = "clear" /\ phase' = [phase EXCEPT ![target] = "off"]
    /\ UNCHANGED <<asked, target, thread_id, ready, epoll_fd, sock, kernel, pipefds, bytes,
                   held, protected, leaked, failed>>

\* close() of a set of descriptors
Close(fds) == [fd \in Fds |-> IF fd \in fds THEN "free" ELSE kernel[fd]]

\* clear(), one session at a time
ClearOne ==
    /\ caller \in {"clear", "done", "race"}
    /\ \E fd \in Fds :
        /\ held[fd] # "none"
        /\ held' = [held EXCEPT ![fd] = "none"]
        /\ kernel' = Close({fd}) /\ protected' = protected \ {fd}
    /\ UNCHANGED <<calls, thread_id, thread, pipefds, bytes, leaked, failed>>

\* The list is empty
Cleared == \A fd \in Fds : held[fd] = "none"

StopDone ==
    /\ caller = "clear" /\ Cleared
    /\ caller' = "idle" /\ asked' = "stopped" /\ target' = None
    /\ UNCHANGED <<thread_id, thread, kernel, pipefds, bytes, held, protected, leaked, failed>>

\* What two users of the list at a time leave of it is not followed: no more calls
StopRaced ==
    /\ caller = "race" /\ Cleared
    /\ caller' = "raced" /\ target' = None
    /\ UNCHANGED <<asked, thread_id, thread, kernel, pipefds, bytes, held, protected, leaked,
                   failed>>

JniDone ==
    /\ caller = "idle" /\ asked = "stopped" /\ caller' = "done"
    /\ UNCHANGED <<asked, target, thread_id, thread, kernel, pipefds, bytes, held,
                   protected, leaked, failed>>

ClosePipe ==
    /\ caller = "done" /\ Cleared
    /\ kernel' = Close({pipefds[1], pipefds[2]})
    /\ caller' = "none" /\ pipefds' = <<NoFd, NoFd>> /\ bytes' = 0
    /\ UNCHANGED <<asked, target, thread_id, thread, held, protected, leaked, failed>>

-----------------------------------------------------------------------------
(***************************************************************************)
(* The event thread: up to its loop.                                       *)
(***************************************************************************)
Goes(t, to) == phase' = [phase EXCEPT ![t] = to]

\* AttachCurrentThread; a failure leaves thread_id as it is
Attach(t) ==
    /\ phase[t] = "attach"
    /\ \/ Goes(t, "allowed") /\ UNCHANGED failed
       \/ Goes(t, "exited") /\ failed' = TRUE
    /\ UNCHANGED <<calls, thread_id, ready, epoll_fd, sock, kernel, pipefds, bytes, held,
                   protected, leaked>>

\* check_allowed: whatever sessions an earlier thread left are terminated
CheckAllowed(t) ==
    /\ phase[t] = "allowed" /\ Goes(t, "epoll")
    /\ held' = [fd \in Fds |-> IF held[fd] = "active" THEN "finishing" ELSE held[fd]]
    /\ UNCHANGED <<calls, thread_id, ready, epoll_fd, sock, kernel, pipefds, bytes,
                   protected, leaked, failed>>

OpenEpoll(t) ==
    /\ phase[t] = "epoll"
    /\ \/ /\ \E fd \in Fds :
               /\ Lowest(fd)
               /\ kernel' = [kernel EXCEPT ![fd] = "epoll"]
               /\ epoll_fd' = [epoll_fd EXCEPT ![t] = fd]
          /\ Goes(t, "watch") /\ UNCHANGED failed
       \/ Goes(t, "ending") /\ failed' = TRUE /\ UNCHANGED <<kernel, epoll_fd>>
    /\ UNCHANGED <<calls, thread_id, ready, sock, pipefds, bytes, held, protected, leaked>>

\* The pipe and the tun device are put into the epoll file
Watch(t) ==
    /\ phase[t] = "watch"
    /\ \/ Goes(t, "check") /\ UNCHANGED failed
       \/ Goes(t, "ending") /\ failed' = TRUE
    /\ UNCHANGED <<calls, thread_id, ready, epoll_fd, sock, kernel, pipefds, bytes, held,
                   protected, leaked>>

-----------------------------------------------------------------------------
(***************************************************************************)
(* The loop.                                                               *)
(***************************************************************************)
KeptHeld(fd, due) == held[fd]                                       \* mutant

\* Is a session's socket still held when those in due are closed?  s->socket = -1
StillHeld(fd, due) == IF fd \in due THEN "none" ELSE held[fd]

ActiveFds == {fd \in Fds : held[fd] = "active"}

\* The sessions that finish are closed, and those that have timed out
Check(t) ==
    /\ phase[t] = "check" /\ Goes(t, "wait")
    /\ \E late \in SUBSET ActiveFds :
        LET due == late \cup {fd \in Fds : held[fd] = "finishing"}
        IN  /\ held' = [fd \in Fds |-> StillHeld(fd, due)]
            /\ kernel' = Close(due) /\ protected' = protected \ due
    /\ UNCHANGED <<calls, thread_id, ready, epoll_fd, sock, pipefds, bytes, leaked, failed>>

\* A session check less than 100 ms ago is not repeated
SkipCheck(t) ==
    /\ phase[t] = "check" /\ Goes(t, "wait")
    /\ UNCHANGED <<calls, thread_id, ready, epoll_fd, sock, kernel, pipefds, bytes, held,
                   protected, leaked, failed>>

\* epoll_wait hands over some of what is ready; nothing after a timeout or a signal
WaitWith(t, some) ==
    /\ phase[t] = "wait" /\ Goes(t, "batch")
    /\ ready' = [ready EXCEPT ![t] = some]
    /\ UNCHANGED <<calls, thread_id, epoll_fd, sock, kernel, pipefds, bytes, held,
                   protected, leaked, failed>>

Wait(t) == \E some \in SUBSET {"tun", "socket"} : WaitWith(t, some)
WaitPipe(t) == \E some \in SUBSET {"tun", "socket"} : bytes > 0 /\ WaitWith(t, some \cup {"pipe"})

WaitFails(t) ==
    /\ phase[t] = "wait" /\ Goes(t, "ending") /\ failed' = TRUE
    /\ UNCHANGED <<calls, thread_id, ready, epoll_fd, sock, kernel, pipefds, bytes, held,
                   protected, leaked>>

\* The events of sockets: some sessions' sockets are at their end and are closed, with
\* s->socket = -1, and other sessions finish
HandleSocket(t) ==
    /\ phase[t] = "batch" /\ "socket" \in ready[t]
    /\ ready' = [ready EXCEPT ![t] = @ \ {"socket"}]
    /\ \E eof \in SUBSET ActiveFds : \E fin \in SUBSET (ActiveFds \ eof) :
        /\ held' = [fd \in Fds |-> IF fd \in fin THEN "finishing" ELSE StillHeld(fd, eof)]
        /\ kernel' = Close(eof) /\ protected' = protected \ eof
    /\ UNCHANGED <<calls, thread_id, phase, epoll_fd, sock, pipefds, bytes, leaked, failed>>

\* One byte is read
ByteTaken == bytes - 1

StopIgnored == "check"                                              \* mutant

\* The stop byte ends the loop; the rest of the batch is left
AfterByte == "ending"

ReadPipe(t) ==
    /\ phase[t] = "batch" /\ "pipe" \in ready[t]
    /\ bytes' = ByteTaken /\ Goes(t, AfterByte)
    /\ ready' = [ready EXCEPT ![t] = {}]
    /\ UNCHANGED <<calls, thread_id, epoll_fd, sock, kernel, pipefds, held, protected,
                   leaked, failed>>

EndBatch(t) ==
    /\ phase[t] = "batch" /\ ready[t] = {} /\ Goes(t, "check")
    /\ UNCHANGED <<calls, thread_id, ready, epoll_fd, sock, kernel, pipefds, bytes, held,
                   protected, leaked, failed>>

-----------------------------------------------------------------------------
(***************************************************************************)
(* The tun device is read as long as it is readable.                       *)
(***************************************************************************)
ReadTunDevice(t) == phase[t] = "batch" /\ "tun" \in ready[t]

TunEmpty(t) ==
    /\ ReadTunDevice(t) /\ ready' = [ready EXCEPT ![t] = @ \ {"tun"}]
    /\ UNCHANGED <<calls, thread_id, phase, epoll_fd, sock, kernel, pipefds, bytes, held,
                   protected, leaked, failed>>

TunFails(t) ==
    /\ ReadTunDevice(t) /\ Goes(t, "ending") /\ failed' = TRUE
    /\ ready' = [ready EXCEPT ![t] = {}]
    /\ UNCHANGED <<calls, thread_id, epoll_fd, sock, kernel, pipefds, bytes, held,
                   protected, leaked>>

\* A packet of a session may finish it
PacketFinishes(t) ==
    /\ ReadTunDevice(t)
    /\ \E fd \in Fds :
        /\ held[fd] = "active"
        /\ held' = [held EXCEPT ![fd] = "finishing"]
    /\ UNCHANGED <<calls, thread_id, thread, kernel, pipefds, bytes, protected, leaked, failed>>

\* A packet that opens a session: open_*_socket gets a socket
OpenSocket(t) ==
    /\ ReadTunDevice(t) /\ Goes(t, "protect")
    /\ \E fd \in Fds :
        /\ Lowest(fd)
        /\ kernel' = [kernel EXCEPT ![fd] = "socket"]
        /\ sock' = [sock EXCEPT ![t] = fd]
    /\ UNCHANGED <<calls, thread_id, ready, epoll_fd, pipefds, bytes, held, protected,
                   leaked, failed>>

\* A step of open_*_socket fails: -1 is returned, and the socket stays open
GiveUp(t) ==
    /\ phase[t] \in {"protect", "connect"} /\ Goes(t, "batch")
    /\ leaked' = leaked \cup {sock[t]} /\ sock' = [sock EXCEPT ![t] = NoFd]
    /\ UNCHANGED <<calls, thread_id, ready, epoll_fd, kernel, pipefds, bytes, held,
                   protected, failed>>

\* protect_socket asks the service
NowProtected(t) == protected \cup {sock[t]}

Protect(t) ==
    /\ phase[t] = "protect" /\ Goes(t, "connect")
    /\ protected' = NowProtected(t)
    /\ UNCHANGED <<calls, thread_id, ready, epoll_fd, sock, kernel, pipefds, bytes, held,
                   leaked, failed>>

\* A TCP socket is made non-blocking and connected; the session is put into the list
Connect(t) ==
    /\ phase[t] = "connect" /\ Goes(t, "batch")
    /\ held' = [held EXCEPT ![sock[t]] = "active"] /\ sock' = [sock EXCEPT ![t] = NoFd]
    /\ UNCHANGED <<calls, thread_id, ready, epoll_fd, kernel, pipefds, bytes, protected,
                   leaked, failed>>

-----------------------------------------------------------------------------
(***************************************************************************)
(* The end of handle_events.                                               *)
(***************************************************************************)
CloseEpoll(t) ==
    /\ phase[t] = "ending" /\ Goes(t, "reset")
    /\ kernel' = Close({epoll_fd[t]}) /\ epoll_fd' = [epoll_fd EXCEPT ![t] = NoFd]
    /\ UNCHANGED <<calls, thread_id, ready, sock, pipefds, bytes, held, protected, leaked,
                   failed>>

ResetId(t) ==
    /\ phase[t] = "reset" /\ Goes(t, "exited")
    /\ thread_id' = None
    /\ UNCHANGED <<calls, ready, epoll_fd, sock, kernel, pipefds, bytes, held, protected,
                   leaked, failed>>

\* The rest of the process opens and closes files of its own
ProcessOpens ==
    /\ Cardinality({fd \in Fds : kernel[fd] = "process"}) < MaxProcess
    /\ \E fd \in Fds : Lowest(fd) /\ kernel' = [kernel EXCEPT ![fd] = "process"]
    /\ UNCHANGED <<calls, thread_id, thread, pipefds, bytes, held, protected, leaked, failed>>

ProcessCloses ==
    /\ \E fd \in Fds : kernel[fd] = "process" /\ kernel' = Close({fd})
    /\ UNCHANGED <<calls, thread_id, thread, pipefds, bytes, held, protected, leaked, failed>>

CallerStep == StopWrite \/ StopWriteFails \/ StopJoin \/ ClearOne \/ StopDone \/ StopRaced
Caller == JniInit \/ StartRefused \/ Start \/ StopNotRunning \/ Stop \/ JniDone \/ ClosePipe
          \/ CallerStep
ThreadStep(t) ==
    \/ Attach(t) \/ CheckAllowed(t) \/ OpenEpoll(t) \/ Watch(t)
    \/ Check(t) \/ SkipCheck(t) \/ Wait(t) \/ WaitPipe(t) \/ WaitFails(t)
    \/ HandleSocket(t) \/ ReadPipe(t) \/ EndBatch(t)
    \/ TunEmpty(t) \/ TunFails(t) \/ PacketFinishes(t)
    \/ OpenSocket(t) \/ GiveUp(t) \/ Protect(t) \/ Connect(t)
    \/ CloseEpoll(t) \/ ResetId(t)

Next == Caller \/ (\E t \in Threads : ThreadStep(t)) \/ ProcessOpens \/ ProcessCloses

(***************************************************************************)
(* Both threads are scheduled.  epoll_wait goes round among the ready      *)
(* descriptors, so that the pipe's turn comes; and it is assumed that the  *)
(* packets waiting in the tun device run out now and then: while they do   *)
(* not, the loop over them never looks at the pipe.                        *)
(***************************************************************************)
Fairness ==
    /\ WF_vars(CallerStep)
    /\ \A t \in Threads :
        WF_vars(ThreadStep(t)) /\ SF_vars(WaitPipe(t)) /\ SF_vars(TunEmpty(t))

Spec == Init /\ [][Next]_vars /\ Fairness

-----------------------------------------------------------------------------
(***************************************************************************)
(* Properties.                                                             *)
(***************************************************************************)
Phases == {"off", "attach", "allowed", "epoll", "watch", "check", "wait", "batch", "protect",
           "connect", "ending", "reset", "exited"}

\* Every variable has a value the C code can give it.
TypeOK ==
    /\ caller \in {"none", "idle", "write", "join", "clear", "done", "race", "raced"}
    /\ asked \in {"started", "stopped"} /\ target \in Threads \cup {None}
    /\ thread_id \in Threads \cup {None}
    /\ phase \in [Threads -> Phases]
    /\ ready \in [Threads -> SUBSET {"pipe", "tun", "socket"}]
    /\ kernel \in [Fds -> {"free", "pipe", "epoll", "socket", "process"}]
    /\ pipefds \in (Fds \cup {NoFd}) \X (Fds \cup {NoFd}) /\ bytes \in 0..MaxBytes
    /\ epoll_fd \in [Threads -> Fds \cup {NoFd}] /\ sock \in [Threads -> Fds \cup {NoFd}]
    /\ held \in [Fds -> {"none", "active", "finishing"}]
    /\ protected \subseteq Fds /\ leaked \subseteq Fds /\ failed \in BOOLEAN

\* What the code holds is open and is what it takes it for, although numbers of closed
\* descriptors come back: nothing is used or closed that belongs to somebody else
\* (session.c:18, 267, tun2http.c:158, and the closing of sessions).
DescriptorsAreOwn ==
    /\ caller # "none" => \A i \in 1..2 : pipefds[i] \in Fds /\ kernel[pipefds[i]] = "pipe"
    /\ \A t \in Threads :
        /\ epoll_fd[t] # NoFd => kernel[epoll_fd[t]] = "epoll"
        /\ sock[t] # NoFd => kernel[sock[t]] = "socket" /\ held[sock[t]] = "none"
    /\ \A fd \in Fds : held[fd] # "none" => kernel[fd] = "socket"

\* A socket that nobody holds is one that open_*_socket gave up because a step after
\* socket() failed (tcp.c:983-1032, udp.c:385, icmp.c:281); none is lost otherwise.
LeaksOnlyByFailure ==
    \A fd \in Fds :
        kernel[fd] = "socket" /\ held[fd] = "none" /\ (\A t \in Threads : sock[t] # fd)
            => fd \in leaked

\* The socket of a session is protected: its traffic does not come back through the VPN
\* (protect_socket, tun2http.c:179).
SocketsAreProtected == \A fd \in Fds : held[fd] # "none" => fd \in protected

InEngine == {t \in Threads : phase[t] \notin {"off", "attach", "reset", "exited"}}

\* The list of sessions and the descriptors have one user at a time: one event thread, or
\* clear() in the caller's thread, which takes no lock (tun2http.c:88, 128-136, 151).  In
\* "race", when a stop found the pipe full, the code lets them run side by side.
SessionsHaveOneUser ==
    /\ \A t, u \in InEngine : t = u
    /\ caller \in {"clear", "done"} => InEngine = {}

\* When jni_stop has returned no event thread is left (tun2http.c:125-139).
StopEndsEngine ==
    caller = "idle" /\ asked = "stopped" => \A t \in Threads : ~Alive(t)

\* The byte of a stop is read by the thread it was written for, unless a thread ended on
\* its own at that moment: then the byte waits for the next thread, which ends at once
\* (tun2http.c:125-130, session.c:206-215).
StopByteTaken == bytes > 0 => caller = "join" \/ failed

\* After a start the event thread runs, unless a thread failed: jni_start does nothing
\* while a thread that ends on its own has not come to its end (tun2http.c:88).
StartedRuns ==
    caller = "idle" /\ asked = "started" /\ ~failed => \E t \in Threads : Alive(t)

\* After jni_done nothing of the engine is open but the sockets that were given up.
DoneLeavesNothing ==
    caller = "none" =>
        \A fd \in Fds : kernel[fd] \in {"free", "process"} \/ fd \in leaked

\* Descriptors are neither mixed up nor lost from jni_init to jni_done: the pipe, the epoll
\* file and the sockets of sessions (tun2http.c:63, 158, session.c:61, 267, 18).
DescriptorsAccounted ==
    DescriptorsAreOwn /\ LeaksOnlyByFailure /\ SocketsAreProtected /\ DoneLeavesNothing

\* The event thread runs when jni_start was the last call and does not when jni_stop was,
\* except for what the failure of a thread leaves behind (tun2http.c:74-140).
EngineAsAsked == StopEndsEngine /\ StopByteTaken /\ StartedRuns

\* jni_stop returns: its write fails, or the thread reads the byte or ends on its own, and
\* is joined.
StopReturns == caller \in {"write", "join", "clear", "race"} ~> caller \in {"idle", "raced"}
=============================================================================
