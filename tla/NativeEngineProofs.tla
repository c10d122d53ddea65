--------------------------- MODULE NativeEngineProofs ---------------------------
(***************************************************************************)
(* Proofs about NativeEngine, for every number of threads and descriptors. *)
(* The inductive invariant says which thread may be alive, what the caller *)
(* may rely on while it is in a call, and who holds each open descriptor.  *)
(***************************************************************************)
EXTENDS NativeEngine, TLAPS

\* An event thread that has not ended is the one thread_id names.
OneThread == \A t \in Threads : Alive(t) => thread_id = t

\* jni_stop waits for the only thread there may be; behind its join, and after it, no
\* thread is alive.
CallerKnows ==
    /\ caller \in {"write", "join"} =>
          target \in Threads /\ \A t \in Threads : Alive(t) => t = target
    /\ caller \in {"none", "clear", "done"} => \A t \in Threads : ~Alive(t)
    /\ caller = "none" => Cleared
    /\ caller = "idle" /\ asked = "stopped" => \A t \in Threads : ~Alive(t)

HoldsEpoll == {"watch", "check", "wait", "batch", "protect", "connect", "ending"}

\* A thread has its local descriptors in certain phases only, and no two names stand
\* for one descriptor.
LocalsHeld == \A t \in Threads :
    /\ epoll_fd[t] # NoFd => phase[t] \in HoldsEpoll /\ kernel[epoll_fd[t]] = "epoll"
    /\ sock[t] # NoFd <=> phase[t] \in {"protect", "connect"}
    /\ sock[t] # NoFd => kernel[sock[t]] = "socket" /\ held[sock[t]] = "none"
                         /\ sock[t] \notin leaked
    /\ phase[t] = "connect" => sock[t] \in protected

\* A batch of events is looked at in certain phases only, and while it holds the pipe's
\* event the byte has not been read.
BatchHeld == \A t \in Threads :
    /\ ready[t] # {} => phase[t] \in {"batch", "protect", "connect"}
    /\ "pipe" \in ready[t] => bytes > 0

\* The pipe is open from jni_init to jni_done.
PipeHeld ==
    /\ caller # "none" =>
          /\ pipefds[1] \in Fds /\ kernel[pipefds[1]] = "pipe"
          /\ pipefds[2] \in Fds /\ kernel[pipefds[2]] = "pipe"
    /\ \A fd \in Fds : kernel[fd] = "pipe" => caller # "none" /\ fd \in {pipefds[1], pipefds[2]}

\* Every open socket is a session's, a thread's, or was given up; every epoll file is a
\* thread's.
SocketsHeld ==
    /\ \A fd \in Fds : held[fd] # "none" => kernel[fd] = "socket" /\ fd \in protected
                                            /\ fd \notin leaked
    /\ \A fd \in leaked : kernel[fd] = "socket"
    /\ \A fd \in Fds : kernel[fd] = "epoll" => \E t \in Threads : epoll_fd[t] = fd
    /\ LeaksOnlyByFailure

IInv == TypeOK /\ OneThread /\ CallerKnows /\ LocalsHeld /\ BatchHeld /\ PipeHeld
        /\ SocketsHeld

LEMMA NoFdFact == NoFd \notin Fds
BY FdsAssumption DEF NoFd

\* The state before anything was called has no thread and no descriptor.
LEMMA InitInv == Init => IInv
<1> SUFFICES ASSUME Init PROVE IInv
  OBVIOUS
<1>1. TypeOK
  <2>1. caller \in {"none", "idle", "write", "join", "clear", "done", "race", "raced"}
        /\ asked \in {"started", "stopped"} /\ target \in Threads \cup {None}
        /\ thread_id \in Threads \cup {None}
    BY DEF Init
  <2>2. /\ phase \in [Threads -> Phases]
        /\ ready \in [Threads -> SUBSET {"pipe", "tun", "socket"}]
    BY DEF Init, Phases
  <2>3. /\ kernel \in [Fds -> {"free", "pipe", "epoll", "socket", "process"}]
        /\ held \in [Fds -> {"none", "active", "finishing"}]
    BY DEF Init
  <2>4. /\ pipefds \in (Fds \cup {NoFd}) \X (Fds \cup {NoFd})
        /\ bytes \in 0..MaxBytes
    BY BoundsAssumption DEF Init
  <2>5. /\ epoll_fd \in [Threads -> Fds \cup {NoFd}]
        /\ sock \in [Threads -> Fds \cup {NoFd}]
        /\ protected \subseteq Fds /\ leaked \subseteq Fds /\ failed \in BOOLEAN
    BY DEF Init
  <2> QED
    BY <2>1, <2>2, <2>3, <2>4, <2>5 DEF TypeOK
<1>2. OneThread /\ CallerKnows
  BY DEF Init, OneThread, CallerKnows, Alive, Cleared
<1>3. LocalsHeld /\ BatchHeld
  BY DEF Init, LocalsHeld, BatchHeld
<1>4. PipeHeld /\ SocketsHeld
  BY DEF Init, PipeHeld, SocketsHeld, LeaksOnlyByFailure
<1> QED
  BY <1>1, <1>2, <1>3, <1>4 DEF IInv

LEMMA JniInitKeeps == ASSUME IInv, JniInit PROVE IInv'
<1> USE DEF JniInit, Lowest, IInv, calls, thread
<1>1. TypeOK'
  <2>1. caller' \in {"none", "idle", "write", "join", "clear", "done", "race", "raced"}
        /\ asked' \in {"started", "stopped"} /\ target' \in Threads \cup {None}
        /\ thread_id' \in Threads \cup {None}
    BY DEF TypeOK
  <2>2. /\ phase' \in [Threads -> Phases]
        /\ ready' \in [Threads -> SUBSET {"pipe", "tun", "socket"}]
    BY DEF TypeOK
  <2>3. /\ kernel' \in [Fds -> {"free", "pipe", "epoll", "socket", "process"}]
        /\ held' \in [Fds -> {"none", "active", "finishing"}]
    BY DEF TypeOK
  <2>4. /\ pipefds' \in (Fds \cup {NoFd}) \X (Fds \cup {NoFd})
        /\ bytes' \in 0..MaxBytes
    BY BoundsAssumption DEF TypeOK
  <2>5. /\ epoll_fd' \in [Threads -> Fds \cup {NoFd}]
        /\ sock' \in [Threads -> Fds \cup {NoFd}]
        /\ protected' \subseteq Fds /\ leaked' \subseteq Fds /\ failed' \in BOOLEAN
    BY DEF TypeOK
  <2> QED
    BY <2>1, <2>2, <2>3, <2>4, <2>5 DEF TypeOK
<1>2. OneThread' /\ CallerKnows'
  BY DEF OneThread, CallerKnows, Alive
<1>3. LocalsHeld'
  BY DEF LocalsHeld, HoldsEpoll, CallerKnows, Alive
<1>6. BatchHeld'
  BY DEF BatchHeld, CallerKnows, Alive
<1>4. PipeHeld'
  BY DEF PipeHeld, TypeOK
<1>5. SocketsHeld'
  BY DEF SocketsHeld, LeaksOnlyByFailure, TypeOK, CallerKnows, Cleared
<1> QED
  BY <1>1, <1>2, <1>3, <1>4, <1>5, <1>6

LEMMA StartRefusedKeeps == ASSUME IInv, StartRefused PROVE IInv'
<1> USE DEF StartRefused, Running, IInv, calls, thread
<1>1. TypeOK'
  BY DEF TypeOK
<1>2. OneThread' /\ CallerKnows'
  BY DEF OneThread, CallerKnows, Alive
<1>3. LocalsHeld'
  BY DEF LocalsHeld
<1>6. BatchHeld'
  BY DEF BatchHeld
<1>4. PipeHeld'
  BY DEF PipeHeld
<1>5. SocketsHeld'
  BY DEF SocketsHeld, LeaksOnlyByFailure
<1> QED
  BY <1>1, <1>2, <1>3, <1>4, <1>5, <1>6

LEMMA StartKeeps == ASSUME IInv, Start PROVE IInv'
<1> USE DEF Start, Running, IInv, calls, thread
<1>1. TypeOK'
  BY DEF TypeOK, Phases
<1>2. OneThread' /\ CallerKnows'
  BY NoneAssumption DEF OneThread, CallerKnows, Alive, TypeOK
<1>3. LocalsHeld'
  BY DEF LocalsHeld, TypeOK, HoldsEpoll
<1>6. BatchHeld'
  BY DEF BatchHeld, TypeOK
<1>4. PipeHeld'
  BY DEF PipeHeld
<1>5. SocketsHeld'
  BY DEF SocketsHeld, LeaksOnlyByFailure
<1> QED
  BY <1>1, <1>2, <1>3, <1>4, <1>5, <1>6

LEMMA StopNotRunningKeeps == ASSUME IInv, StopNotRunning PROVE IInv'
<1> USE DEF StopNotRunning, Running, IInv, calls, thread
<1>1. TypeOK'
  BY DEF TypeOK
<1>2. OneThread' /\ CallerKnows'
  BY NoneAssumption DEF OneThread, CallerKnows, Alive
<1>3. LocalsHeld'
  BY DEF LocalsHeld
<1>6. BatchHeld'
  BY DEF BatchHeld
<1>4. PipeHeld'
  BY DEF PipeHeld
<1>5. SocketsHeld'
  BY DEF SocketsHeld, LeaksOnlyByFailure
<1> QED
  BY <1>1, <1>2, <1>3, <1>4, <1>5, <1>6

LEMMA StopKeeps == ASSUME IInv, Stop PROVE IInv'
<1> USE DEF Stop, Running, IInv, calls, thread
<1>1. TypeOK'
  BY DEF TypeOK
<1>2. OneThread' /\ CallerKnows'
  BY DEF OneThread, CallerKnows, Alive, TypeOK
<1>3. LocalsHeld'
  BY DEF LocalsHeld
<1>6. BatchHeld'
  BY DEF BatchHeld
<1>4. PipeHeld'
  BY DEF PipeHeld
<1>5. SocketsHeld'
  BY DEF SocketsHeld, LeaksOnlyByFailure
<1> QED
  BY <1>1, <1>2, <1>3, <1>4, <1>5, <1>6

LEMMA JniDoneKeeps == ASSUME IInv, JniDone PROVE IInv'
<1> USE DEF JniDone, IInv, calls, thread
<1>1. TypeOK'
  BY DEF TypeOK
<1>2. OneThread' /\ CallerKnows'
  BY DEF OneThread, CallerKnows, Alive
<1>3. LocalsHeld'
  BY DEF LocalsHeld
<1>6. BatchHeld'
  BY DEF BatchHeld
<1>4. PipeHeld'
  BY DEF PipeHeld
<1>5. SocketsHeld'
  BY DEF SocketsHeld, LeaksOnlyByFailure
<1> QED
  BY <1>1, <1>2, <1>3, <1>4, <1>5, <1>6

LEMMA ClosePipeKeeps == ASSUME IInv, ClosePipe PROVE IInv'
<1> USE DEF ClosePipe, Close, Cleared, IInv, calls, thread
<1>1. TypeOK'
  BY BoundsAssumption DEF TypeOK
<1>2. OneThread' /\ CallerKnows'
  BY DEF OneThread, CallerKnows, Alive
<1>3. LocalsHeld'
  BY DEF LocalsHeld, HoldsEpoll, CallerKnows, Alive
<1>6. BatchHeld'
  BY DEF BatchHeld, CallerKnows, Alive
<1>4. PipeHeld'
  BY DEF PipeHeld
<1>5. SocketsHeld'
  BY DEF SocketsHeld, LeaksOnlyByFailure, TypeOK, PipeHeld
<1> QED
  BY <1>1, <1>2, <1>3, <1>4, <1>5, <1>6

LEMMA StopWriteKeeps == ASSUME IInv, StopWrite PROVE IInv'
<1> USE DEF StopWrite, AfterWrite, IInv, calls, thread
<1>1. TypeOK'
  BY BoundsAssumption DEF TypeOK
<1>2. OneThread' /\ CallerKnows'
  BY DEF OneThread, CallerKnows, Alive
<1>3. LocalsHeld'
  BY DEF LocalsHeld
<1>6. BatchHeld'
  BY DEF BatchHeld, TypeOK
<1>4. PipeHeld'
  BY DEF PipeHeld
<1>5. SocketsHeld'
  BY DEF SocketsHeld, LeaksOnlyByFailure
<1> QED
  BY <1>1, <1>2, <1>3, <1>4, <1>5, <1>6

LEMMA StopWriteFailsKeeps == ASSUME IInv, StopWriteFails PROVE IInv'
<1> USE DEF StopWriteFails, IInv, calls, thread
<1>1. TypeOK'
  BY BoundsAssumption DEF TypeOK
<1>2. OneThread' /\ CallerKnows'
  BY DEF OneThread, CallerKnows, Alive
<1>3. LocalsHeld'
  BY DEF LocalsHeld
<1>6. BatchHeld'
  BY DEF BatchHeld
<1>4. PipeHeld'
  BY DEF PipeHeld
<1>5. SocketsHeld'
  BY DEF SocketsHeld, LeaksOnlyByFailure
<1> QED
  BY <1>1, <1>2, <1>3, <1>4, <1>5, <1>6

LEMMA StopJoinKeeps == ASSUME IInv, StopJoin PROVE IInv'
<1> USE DEF StopJoin, IInv, calls, thread
<1>1. TypeOK'
  BY DEF TypeOK, Phases
<1>2. OneThread' /\ CallerKnows'
  BY DEF OneThread, CallerKnows, Alive
<1>3. LocalsHeld'
  BY DEF LocalsHeld, HoldsEpoll
<1>6. BatchHeld'
  BY DEF BatchHeld
<1>4. PipeHeld'
  BY DEF PipeHeld
<1>5. SocketsHeld'
  BY DEF SocketsHeld, LeaksOnlyByFailure
<1> QED
  BY <1>1, <1>2, <1>3, <1>4, <1>5, <1>6

LEMMA ClearOneKeeps == ASSUME IInv, ClearOne PROVE IInv'
<1> USE DEF ClearOne, Close, IInv, calls, thread
<1>1. TypeOK'
  BY DEF TypeOK
<1>2. OneThread' /\ CallerKnows'
  BY DEF OneThread, CallerKnows, Alive
<1>3. LocalsHeld'
  BY DEF LocalsHeld, SocketsHeld, TypeOK
<1>6. BatchHeld'
  BY DEF BatchHeld
<1>4. PipeHeld'
  BY DEF PipeHeld, SocketsHeld
<1>5. SocketsHeld'
  BY DEF SocketsHeld, LeaksOnlyByFailure, TypeOK
<1> QED
  BY <1>1, <1>2, <1>3, <1>4, <1>5, <1>6

LEMMA StopRacedKeeps == ASSUME IInv, StopRaced PROVE IInv'
<1> USE DEF StopRaced, Cleared, IInv, calls, thread
<1>1. TypeOK'
  BY BoundsAssumption DEF TypeOK
<1>2. OneThread' /\ CallerKnows'
  BY DEF OneThread, CallerKnows, Alive
<1>3. LocalsHeld'
  BY DEF LocalsHeld
<1>6. BatchHeld'
  BY DEF BatchHeld
<1>4. PipeHeld'
  BY DEF PipeHeld
<1>5. SocketsHeld'
  BY DEF SocketsHeld, LeaksOnlyByFailure
<1> QED
  BY <1>1, <1>2, <1>3, <1>4, <1>5, <1>6

LEMMA StopDoneKeeps == ASSUME IInv, StopDone PROVE IInv'
<1> USE DEF StopDone, Cleared, IInv, calls, thread
<1>1. TypeOK'
  BY DEF TypeOK
<1>2. OneThread' /\ CallerKnows'
  BY DEF OneThread, CallerKnows, Alive
<1>3. LocalsHeld'
  BY DEF LocalsHeld
<1>6. BatchHeld'
  BY DEF BatchHeld
<1>4. PipeHeld'
  BY DEF PipeHeld
<1>5. SocketsHeld'
  BY DEF SocketsHeld, LeaksOnlyByFailure
<1> QED
  BY <1>1, <1>2, <1>3, <1>4, <1>5, <1>6

LEMMA AttachKeeps == ASSUME NEW t \in Threads, IInv, Attach(t) PROVE IInv'
<1> USE DEF Attach, Goes, IInv, calls, thread
<1>1. TypeOK'
  BY DEF TypeOK, Phases
<1>2. OneThread' /\ CallerKnows'
  BY DEF OneThread, CallerKnows, Alive, TypeOK
<1>3. LocalsHeld'
  BY DEF LocalsHeld, TypeOK, HoldsEpoll
<1>6. BatchHeld'
  BY DEF BatchHeld, OneThread, Alive
<1>4. PipeHeld'
  BY DEF PipeHeld
<1>5. SocketsHeld'
  BY DEF SocketsHeld, LeaksOnlyByFailure
<1> QED
  BY <1>1, <1>2, <1>3, <1>4, <1>5, <1>6

LEMMA CheckAllowedKeeps == ASSUME NEW t \in Threads, IInv, CheckAllowed(t) PROVE IInv'
<1> USE DEF CheckAllowed, Goes, IInv, calls, thread
<1>1. TypeOK'
  BY DEF TypeOK, Phases
<1>2. OneThread' /\ CallerKnows'
  BY DEF OneThread, CallerKnows, Alive
<1>3. LocalsHeld'
  BY DEF LocalsHeld, HoldsEpoll, OneThread, Alive
<1>6. BatchHeld'
  BY DEF BatchHeld
<1>4. PipeHeld'
  BY DEF PipeHeld
<1>5. SocketsHeld'
  BY DEF SocketsHeld, LeaksOnlyByFailure
<1> QED
  BY <1>1, <1>2, <1>3, <1>4, <1>5, <1>6

LEMMA OpenEpollKeeps == ASSUME NEW t \in Threads, IInv, OpenEpoll(t) PROVE IInv'
<1> USE DEF OpenEpoll, Goes, Lowest, IInv, calls, thread
<1>1. TypeOK'
  <2>1. caller' \in {"none", "idle", "write", "join", "clear", "done", "race", "raced"}
        /\ asked' \in {"started", "stopped"} /\ target' \in Threads \cup {None}
        /\ thread_id' \in Threads \cup {None}
    BY DEF TypeOK
  <2>2. /\ phase' \in [Threads -> Phases]
        /\ ready' \in [Threads -> SUBSET {"pipe", "tun", "socket"}]
    BY DEF TypeOK, Phases
  <2>3. /\ kernel' \in [Fds -> {"free", "pipe", "epoll", "socket", "process"}]
        /\ held' \in [Fds -> {"none", "active", "finishing"}]
    BY DEF TypeOK
  <2>4. /\ pipefds' \in (Fds \cup {NoFd}) \X (Fds \cup {NoFd})
        /\ bytes' \in 0..MaxBytes
    BY BoundsAssumption DEF TypeOK
  <2>5. /\ epoll_fd' \in [Threads -> Fds \cup {NoFd}]
        /\ sock' \in [Threads -> Fds \cup {NoFd}]
    BY DEF TypeOK
  <2>6. /\ protected' \subseteq Fds /\ leaked' \subseteq Fds
        /\ failed' \in BOOLEAN
    BY DEF TypeOK
  <2> QED
    BY <2>1, <2>2, <2>3, <2>4, <2>5, <2>6 DEF TypeOK
<1>2. OneThread' /\ CallerKnows'
  BY DEF OneThread, CallerKnows, Alive, TypeOK
<1>3. LocalsHeld'
  BY DEF LocalsHeld, TypeOK, HoldsEpoll
<1>6. BatchHeld'
  BY DEF BatchHeld, OneThread, Alive
<1>4. PipeHeld'
  BY DEF PipeHeld, TypeOK
<1>5. SocketsHeld'
  BY NoFdFact DEF SocketsHeld, LeaksOnlyByFailure, LocalsHeld, TypeOK, HoldsEpoll
<1> QED
  BY <1>1, <1>2, <1>3, <1>4, <1>5, <1>6

LEMMA WatchKeeps == ASSUME NEW t \in Threads, IInv, Watch(t) PROVE IInv'
<1> USE DEF Watch, Goes, IInv, calls, thread
<1>1. TypeOK'
  BY DEF TypeOK, Phases
<1>2. OneThread' /\ CallerKnows'
  BY DEF OneThread, CallerKnows, Alive, TypeOK
<1>3. LocalsHeld'
  BY DEF LocalsHeld, TypeOK, HoldsEpoll
<1>6. BatchHeld'
  BY DEF BatchHeld, OneThread, Alive
<1>4. PipeHeld'
  BY DEF PipeHeld
<1>5. SocketsHeld'
  BY DEF SocketsHeld, LeaksOnlyByFailure
<1> QED
  BY <1>1, <1>2, <1>3, <1>4, <1>5, <1>6

LEMMA CheckKeeps == ASSUME NEW t \in Threads, IInv, Check(t) PROVE IInv'
<1> USE DEF Check, Goes, Close, StillHeld, ActiveFds, IInv, calls, thread
<1>1. TypeOK'
  BY DEF TypeOK, Phases
<1>2. OneThread' /\ CallerKnows'
  BY DEF OneThread, CallerKnows, Alive
<1>3. LocalsHeld'
  BY DEF LocalsHeld, TypeOK, HoldsEpoll, SocketsHeld
<1>6. BatchHeld'
  BY DEF BatchHeld
<1>4. PipeHeld'
  BY DEF PipeHeld, SocketsHeld
<1>5. SocketsHeld'
  BY DEF SocketsHeld, LeaksOnlyByFailure, TypeOK
<1> QED
  BY <1>1, <1>2, <1>3, <1>4, <1>5, <1>6

LEMMA SkipCheckKeeps == ASSUME NEW t \in Threads, IInv, SkipCheck(t) PROVE IInv'
<1> USE DEF SkipCheck, Goes, IInv, calls, thread
<1>1. TypeOK'
  BY DEF TypeOK, Phases
<1>2. OneThread' /\ CallerKnows'
  BY DEF OneThread, CallerKnows, Alive
<1>3. LocalsHeld'
  BY DEF LocalsHeld, HoldsEpoll
<1>6. BatchHeld'
  BY DEF BatchHeld
<1>4. PipeHeld'
  BY DEF PipeHeld
<1>5. SocketsHeld'
  BY DEF SocketsHeld, LeaksOnlyByFailure
<1> QED
  BY <1>1, <1>2, <1>3, <1>4, <1>5, <1>6

LEMMA WaitKeeps == ASSUME NEW t \in Threads, IInv, Wait(t) PROVE IInv'
<1> USE DEF Wait, Goes, WaitWith, IInv, calls, thread
<1>1. TypeOK'
  BY DEF TypeOK, Phases
<1>2. OneThread' /\ CallerKnows'
  BY DEF OneThread, CallerKnows, Alive
<1>3. LocalsHeld'
  BY DEF LocalsHeld, HoldsEpoll
<1>6. BatchHeld'
  BY DEF BatchHeld, TypeOK
<1>4. PipeHeld'
  BY DEF PipeHeld
<1>5. SocketsHeld'
  BY DEF SocketsHeld, LeaksOnlyByFailure
<1> QED
  BY <1>1, <1>2, <1>3, <1>4, <1>5, <1>6

LEMMA WaitPipeKeeps == ASSUME NEW t \in Threads, IInv, WaitPipe(t) PROVE IInv'
<1> USE DEF WaitPipe, Goes, WaitWith, IInv, calls, thread
<1>1. TypeOK'
  BY DEF TypeOK, Phases
<1>2. OneThread' /\ CallerKnows'
  BY DEF OneThread, CallerKnows, Alive
<1>3. LocalsHeld'
  BY DEF LocalsHeld, HoldsEpoll
<1>6. BatchHeld'
  BY DEF BatchHeld, TypeOK
<1>4. PipeHeld'
  BY DEF PipeHeld
<1>5. SocketsHeld'
  BY DEF SocketsHeld, LeaksOnlyByFailure
<1> QED
  BY <1>1, <1>2, <1>3, <1>4, <1>5, <1>6

LEMMA WaitFailsKeeps == ASSUME NEW t \in Threads, IInv, WaitFails(t) PROVE IInv'
<1> USE DEF WaitFails, Goes, IInv, calls, thread
<1>1. TypeOK'
  BY DEF TypeOK, Phases
<1>2. OneThread' /\ CallerKnows'
  BY DEF OneThread, CallerKnows, Alive
<1>3. LocalsHeld'
  BY DEF LocalsHeld, HoldsEpoll
<1>6. BatchHeld'
  BY DEF BatchHeld
<1>4. PipeHeld'
  BY DEF PipeHeld
<1>5. SocketsHeld'
  BY DEF SocketsHeld, LeaksOnlyByFailure
<1> QED
  BY <1>1, <1>2, <1>3, <1>4, <1>5, <1>6

LEMMA HandleSocketKeeps == ASSUME NEW t \in Threads, IInv, HandleSocket(t) PROVE IInv'
<1> USE DEF HandleSocket, Goes, StillHeld, ActiveFds, Close, IInv, calls, thread
<1>1. TypeOK'
  BY DEF TypeOK
<1>2. OneThread' /\ CallerKnows'
  BY DEF OneThread, CallerKnows, Alive
<1>3. LocalsHeld'
  BY DEF LocalsHeld, SocketsHeld, TypeOK
<1>6. BatchHeld'
  BY DEF BatchHeld
<1>4. PipeHeld'
  BY DEF PipeHeld, SocketsHeld
<1>5. SocketsHeld'
  BY DEF SocketsHeld, LeaksOnlyByFailure, TypeOK
<1> QED
  BY <1>1, <1>2, <1>3, <1>4, <1>5, <1>6

LEMMA ReadPipeKeeps == ASSUME NEW t \in Threads, IInv, ReadPipe(t) PROVE IInv'
<1> USE DEF ReadPipe, Goes, ByteTaken, AfterByte, IInv, calls, thread
<1>1. TypeOK'
  BY BoundsAssumption DEF TypeOK, Phases, BatchHeld
<1>2. OneThread' /\ CallerKnows'
  BY DEF OneThread, CallerKnows, Alive
<1>3. LocalsHeld'
  BY DEF LocalsHeld, HoldsEpoll
<1>6. BatchHeld'
  BY DEF BatchHeld, TypeOK, OneThread, Alive
<1>4. PipeHeld'
  BY DEF PipeHeld
<1>5. SocketsHeld'
  BY DEF SocketsHeld, LeaksOnlyByFailure
<1> QED
  BY <1>1, <1>2, <1>3, <1>4, <1>5, <1>6

LEMMA EndBatchKeeps == ASSUME NEW t \in Threads, IInv, EndBatch(t) PROVE IInv'
<1> USE DEF EndBatch, Goes, IInv, calls, thread
<1>1. TypeOK'
  BY DEF TypeOK, Phases
<1>2. OneThread' /\ CallerKnows'
  BY DEF OneThread, CallerKnows, Alive
<1>3. LocalsHeld'
  BY DEF LocalsHeld, HoldsEpoll
<1>6. BatchHeld'
  BY DEF BatchHeld
<1>4. PipeHeld'
  BY DEF PipeHeld
<1>5. SocketsHeld'
  BY DEF SocketsHeld, LeaksOnlyByFailure
<1> QED
  BY <1>1, <1>2, <1>3, <1>4, <1>5, <1>6

LEMMA TunEmptyKeeps == ASSUME NEW t \in Threads, IInv, TunEmpty(t) PROVE IInv'
<1> USE DEF TunEmpty, Goes, ReadTunDevice, IInv, calls, thread
<1>1. TypeOK'
  BY DEF TypeOK
<1>2. OneThread' /\ CallerKnows'
  BY DEF OneThread, CallerKnows, Alive
<1>3. LocalsHeld'
  BY DEF LocalsHeld
<1>6. BatchHeld'
  BY DEF BatchHeld
<1>4. PipeHeld'
  BY DEF PipeHeld
<1>5. SocketsHeld'
  BY DEF SocketsHeld, LeaksOnlyByFailure
<1> QED
  BY <1>1, <1>2, <1>3, <1>4, <1>5, <1>6

LEMMA TunFailsKeeps == ASSUME NEW t \in Threads, IInv, TunFails(t) PROVE IInv'
<1> USE DEF TunFails, Goes, ReadTunDevice, IInv, calls, thread
<1>1. TypeOK'
  BY DEF TypeOK, Phases
<1>2. OneThread' /\ CallerKnows'
  BY DEF OneThread, CallerKnows, Alive
<1>3. LocalsHeld'
  BY DEF LocalsHeld, HoldsEpoll
<1>6. BatchHeld'
  BY DEF BatchHeld, TypeOK
<1>4. PipeHeld'
  BY DEF PipeHeld
<1>5. SocketsHeld'
  BY DEF SocketsHeld, LeaksOnlyByFailure
<1> QED
  BY <1>1, <1>2, <1>3, <1>4, <1>5, <1>6

LEMMA PacketFinishesKeeps == ASSUME NEW t \in Threads, IInv, PacketFinishes(t) PROVE IInv'
<1> USE DEF PacketFinishes, Goes, ReadTunDevice, IInv, calls, thread
<1>1. TypeOK'
  BY DEF TypeOK
<1>2. OneThread' /\ CallerKnows'
  BY DEF OneThread, CallerKnows, Alive
<1>3. LocalsHeld'
  BY DEF LocalsHeld
<1>6. BatchHeld'
  BY DEF BatchHeld
<1>4. PipeHeld'
  BY DEF PipeHeld
<1>5. SocketsHeld'
  BY DEF SocketsHeld, LeaksOnlyByFailure
<1> QED
  BY <1>1, <1>2, <1>3, <1>4, <1>5, <1>6

LEMMA OpenSocketKeeps == ASSUME NEW t \in Threads, IInv, OpenSocket(t) PROVE IInv'
<1> USE DEF OpenSocket, Goes, ReadTunDevice, Lowest, IInv, calls, thread
<1>1. TypeOK'
  BY DEF TypeOK, Phases
<1>2. OneThread' /\ CallerKnows'
  BY DEF OneThread, CallerKnows, Alive
<1>3. LocalsHeld'
  BY NoFdFact DEF LocalsHeld, TypeOK, HoldsEpoll, SocketsHeld
<1>6. BatchHeld'
  BY DEF BatchHeld
<1>4. PipeHeld'
  BY DEF PipeHeld
<1>5. SocketsHeld'
  BY NoFdFact DEF SocketsHeld, LeaksOnlyByFailure, LocalsHeld, TypeOK
<1> QED
  BY <1>1, <1>2, <1>3, <1>4, <1>5, <1>6

LEMMA GiveUpKeeps == ASSUME NEW t \in Threads, IInv, GiveUp(t) PROVE IInv'
<1> USE DEF GiveUp, Goes, IInv, calls, thread
<1>1. TypeOK'
  BY DEF TypeOK, Phases, LocalsHeld
<1>2. OneThread' /\ CallerKnows'
  BY DEF OneThread, CallerKnows, Alive
<1>3. LocalsHeld'
  BY DEF LocalsHeld, TypeOK, HoldsEpoll, OneThread, Alive
<1>6. BatchHeld'
  BY DEF BatchHeld
<1>4. PipeHeld'
  BY DEF PipeHeld
<1>5. SocketsHeld'
  BY DEF SocketsHeld, LeaksOnlyByFailure, LocalsHeld
<1> QED
  BY <1>1, <1>2, <1>3, <1>4, <1>5, <1>6

LEMMA ProtectKeeps == ASSUME NEW t \in Threads, IInv, Protect(t) PROVE IInv'
<1> USE DEF Protect, Goes, NowProtected, IInv, calls, thread
<1>1. TypeOK'
  BY DEF TypeOK, Phases, LocalsHeld
<1>2. OneThread' /\ CallerKnows'
  BY DEF OneThread, CallerKnows, Alive
<1>3. LocalsHeld'
  BY DEF LocalsHeld, HoldsEpoll
<1>6. BatchHeld'
  BY DEF BatchHeld
<1>4. PipeHeld'
  BY DEF PipeHeld
<1>5. SocketsHeld'
  BY DEF SocketsHeld, LeaksOnlyByFailure
<1> QED
  BY <1>1, <1>2, <1>3, <1>4, <1>5, <1>6

LEMMA ConnectKeeps == ASSUME NEW t \in Threads, IInv, Connect(t) PROVE IInv'
<1> USE DEF Connect, Goes, IInv, calls, thread
<1>1. TypeOK'
  BY DEF TypeOK, Phases
<1>2. OneThread' /\ CallerKnows'
  BY DEF OneThread, CallerKnows, Alive
<1>3. LocalsHeld'
  BY DEF LocalsHeld, TypeOK, HoldsEpoll, OneThread, Alive
<1>6. BatchHeld'
  BY DEF BatchHeld
<1>4. PipeHeld'
  BY DEF PipeHeld
<1>5. SocketsHeld'
  BY DEF SocketsHeld, LeaksOnlyByFailure, LocalsHeld, TypeOK
<1> QED
  BY <1>1, <1>2, <1>3, <1>4, <1>5, <1>6

LEMMA CloseEpollKeeps == ASSUME NEW t \in Threads, IInv, CloseEpoll(t) PROVE IInv'
<1> USE DEF CloseEpoll, Goes, Close, IInv, calls, thread
<1>1. TypeOK'
  BY DEF TypeOK, Phases
<1>2. OneThread' /\ CallerKnows'
  BY DEF OneThread, CallerKnows, Alive
<1>3. LocalsHeld'
  BY DEF LocalsHeld, TypeOK, HoldsEpoll, OneThread, Alive
<1>6. BatchHeld'
  BY DEF BatchHeld
<1>4. PipeHeld'
  BY NoFdFact DEF PipeHeld, LocalsHeld
<1>5. SocketsHeld'
  BY NoFdFact DEF SocketsHeld, LeaksOnlyByFailure, LocalsHeld, TypeOK
<1> QED
  BY <1>1, <1>2, <1>3, <1>4, <1>5, <1>6

LEMMA ResetIdKeeps == ASSUME NEW t \in Threads, IInv, ResetId(t) PROVE IInv'
<1> USE DEF ResetId, Goes, IInv, calls, thread
<1>1. TypeOK'
  BY DEF TypeOK, Phases
<1>2. OneThread' /\ CallerKnows'
  BY DEF OneThread, CallerKnows, Alive, TypeOK
<1>3. LocalsHeld'
  BY DEF LocalsHeld, HoldsEpoll
<1>6. BatchHeld'
  BY DEF BatchHeld
<1>4. PipeHeld'
  BY DEF PipeHeld
<1>5. SocketsHeld'
  BY DEF SocketsHeld, LeaksOnlyByFailure
<1> QED
  BY <1>1, <1>2, <1>3, <1>4, <1>5, <1>6

\* Files that the rest of the process opens and closes leave the engine's alone.
LEMMA ProcessKeeps == ASSUME IInv, ProcessOpens \/ ProcessCloses PROVE IInv'
<1> USE DEF ProcessOpens, ProcessCloses, Lowest, Close, IInv, calls, thread
<1>1. TypeOK'
  BY DEF TypeOK
<1>2. OneThread' /\ CallerKnows' /\ BatchHeld'
  BY DEF OneThread, CallerKnows, BatchHeld, Alive, Cleared
<1>3. LocalsHeld'
  BY DEF LocalsHeld, TypeOK
<1>4. PipeHeld'
  BY DEF PipeHeld, TypeOK
<1>5. SocketsHeld'
  BY DEF SocketsHeld, LeaksOnlyByFailure, TypeOK
<1> QED
  BY <1>1, <1>2, <1>3, <1>4, <1>5

LEMMA StutterKeeps == ASSUME IInv, UNCHANGED vars PROVE IInv'
BY DEF vars, calls, thread, IInv, TypeOK, OneThread, CallerKnows, LocalsHeld, BatchHeld,
       PipeHeld, SocketsHeld, LeaksOnlyByFailure, Alive, Cleared

LEMMA CallerKeeps == ASSUME IInv, Caller PROVE IInv'
BY JniInitKeeps, StartRefusedKeeps, StartKeeps, StopNotRunningKeeps, StopKeeps,
   JniDoneKeeps, ClosePipeKeeps, StopWriteKeeps, StopWriteFailsKeeps, StopJoinKeeps,
   ClearOneKeeps, StopDoneKeeps, StopRacedKeeps
   DEF Caller, CallerStep

LEMMA ThreadKeeps == ASSUME NEW t \in Threads, IInv, ThreadStep(t) PROVE IInv'
BY AttachKeeps, CheckAllowedKeeps, OpenEpollKeeps, WatchKeeps, CheckKeeps,
   SkipCheckKeeps, WaitKeeps, WaitPipeKeeps, WaitFailsKeeps, HandleSocketKeeps,
   ReadPipeKeeps, EndBatchKeeps, TunEmptyKeeps, TunFailsKeeps, PacketFinishesKeeps,
   OpenSocketKeeps, GiveUpKeeps, ProtectKeeps, ConnectKeeps, CloseEpollKeeps,
   ResetIdKeeps
   DEF ThreadStep

\* The invariant holds in every state.
THEOREM Invariance == Spec => []IInv
<1>1. IInv /\ [Next]_vars => IInv'
  <2> SUFFICES ASSUME IInv, [Next]_vars PROVE IInv'
    OBVIOUS
  <2>1. CASE Caller
    BY <2>1, CallerKeeps
  <2>2. CASE \E t \in Threads : ThreadStep(t)
    BY <2>2, ThreadKeeps
  <2>3. CASE ProcessOpens \/ ProcessCloses
    BY <2>3, ProcessKeeps
  <2>4. CASE UNCHANGED vars
    BY <2>4, StutterKeeps
  <2> QED
    BY <2>1, <2>2, <2>3, <2>4 DEF Next
<1> QED
  BY InitInv, <1>1, PTL DEF Spec

\* Every variable keeps a value of its type, with any number of threads and descriptors.
THEOREM TypeCorrect == Spec => []TypeOK
<1>1. IInv => TypeOK
  BY DEF IInv
<1> QED
  BY Invariance, <1>1, PTL

\* From jni_init to jni_done no descriptor is mixed up with another, lost but by a failure
\* of open_*_socket, in use without protection, or left open.
THEOREM DescriptorsAccountedHolds == Spec => []DescriptorsAccounted
<1>1. IInv => DescriptorsAreOwn
  BY DEF IInv, DescriptorsAreOwn, PipeHeld, LocalsHeld, SocketsHeld
<1>2. IInv => LeaksOnlyByFailure
  BY DEF IInv, SocketsHeld
<1>3. IInv => SocketsAreProtected
  BY DEF IInv, SocketsHeld, SocketsAreProtected
<1>4. IInv => DoneLeavesNothing
  BY NoFdFact DEF IInv, CallerKnows, LocalsHeld, PipeHeld, SocketsHeld, LeaksOnlyByFailure,
     DoneLeavesNothing, Cleared, Alive, HoldsEpoll, TypeOK
<1> QED
  BY Invariance, <1>1, <1>2, <1>3, <1>4, PTL DEF DescriptorsAccounted

\* Event threads and clear() exclude each other without a lock.
THEOREM OneUser == Spec => []SessionsHaveOneUser
<1>1. IInv => SessionsHaveOneUser
  BY NoneAssumption
  DEF IInv, OneThread, CallerKnows, SessionsHaveOneUser, InEngine, Alive
<1> QED
  BY Invariance, <1>1, PTL

-----------------------------------------------------------------------------
(***************************************************************************)
(* What goes wrong only after a failure: a byte that nobody reads, and a   *)
(* start that starts nothing.                                              *)
(***************************************************************************)
\* As long as no thread failed, a byte is in the pipe only while jni_stop waits for a
\* thread that has not come to its end, threads end in a jni_stop only, and a start
\* leaves a thread alive.
Expected ==
    ~failed =>
        /\ bytes > 0 => /\ caller = "join" /\ bytes = 1
                        /\ Alive(target) /\ phase[target] \notin {"ending", "reset"}
        /\ caller = "write" => Alive(target)
        /\ \A t \in Threads : phase[t] \in {"ending", "reset"} =>
              caller = "join" /\ t = target /\ bytes = 0
        /\ caller = "idle" /\ asked = "started" => \E t \in Threads : Alive(t)

LEMMA CallerExpected == ASSUME IInv, Expected, Caller PROVE Expected'
<1> USE DEF Expected, IInv, TypeOK, calls, thread
<1>1. CASE JniInit
  BY <1>1 DEF JniInit, CallerKnows, Alive
<1>2. CASE StartRefused
  BY <1>2 DEF StartRefused, Running, Alive
<1>3. CASE Start
  BY <1>3 DEF Start, Alive
<1>4. CASE StopNotRunning
  BY <1>4 DEF StopNotRunning
<1>5. CASE Stop
  BY <1>5 DEF Stop, Running, Alive
<1>6. CASE JniDone
  BY <1>6 DEF JniDone
<1>7. CASE ClosePipe
  BY <1>7 DEF ClosePipe
<1>8. CASE StopWrite
  BY <1>8 DEF StopWrite, AfterWrite, CallerKnows, Alive
<1>9. CASE StopJoin
  BY <1>9 DEF StopJoin, Alive
<1>10. CASE ClearOne
  BY <1>10 DEF ClearOne
<1>11. CASE StopDone
  BY <1>11 DEF StopDone
<1>12. CASE StopWriteFails
  BY <1>12, BoundsAssumption DEF StopWriteFails
<1>13. CASE StopRaced
  BY <1>13 DEF StopRaced
<1> QED
  BY <1>1, <1>2, <1>3, <1>4, <1>5, <1>6, <1>7, <1>8, <1>9, <1>10, <1>11, <1>12, <1>13
    DEF Caller, CallerStep

LEMMA ThreadExpected == ASSUME NEW t \in Threads, IInv, Expected, ThreadStep(t) PROVE Expected'
<1> USE DEF Expected, IInv, TypeOK, calls, thread
<1>1. CASE Attach(t)
  BY <1>1 DEF Attach, Goes, CallerKnows, Alive
<1>2. CASE CheckAllowed(t)
  BY <1>2 DEF CheckAllowed, Goes, Alive
<1>3. CASE OpenEpoll(t)
  BY <1>3 DEF OpenEpoll, Goes, CallerKnows, Alive
<1>4. CASE Watch(t)
  BY <1>4 DEF Watch, Goes, CallerKnows, Alive
<1>5. CASE Check(t)
  BY <1>5 DEF Check, Goes, Alive
<1>6. CASE SkipCheck(t)
  BY <1>6 DEF SkipCheck, Goes, Alive
<1>7. CASE Wait(t)
  BY <1>7 DEF Wait, Goes, WaitWith, Alive
<1>8. CASE WaitPipe(t)
  BY <1>8 DEF WaitPipe, Goes, WaitWith, Alive
<1>9. CASE WaitFails(t)
  BY <1>9 DEF WaitFails
<1>10. CASE HandleSocket(t)
  BY <1>10 DEF HandleSocket, Alive
<1>11. CASE ReadPipe(t)
  BY <1>11 DEF ReadPipe, Goes, ByteTaken, CallerKnows, BatchHeld, Alive
<1>12. CASE EndBatch(t)
  BY <1>12 DEF EndBatch, Goes, Alive
<1>13. CASE TunEmpty(t)
  BY <1>13 DEF TunEmpty, Alive
<1>14. CASE TunFails(t)
  BY <1>14 DEF TunFails
<1>15. CASE PacketFinishes(t)
  BY <1>15 DEF PacketFinishes, Alive
<1>16. CASE OpenSocket(t)
  BY <1>16 DEF OpenSocket, Goes, Alive
<1>17. CASE GiveUp(t)
  BY <1>17 DEF GiveUp, Goes, Alive
<1>18. CASE Protect(t)
  BY <1>18 DEF Protect, Goes, Alive
<1>19. CASE Connect(t)
  BY <1>19 DEF Connect, Goes, Alive
<1>20. CASE CloseEpoll(t)
  BY <1>20 DEF CloseEpoll, Goes
<1>21. CASE ResetId(t)
  BY <1>21 DEF ResetId, Goes
<1> QED
  BY <1>1, <1>2, <1>3, <1>4, <1>5, <1>6, <1>7, <1>8, <1>9, <1>10, <1>11, <1>12, <1>13,
     <1>14, <1>15, <1>16, <1>17, <1>18, <1>19, <1>20, <1>21
    DEF ThreadStep

THEOREM History == Spec => []Expected
<1>1. Init => Expected
  BY DEF Init, Expected
<1>2. IInv /\ Expected /\ [Next]_vars => Expected'
  <2> SUFFICES ASSUME IInv, Expected, [Next]_vars PROVE Expected'
    OBVIOUS
  <2>1. CASE Caller
    BY <2>1, CallerExpected
  <2>2. CASE \E t \in Threads : ThreadStep(t)
    BY <2>2, ThreadExpected
  <2>3. CASE ProcessOpens \/ ProcessCloses \/ UNCHANGED vars
    BY <2>3 DEF ProcessOpens, ProcessCloses, vars, calls, thread, Expected, Alive
  <2> QED
    BY <2>1, <2>2, <2>3 DEF Next
<1> QED
  BY Invariance, <1>1, <1>2, PTL DEF Spec

\* After a stop no event thread is left, and unless a thread failed, a start leaves one
\* alive and no stop byte waits for a thread it was not written for.
THEOREM EngineAsAskedHolds == Spec => []EngineAsAsked
<1>1. IInv => StopEndsEngine
  BY DEF IInv, CallerKnows, StopEndsEngine
<1>2. Expected => StopByteTaken
  BY DEF Expected, StopByteTaken
<1>3. Expected => StartedRuns
  BY DEF Expected, StartedRuns
<1> QED
  BY Invariance, History, <1>1, <1>2, <1>3, PTL DEF EngineAsAsked
=============================================================================
