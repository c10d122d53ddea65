# PdaNet VPN client: TLA+ specifications

TLA+ models of the PdaNet VPN client, the TLC configurations that check them, and proofs, checked by TLAPS, of what
matters most. Paths of C files are relative to `src/app/src/main/cpp`, paths of Kotlin files to
`src/app/src/main/kotlin`.

## The system

An Android phone joins the Wi-Fi Direct network of another phone that runs PdaNet. The other phone offers an HTTP proxy at
192.168.49.1:8000. This app notices the network, opens a VPN (a *tun* device that receives the IP packets of every
application on the phone), and carries the traffic to the proxy. Two engines for that are in the tree: the C engine
(`libtun2http`: terminates the applications' TCP connections, opens its own sockets, sends `CONNECT` to the proxy on ports 80 and
443), and an external library, tun2proxy, which the present VPN service calls.

```
 Wi-Fi networks --callbacks--> PdaNetMonitorService --start/stop intents--> Tun2HttpVpnService
                                                                               |  establish, thread
                                                                               v
 applications <--IP packets--> tun device <--fd--> tun2proxy (external)   or   C engine: event loop
                                                                               |-- TCP sessions --> sockets, proxy
                                                                               |-- UDP, ICMP sessions --> sockets
```

### Inventory

| Component | State it keeps | Operations | Talks to | What is hard | What makes it correct |
|---|---|---|---|---|---|
| **TCP session engine** (`tcp.c`) | per session: state, `connect_sent`, sequence numbers, window, queue of segments, last-use time; one socket | `handle_tcp` (packet of the application), `queue_tcp`, `check_tcp_socket` (event of the socket), `monitor_tcp_session` (interest), `check_tcp_session` (timeouts), `write_*` | event loop (called), kernel (sockets, epoll), tun device, proxy | segments lost, repeated, overlapping, out of order; batches whose events are older than their packets; partial and failed `send`; failed tun writes; half-open sessions | every byte forwarded once and in order, acknowledged only then; the window respected; sockets released; sessions freed |
| **Event loop, session table** (`session.c`, `ip.c`) | list of sessions, epoll set, stop pipe, counts, time of the last check | `handle_events`: monitor, check, wait, batch; `check_tun` | everything native | counts taken once per turn; batch order; checks at most every 100 ms | limit respected; no session starves; an event never refers to a freed session |
| **Sequence arithmetic** (`util.c` `compare_u32`, used in `tcp.c`) | none | comparison, distance, send window | TCP engine | wrap at 2^32, signed overflow at 2^31 | never more in flight than the window; good acknowledgements accepted |
| **Monitor service** (`com/pdanetclient/PdaNetMonitorService.kt`) | `vpnServiceRunning`, `networkCallback` | `onCreate`, `onDestroy`, network callbacks, `checkNetwork`, start and stop of the VPN service | ConnectivityManager, VPN service | two threads share the flag; callbacks describe the past; calls throw | tunnel asked for exactly while PdaNet is there |
| **VPN service** (`tun/proxy/service/Tun2HttpVpnService.kt`, `com/github/shadowsocks/bg/Tun2proxy.kt`) | `vpn` descriptor, wake lock, the tun2proxy thread | `onStartCommand`, `onDestroy`, `onRevoke`, `startTunnel`, `stopTunnel` | monitor service, system, tun2proxy | queued start commands, `stopSelf` without id, revocation, the spawned thread reads the descriptor late | no tunnel without descriptor, no descriptor or wake lock left behind |
| **Native lifecycle** (`tun2http.c`) | `thread_id`, the signal pipe, JNI references | `jni_init`, `jni_start`, `jni_stop`, `jni_done`, `protect_socket` | event loop thread | unsynchronised globals, a stop byte left in the pipe, descriptors whose numbers come back, steps of `open_*_socket` that fail | one user of the session list at a time; a stop ends the thread that runs; every descriptor is held by one owner or closed |
| **UDP sessions** (`udp.c`) | per session: state, socket, last-use time, counters | `handle_udp`, `check_udp_socket`, `check_udp_session`, `monitor_udp_session` | event loop, DNS parser, DHCP | finishing sessions ignore packets; errors handled only by timeouts | answers go to the session that asked; sessions freed |
| **ICMP sessions** (`icmp.c`) | per session: id, socket, stop flag, time | `handle_icmp`, `check_icmp_socket`, `check_icmp_session` | event loop | id translation | echo replies carry the asker's id |
| **IP dispatch** (`ip.c`) | none | `handle_ip`: validation, session limit, dispatch by protocol | event loop, sessions | limit judged on stale counts | invalid packets change nothing |
| **TLS, HTTP, DNS parsing** (`tls.c`, `http.c`, `dns.c`) | one static buffer (`http.c`) | `get_sni`, `patch_http_url`, `get_qname`, `parse_dns_response` | TCP and UDP engines | lengths at boundaries, parts of variable length, compression pointers, comparison behind the segment's end | the name is that of the hello and lies inside the segment; a request is rewritten at its request line, once; the position behind a name; termination |
| **DHCP replies** (`dhcp.c`) | none | `check_dhcp` | UDP engine | the session's address is overwritten, options are written outside the answer | none stated by the code |
| **Activities, boot receiver** (`MainActivity.kt`, `VpnPermissionActivity.kt`, `BootReceiver.kt`) | none | start the services after dialogs or at boot | services, user | start without permission; permission that comes after the network | whoever grants the permission gets the tunnel |
| **Checksums, utilities** (`util.c`, `tun/utils/Util.kt`) | none | checksum, hex, process names, DNS list | all | odd lengths, carries, sums taken in pieces | the receiver finds the checksum right |

The tests in the tree are the generated Android templates; they say nothing of the above. The repository's own description of
what the app should do is the file `src/attempt connect` ("Auto-starts when PdaNet detected, stops when disconnected").

## The modules

| Module | Models | Checked by | Proved in |
|---|---|---|---|
| `TcpSession` | one TCP session and the event loop as it sees it | `MCTcpSession` with `MCTcp*.cfg` | `TcpSessionProofs` |
| `ByteRelay` | what a TCP session promises for the application's bytes; `TcpSession` implements it | `MCTcpProxied.cfg` (`RelaysBytes`) | `TcpSessionProofs` |
| `SeqNum` | `compare_u32` with its overflow, `get_send_window`, judging of acknowledgements | `MCSeqNum.cfg` | `SeqNumProofs` |
| `DatagramSessions` | the table of UDP and ICMP sessions, the session limit, the event loop with its end and restart | `MCDatagram.cfg` | `DatagramProofs` |
| `NativeEngine` | the JNI calls, the event thread, the stop pipe, all descriptors | `MCNative.cfg` | `NativeEngineProofs` |
| `Packets` | `handle_ip`'s checks and dispatch; the packets `write_tcp`, `write_udp`, `write_icmp` build; `calc_checksum` | `MCMessages` | `MessagesProofs` |
| `Requests` | the server name of a TLS hello, the rewriting of HTTP requests | `MCMessages` | `MessagesProofs` (`NameIsInside`) |
| `DnsDhcp` | names of DNS messages, answers to DHCP requests | `MCMessages` | `MessagesProofs` (`ResumesBehindName`) |
| `Messages` | the three above on the one event thread | `MCMessages` with `MCMessages.cfg` | `MessagesProofs` (the types) |
| `PdaNetMonitorService` | the monitor service, its two threads, the networks | `MCMonitor.cfg` | `MonitorProofs` |
| `Tun2HttpVpnService` | the VPN service, its main and binder threads, the tun2proxy threads | `MCVpn.cfg` | `VpnProofs` |
| `VpnCommands` | what the VPN service promises; `Tun2HttpVpnService` implements it | `MCVpn.cfg` (`CommandsInOrder`) | `VpnProofs` |
| `PdaNetClient` | monitor, VPN service, activities, boot receiver, user and system together | `MCClient.cfg`, `MCClientGrant.cfg` | `ClientProofs` |

In every module, operators marked `mutant` are plausible mistakes (a dropped guard, a forgotten assignment, a wrong order) in the
definition that follows them. The specification does not use them; with one of them in the place of its definition a property
fails. They document what each property is sensitive to.

### TcpSession

One 4-tuple of addresses and ports; a session for it comes, goes and may come again. The variables are the fields of
`struct tcp_session` that steer control (`state`, `connect_sent`, `remote_seq`, `local_seq`, `acked`, `send_window`,
`recv_window`, `forward`, and `expired` for the comparison of `time` with its timeout), the locals of `check_tcp_socket` that
live across its parts (`room`, `fwd`), the position of the only thread (`phase`), the epoll registration and the session's entry
in the batch (`mask`, `ev`), the socket as the kernel has it (`sock`, `obuf`, `rx`, `eof`, `reply`) with the `server` behind it,
and three history variables: `handed` (how often a byte was given to the socket), `lost` (dropped because `send` failed) and
`skipped` (passed by the acknowledgement as if it were a SYN or FIN).

| Action | Code |
|---|---|
| `AppSyn`, `AppSegment`, `AppRst`, `UnknownPacket` | `handle_tcp`; one sub-action per path: `NewSession`, `ProxiedPacket` (ports 80 and 443 until CONNECT is answered), `ClosedPacket`, `RefuseData`, `RstPacket`, `RepeatedSyn`, `FinPacket`, `AckPacket`, `OldAckPacket`, `FutureAckPacket` |
| `Monitor`, `SkipCheck`, `CheckTcpSession`, `EpollWait`, `EndBatch` | one turn of `handle_events`: `monitor_tcp_session`, the 100 ms rule, `check_tcp_session`, `epoll_wait`, the end of the batch |
| `SocketError`, `ConnectReply`, `SocketConnected` | `check_tcp_socket` for an error, and while listening |
| `SocketReady`, `ForwardSegment`, `ForwardDone`, `AckForwarded`, `ReadNothing`, `ReadData`, `ReadEof`, `ReadError` | `check_tcp_socket` otherwise: forwarding loop, acknowledgement, read. The kernel may act between them; no packet is handled between them, because there is one thread |
| `ConnectDone`, `SocketBreaks`, `Drain`, `ProxyReply`, `ServerSend`, `ServerClose`, `Tick` | outside the code: kernel, proxy, server, time |

Abstractions. Sequence numbers of the application are offsets from its initial number and do not wrap (`SeqNum` treats
wrapping). Bytes are positions, not values, so a retransmission carries the same bytes, as TCP requires. The host name of a TLS
hello or HTTP request is always found. The answer to CONNECT is readable in one piece. `recv_window` is reduced to "is it
positive", the only question the code asks of it between calls. The packets other sessions cause are invisible, except that
`epoll_wait` may return without this session's event although it is ready. Before a SYN/ACK the application sends only SYNs.

**What a session promises.** `ByteRelay` knows three things: is there a socket (`connected`), up to where is the stream settled (`next`), and what became of
each byte (`fate`: waiting, given to the socket, lost in a failed `send`, or passed as if it were a SYN or FIN). Bytes are settled in order, all bytes of one
step alike, never twice, and given or lost only while there is a socket. `TcpSession` implements it with `connected` = the descriptor is open,
`next` = `remote_seq` and `fate` read off `handed`, `lost` and `skipped`. Most steps of the session stutter; a forwarded segment is `Forward`, `remote_seq++`
is `Pass`, `AppSyn` is `Open`, and every path that closes the descriptor is `Close`.

### SeqNum

Numbers are unsigned of `2 * Half` values (`Half` = 2^31 in the program). `CompareU32` returns the *set* of results
`compare_u32` may give: it converts to `int`, and where the difference of the two ints overflows, C leaves the outcome open.
`WriteData` and `HandleAck` are the two places that depend on it.

### PdaNetMonitorService

The main thread and the ConnectivityThread each have a program counter, the network they look at and the service instance they
work for. A step is one access to what they share: reading the link properties, reading `vpnServiceRunning`, the call, writing
the flag. Networks and callbacks are modelled from how the code uses ConnectivityManager: callbacks wait in a queue, link properties
are read at the time of the call, unregistering drops what is queued but not what is being handled. `blame` remembers that
the two threads overlapped, that a call failed or that a second Wi-Fi network was in play; the properties that hold only without
that say so. An overlap does this: the main thread's check finds no PdaNet, a
callback then starts the VPN service, and the check stops it again. A second network does this: `checkNetwork` stops the VPN service
when any other Wi-Fi network is reported, and `onLost` when any is lost (lines 79-81, 134-138), although PdaNet is still there, and nothing
starts it again until PdaNet is reported anew. `recheckNetwork` is left out: it runs only if `networkCallback` is set when `onCreate` starts, which it never is.

### DatagramSessions

`table` maps the addresses `malloc` may return to sessions: protocol, flow (a pair of addresses and ports, for ICMP of addresses),
ICMP id, state, the seconds since it was used (`idle`), registration with the present loop's epoll set, and, as the kernel has them, what the socket was asked,
what it received and whether it has an error. `icmp.stop` is the state FINISHING. The position of the thread in the loop is `phase`.

| Action | Code |
|---|---|
| `CountSessions`, `CheckSessions`, `SkipCheck`, `EpollWait`, `EndBatch` | one turn of `handle_events`; the check calls `check_udp_session` and `check_icmp_session` (`CheckUdp`, `CheckIcmp`) with the turn's count |
| `TunEvent`, `HandleIp`, `TunDrained` | the loop around `check_tun`: `handle_ip` judges the limit, `handle_udp` (`HandleUdp`, `IgnoreUdp`) and `handle_icmp` (`HandleIcmp`) find or create the session and send (`Forward`) |
| `UdpEvent`, `ReadUdp`, `ReadUdpDone` | the loop around `check_udp_socket`; between two reads the kernel may act |
| `IcmpEvent` | `check_icmp_socket` |
| `TunFails`, `Stop`, `Restart` | the loop ends on an error of the tun device (sessions stay) or is stopped (`clear`); the next one begins with `check_allowed` |
| `Answer`, `SocketError`, `Tick` | outside the code; `Tick` is a second for all sessions |

`ScaledTimeout` is `get_udp_timeout` and `get_icmp_timeout` with their integer divisions: with none of the table used a session has its whole timeout, at
`maxsessions` it ends when it was not used for a second, and above, where the timeout is negative (C rounds towards zero), also when it was used just now.
The count takes in the TCP sessions, any number up to `MaxTcp`.

Abstractions: one answer per request; the list is a set of addresses; time passes between two turns, since a use sets `time` anew and the check looks at it
at the start of a turn, and an age is counted up to one second beyond the timeout that it is compared with (`Oldest`);
the DHCP branch of `handle_udp` is in `DnsDhcp`, and
`block_udp`, which nothing calls, is left out. A DNS session finishes with its first answer,
whatever `parse_dns_response` makes of it.

What the code does not do here, and the properties therefore do not claim: the limit on sessions (`ip.c:235`) is judged on the count of
the turn, so a batch of packets may exceed it, and then the next check ends sessions in use; DNS that is not forwarded is never refused (`udp.c:138`); an error event of a UDP socket is never
handled (`session.c:247`) and only the timeout ends that session.

### Tun2HttpVpnService

A step is one access to the fields `vpn` and `wakeLock` or one call, on the main thread or on the binder thread of `onRevoke`.
`inbox` is the main thread's queue. The system is modelled from its use: a service lives while it is started or bound, and is bound while
its VPN interface exists; `stopSelf()` without a start id ends it whatever is queued; `tun2proxy` runs one instance and `stop()` is for the
one that runs. An exception nobody catches (`pfd.fd` of a closed descriptor in the thread, a wake lock released twice on the main
thread) ends the process (`Crash`).

| Action | Code |
|---|---|
| `Request` | `start()` and `stop()` of the companion object |
| `OnCreate`, `OnStart`, `OnStopOrDestroy`, `OnRevoke` | entry of `onStartCommand`, `onDestroy`, `onRevoke` |
| `Establish`, `KeepVpn`, `NewWakeLock`, `Acquire`, `Spawn`, `Fails` | `startTunnel`, line by line, and its catch block |
| `ReadVpn`, `Shutdown`, `ClosePfd`, `NullVpn`, `Release`, `NullWakeLock`, `Finish` | `stopTunnel`, line by line, and the `stopSelf` or return behind it |
| `WorkerFd`, `WorkerRun`, `WorkerStops`, `WorkerFails` | the thread of lines 150-160 with `Tun2proxy.start` |

`blame` remembers what properties make exception for, until nothing is left of it: `overlap` (two threads in `startTunnel` or `stopTunnel`), `late` (a
tunnel was stopped before its thread ran tun2proxy), `behind` (a start was queued behind a stop), `trouble` (revocation, failed
call, tun2proxy exited). These are real weaknesses of the code: an overlap leaks a wake lock or ends the process, a
late thread ends the process or leaves tun2proxy on a closed descriptor, and a start behind a stop sets up a tunnel that the stop's
`stopSelf` takes down again.

**What the service promises.** `VpnCommands` takes commands in order: a tunnel appears only when a start has its turn, a stop that had its turn leaves none,
a start that fails is followed by a stop, a service that is gone is created before a start has its turn, and a tunnel may be lost at any time. `Tun2HttpVpnService` implements it with `commands` = the order the main
thread works on and those in its queue (the end of the service counts as a stop), `tunnel` = the field `vpn` is set. A start has its turn at `Establish`
and `KeepVpn`, a stop at `NullVpn`. `PdaNetClient` takes orders as single steps on the strength of this.

### NativeEngine

One thread of the application calls `jni_init`, `jni_start`, `jni_stop`, `jni_done` one at a time, `jni_done` after a stop. No Kotlin file calls them
today (the present service runs tun2proxy), so this order is what their names and the service's life ask for. `Threads` are the identifiers
`pthread_create` gives; the event thread runs beside the caller, and so does the rest of the process, which opens and closes files, so that the
lowest free number (`Lowest`) of a closed descriptor comes back as something else. `kernel` says what each number is; `pipefds`, `epoll_fd`, `sock` and
`held` (the sockets of the sessions in the list) say what the code believes.

| Action | Code |
|---|---|
| `JniInit`, `JniDone`, `ClosePipe` | `jni_init` (pipe, empty list), `jni_done` (`clear`, the two `close`) |
| `Start`, `StartRefused` | `jni_start`: `pthread_kill(thread_id, 0)`, `pthread_create` |
| `StopNotRunning`, `Stop`, `StopWrite`, `StopJoin`, `ClearOne`, `StopDone` | `jni_stop`: the test, the byte, `pthread_join`, `clear` session by session |
| `StopWriteFails`, `StopRaced` | its branch without a join: the pipe does not block, and is full of bytes that nobody read |
| `Attach`, `CheckAllowed`, `OpenEpoll`, `Watch` | `handle_events` up to its loop; each may fail and goes to the end |
| `Check`, `SkipCheck`, `Wait`, `WaitPipe`, `WaitFails`, `HandleSocket`, `ReadPipe`, `EndBatch` | one turn of the loop; the stop byte ends it with the rest of the batch unread |
| `TunEmpty`, `TunFails`, `PacketFinishes`, `OpenSocket`, `Protect`, `Connect`, `GiveUp` | the packets of the tun device: `open_tcp_socket`, `open_udp_socket`, `open_icmp_socket` with `protect_socket`; `GiveUp` returns -1 and leaves the socket open |
| `CloseEpoll`, `ResetId` | the end of `handle_events`: `close(epoll_fd)`, `thread_id = 0` |

What packets and answers do to a session is in `TcpSession` and `DatagramSessions`; here a session is its socket, active or finishing, until it is closed:
by a check, or by the event that brings the end of its stream (`tcp.c:430`). When the byte of a stop cannot be written, `clear()` runs beside the event thread.
That is the one case in which the list has two users; what they leave of it is undefined, so the model follows it until `jni_stop` returns (`raced`) and makes no
further call.

### Packets, Requests, DnsDhcp, Messages

Functions of one packet, segment or datagram. A variable holds arguments and result of the call under way (`call`, `parse`, `dns`); the event thread handles one at
a time (`Messages`).

* `HandleIp` is the tests of `handle_ip` in their order: version, length, fragment bit, total length, extension headers (`ChainEnd`: the loop follows the
  chain only while the *next* type is an extension, so it never arrives at a transport header), the unsigned length of the payload.
* `WriteTcp`, `WriteUdp`, `WriteIcmp` build headers field by field, `Checksum` is `calc_checksum` over words in memory order with its carries; a sum is taken in
  pieces exactly where the code does (pseudo header, header, options, data).
* `parse_tls_header`, `parse_extensions`, `parse_server_name_extension` are the functions of `tls.c`, check by check. The inputs are hellos
  built from a grammar (`Hello`), whole, cut anywhere, or with one byte changed.
* `find_data` and `patch_http_url` are those of `http.c`, including the comparison that reads behind the segment; what memory holds there is an input (`Behind`).
* `FollowPointer`, `CopyLabel`, `BadName`, `EndName` are one turn each of the loop in `get_qname`, with `noff` as wide as in the code;
  `QueryDone`, `Question`, `Answer` are its callers. Steps, not a function, because whether the loop ends is a question of its own: a name whose pointers never go
  backwards does not end it (`dns.c:12`), and `EventuallyReturns` says that only those do that.
* `check_dhcp` decides which requests are answered, with what, and to whom.

The code's own deviations are in the properties as exceptions, each named at its line: a header length that exceeds the packet passes the unsigned test
(`PayloadInside`), an RST for an unknown session of version 6 is written as version 4 (`AnswerReachesAsker`), words of the method list in a request's body
(`PatchedAtRequestLine`), names longer than `noff` counts (`NameDecoded`), labels in front of a pointer (`ResumesBehindName`).

### PdaNetClient

Extends `PdaNetMonitorService`: its threads' calls put orders into the queue of the VPN service (`orders`), whose handling is one step an order (`VpnStarts`,
`VpnFails`, `VpnStops`, `VpnStopsSelf`, `VpnDestroyed`, `Revoke`), as `VpnCommands` allows. `BootReceiver`, `LaunchMain`, `AnswerBattery`, `AnswerVpn`,
`LaunchPermission` and `AnswerPermission` are the receiver and the activities with their dialogs; `ProcessDies` kills the process, of which only the monitor (`START_STICKY`)
comes back. Nothing tells the monitor what became of the tunnel: `trouble` remembers how its flag and the tunnel came apart (`denied`, `failed`, `revoked`,
`behind` a stop, ordered `byhand`), and the properties promise nothing about a tunnel meanwhile.

## The runs

| Run | Configuration | Question | Result |
|---|---|---|---|
| `tcp_direct` | direct port; 3 bytes in 5 overlapping segments, SYN data, 2 bytes of the server, window 0 or 1, send buffer 3, EPIPE, failing tun writes | bytes accounted for; queue in order and empty at the end; descriptors closed once and on time; window respected | holds |
| `tcp_proxied` | ports 443 and 80; 2 bytes in 3 segments, 1 byte of the server, window 0 or 5 | the stream reaches the proxy only behind an answered CONNECT; the CONNECT path revives no closed session; the session implements `ByteRelay` | holds |
| `tcp_liveness` | all ports; 1 byte each way | a session whose application fell silent is freed | holds |
| `tcp_retry` | EAGAIN allowed | "Retry later" (`tcp.c:333`) | **violated**: -1 compares as a large unsigned number (line 325), the segment is dropped and acknowledged |
| `seqnum` | 32 numbers, window 6, both wraps | window respected; resets only across 2^31 | holds |
| `datagram` | 2 session addresses and up to 1 TCP session, limit 2, a DNS and another UDP flow, one ICMP pair, calls may fail | one session per flow; events never refer to freed sessions; sessions of an earlier loop end; a session keeps the free part of its timeout; all is freed in the end | holds |
| `messages` | see the bounds below | dispatch only with a whole header; valid packets; the name of the hello, from the segment only; requests rewritten once, at the request line; DNS names and the position behind them; `get_qname` returns | holds, with the exceptions the properties name |
| `native` | 2 thread identifiers, 5 descriptors, one file of the rest of the process, threads and calls may fail | descriptors neither mixed up nor lost; one user of the session list; the engine runs exactly when asked; a stop returns | holds, with the exceptions the properties name |
| `monitor` | 2 networks of which one may be PdaNet, 3 queued callbacks, 2 instances, calls may fail | the flag tells the request; the request follows the network | holds, with the exceptions named in the properties |
| `vpn` | 2 descriptors, 3 queued messages, revocation, failing calls | nothing left of a destroyed service, no half tunnel; crash only after a race; a tunnel as asked; `VpnCommands` implemented; eventually served, and eventually gone | holds, with the exceptions named in the properties |
| `client` | 1 network, 2 callbacks, 2 instances, 3 orders, both activities, failing calls | a tunnel only on PdaNet, one on PdaNet when all is handled, and for good when PdaNet stays | holds, with the exceptions named in the properties |
| `client_grant` | the same with 1 callback and no failing call | "Auto-starts when PdaNet detected" (`attempt connect:28`), also when the permission comes after the network | **violated**: the flag stands for a start that was denied, so the monitor orders no tunnel when the permission is there |

What the code does besides, for which no document promises otherwise, and which no run calls a violation: an acknowledgement across 2^31 resets a session; a SYN
repeated on a proxied port triggers CONNECT on an unconnected socket, which resets it (`tcp.c:731`); the sessions of two pings to one host share
the id of the first (`icmp.c:162`); a DHCP answer overwrites its session's address, and its options land outside the answer (`dhcp.c:42`, `67`).

### Bounds, and why they are enough

*Three bytes* are the least with which a segment can be inserted between two queued ones, overlap both, and leave a gap; the model's
guards compare starts and ends only, so more bytes repeat the same cases. *Two bytes* in three segments keep overlap and gap in
the proxied run, where the question is the order of CONNECT and stream. *Windows* 0 and 1 make the window close and reopen with 2
bytes of the server; 0 and 5 make it never the limit while open. The *send buffer* of 3 makes it full, partly free and empty.
`Mss` = 1 splits the server's bytes. `LocalIsn` = 3 leaves room for acknowledgements of less than was sent. A session can be
freed and opened anew without bound: the state space is finite because the numbers start afresh.
`Half` = 16 with `Window` = 6 (the program: at most 65535 * 2^14, less than half of 2^31) covers every position of the window
relative to both wraps. *Three callbacks* make available, properties and lost of one network wait together;
*two instances* give a fresh flag after a destroyed one. *Two session addresses* and *one TCP session* with a *limit of two* make the
scale 100, 50, 0 and negative, with timeouts of 1 and 2 seconds whose half is cut off or is not; a table becomes full, or too full, within one batch, and an address is used again; `MaxRx` bounds what waits in one socket.
`Fds` = 5 holds the pipe, an epoll file and two sockets or a socket and a file of the process, so that each number is seen in each role; with *two threads* one
that ended on its own is still unjoined while the next runs; `MaxBytes` = 2 (the program: 65536) lets a byte nobody took meet the byte of the next stop, and lets the pipe be full. In `messages`
a byte has 8 values in headers and 16 in names (`Flag` = 4: labels of up to 3 bytes), which makes sums carry, and names longer than `NameMax` = 7 wrap
`noff`; bodies of up to 5 bytes hold two labels, and pointers backwards, forwards, to themselves and out of the message; `Lengths` are the minima of `handle_ip` for both versions, and numbers just below
them; three methods of which one ends another, and bodies that contain or begin one, are the cases `find_data` tells apart; `MaxHost` = 6 covers
hosts of the segment and hosts that go on behind it. TLS lengths keep 16 bits and positions their full width. In `client` *one network* comes, goes and changes its gateway; *two
instances* give a monitor that came back; *three orders* let a start wait between two stops.
Nothing new begins once a race of the monitor's threads or a failed call confused its flag (`Goes`), and one trouble from outside comes at a time (`Calm`), since the properties
say nothing of those states.
*Two descriptors* of `vpn` let a new tunnel begin while an old one's thread still runs; *three messages* let a start and a stop wait together, and a new instance
be created behind a destroyed one. After two threads overlapped only stops follow in `vpn`, since no property says anything of that process.

Runs that check safety only use `Spec`; deadlock is checked everywhere.

### Fairness

`tcp_liveness` assumes weak fairness of the loop and of `check_tcp_socket` (one thread that the operating system schedules, and that blocks
only in `epoll_wait`, which has a timeout), strong fairness of the check (it is skipped only for 100 ms at a time, `session.c:117`) and strong fairness of
`Tick` (the model lets time pass only between turns, so `Tick` is enabled again and again, not continuously). It assumes nothing of the
application, proxy or kernel; the server's stream is finite. The property is conditional on the application's silence, since each of its packets
refreshes the session, as the code wants it. `datagram` assumes the same of its loop, and that the engine is started again after its loop ended
(else the sessions wait in the table for good, which is what the code does); `Tick` is strongly fair. `vpn` assumes that the main,
binder and tun2proxy threads are scheduled and that the system unbinds when the interface is gone, nothing of commands, revocations or failures. The monitor's fairness is that both threads are scheduled; networks, user and system are free.
`client` assumes no more: the main thread and the ConnectivityThread are scheduled. `native` assumes that caller and event thread are scheduled, that `epoll_wait` goes round among
the ready descriptors, so that the pipe's turn comes (`SF WaitPipe`), and that the packets waiting in the tun device run out now and then (`SF TunEmpty`): while they do not, the loop over
them never looks at the pipe, and a stop waits. `messages` assumes that the event thread runs on.

## What is proved

All proofs are for arbitrary constants under the modules' named assumptions (`NAssumption`, `SegmentsAssumption`, ...), which say no more
than that bounds are natural numbers, segments lie within the stream and the window is below half of `Half` (true in the program).

**`TcpSessionProofs`**

* `TypeCorrect`: `Spec => []TypeOK`. Inductive by itself. The lemmas `Least`, `PlaceInQueue` and `EnqueueType` show that `queue_tcp`'s search
  finds a place and keeps the queue a sequence of segments.
* `AckedBytesAccountedHolds`: every byte below the acknowledgement number was handed to the socket exactly once, or is one of the losses the code
  accepts; nothing above it was handed over. Every step either leaves `remote_seq`, `handed`, `lost` and `skipped` alone
  (`StreamSteps`), passes one byte (`Acknowledge`), or forwards the head of the queue, which starts at `remote_seq` (`ForwardAccounts`).
* `SocketSafetyHolds` and `ClosedStaysClosedHolds` share the invariant `SocketInv`. `SocketReleased` alone is not
  inductive: while the thread is inside `check_tcp_socket` one has to know that the state is one in which a
  read may close the socket (`EventInHand`), that an event in the batch means there is still a socket (`EventHasSocket`) and that no event outlives
  its batch (`BatchUsedUp`). `ClosedStaysClosed` follows: a state of CLOSE implies there is no socket, and the CONNECT path, the only one
  that could revive the session, needs an open one.
* `RelayHolds`: `Spec => RelaysBytes`, the refinement of `ByteRelay`, by `RelayInv`, the three invariants above together. `AckedBytesAccounted` makes `Fate` a function of the
  position: what lies at or beyond `remote_seq` waits (`FateAhead`), so a step that moves the number settles exactly the bytes it moves over.

**`SeqNumProofs`** proves `Inv` (the engine's view of what is in flight is at least the application's and at most the window), from it
`FlowControl`, and `ResetOnlyAcrossHalf`: where `compare_u32` is wrong, `get_send_window` takes the acknowledgement number itself for
the bytes in flight. That number is then at least `Half - Window`, no smaller than the window, so the engine sends nothing until
the application has caught up.

**`DatagramProofs`** shows one invariant, `IInv`, inductive: every session is `Sane` (only a closed one or one of an earlier loop is unknown to the epoll
set, an ICMP session deals in ids), a flow has one session, an event refers to a session in the list with its socket open
and, if it says there is data, with data; events are handled within their batch and once. Steps fall into three kinds: those that
leave sessions alone (`LoopSteps`), those in which sessions only evolve (`EvolutionOne`, `OneKept`), and the creation of a session for a flow
that has none (`CreationOne`). From it follow `TypeOK`, `OneSessionPerFlow`, `EventHasSession`, `UnwatchedEnds`, and the action property
`SessionsKeepTheirShare`, for all timeouts and limits: `ScaleBound` says that the percentage, rounded down where it is taken off, leaves a scale of at least the free part,
and `ScaledBound` that the second rounding takes off less than a second, which whole seconds of silence do not notice. Neither says anything for a table above
its limit, where the free part is negative and no age is within it.

**`NativeEngineProofs`** proves `TypeCorrect`, `DescriptorsAccountedHolds`, `OneUser` and `EngineAsAskedHolds` for any number of threads and descriptors. `IInv` says who owns what: the thread's
epoll file and the socket it is opening (`LocalsHeld`), the pipe (`PipeHeld`), the sockets of the list (`SocketsHeld`), each of its kind in the kernel and none of two owners; that
a thread that has not ended is the one in `thread_id` (`OneThread`), that the caller's position tells what is alive (`CallerKnows`), and that only a thread in a batch
has events left (`BatchHeld`). None of the properties is inductive without the others: that `close` never hits a descriptor of somebody else needs the
ownership, and this needs that two threads are never inside the engine. The claims that hold only while no thread failed (`Expected`) rest on an invariant of their own
on top of `IInv`.

**`TcpSessionProofs`** shows three more invariants, each on top of `TypeOK` and `SocketInv`:

* `ConnectFirstHolds`, by `ConnectInv`. That nothing reaches the proxy before its answer is not inductive: one has to follow the event from the mask (`UnansweredMask`) to the
  batch (`UnansweredBatch`) to the forwarding loop (`UnansweredForward`), and know that events come only from connected sockets (`EventConnected`).
* `EstablishedSkipsNothingHolds`, by `SkipInv`: the first acknowledgement of a session passes its SYN (`SynOnce`), and a session whose number passed a byte instead is on a way
  that never leads to ESTABLISHED; what "on the way" is differs with the port (`SkippedDirect`, `SkippedProxied`).
* `QueueInOrderHolds`, by `QueueInv`: the queue is sorted, only its head is partly sent, and what is partly sent begins below `remote_seq` (`Behind`); the last is what keeps an inserted segment
  from becoming the head in front of one that is half sent. `FinAfterQueue` adds that a session that sent its FIN has an empty queue and no socket to fill it from.

`FlowControlHolds` is the action property: only the last part of `check_tcp_socket` moves `local_seq`, by no more than the window of the last packet allows.

**`MonitorProofs`** proves `TypeCorrect`, `FlagTellsTheRequestHolds` and `RequestFollowsNetworkHolds` for any number of networks, callbacks and instances, by `MonitorInv`. `ServiceInv` says which instance a
thread works for and that no callback waits without a registration. While the threads did not overlap and no call failed, `OrderInv` says that one thread at most is at work, and that the flag is
what was asked last except between a call and the write behind it, and `OffInv` that as long as a tunnel is asked for without PdaNet something on its way will take that back: a callback that waits, or a thread that
saw it. `OnInv` is the converse and needs a world with one Wi-Fi network: for a network with the gateway either the callback that says so waits, with no loss of it behind, or it was acted upon.

**`ClientProofs`** proves `TunnelOnlyOnPdaNetHolds` and `ConnectedOnPdaNetHolds`. Each step of the application is a step of the monitor, a stutter of it, or `ProcessDies`, so `MonitorInv` is kept
(`MonitorSteps`). `LinkInv` ties the monitor's last request to the tunnel through the orders that wait: after a stop the last order that waits is no start (`StopCarried`), after a start each stop that waits has a start
behind it (`StartLast`), and without trouble the start is carried out (`StartCarried`).

**`VpnProofs`** proves `TypeCorrect`, `CommandsInOrderHolds`, `ResourcesWholeHolds`, `DescriptorInUseHolds` and `TunnelAsAskedHolds` for any number of tunnels and waiting messages. `VpnInv` has a part for each exception:

* always: `LocalInv` (the local `pfd` goes with the position in the code, the binder thread only stops), `InboxInv` (creations and destructions alternate in the queue, and the system's record is what the service will be behind
  them), `WorkerInv`, `CrashInv` (the process ends only after a race), `StopInv` (after a stop something that ends the tunnel is at work or behind every start) and `AnewInv`;
* unless two threads overlapped, `WholeInv`: one thread at most is at work, and descriptor, wake lock and both fields are what its position says (`Shape`). It gives `ResourcesWhole`;
* unless a tunnel was also stopped too early, `DescInv`: a tun2proxy thread that has not begun finds its descriptor open, and tun2proxy was told to stop before its descriptor closes. It gives `DescriptorInUse`;
* unless a start was queued behind a stop, `BehindInv`, and with at most a late thread to blame, `StartInv`: the start that was asked for last is carried out or is the last message. They give `TunnelAsAsked`.

`CommandsInOrder` is the refinement of `VpnCommands`, under `BaseInv` alone, so it holds with every race and failure: each step either gives a command (it appears at the end), lets one have its turn (it leaves the front),
is one of the endings the promise allows at any time (`Fail` puts a stop in front, `Lose` takes the tunnel, `Die` all that waits), or leaves the order alone; the order is the main thread's work in front of what waits in its queue.

**`MessagesProofs`** proves `TypeCorrect`, `PayloadInsideHolds`, `AnswersAreValidHolds`, `NameReadHolds` (with `NameIsInsideHolds`) and `QuestionDecodedHolds` (with `ResumesBehindNameHolds`). The state of the first four is simple, since a call has the result of its arguments (`MessagesInv`); the work is in the functions, which recurse over
their data. The library's induction takes a predicate, which the provers cannot use; the least element of a set of natural numbers (`Smallest`) takes its place, and with it
induction over a set (`UpTo`). From these: the recursive function exists (`SumsExist`) and is the only one (`SumUnique`), so that what follows `CHOOSE` in its definition has the value one expects; sums of an even number of bytes and of what
follows them add up (`TotalConcat`); folding the carries of a sum leaves its residue modulo `Base^2 - 1` that is not 0 (`CarryIs`); a checksum continued over pieces covers the sum of all of them (`ChecksumCovers`), and its complement
makes the receiver's sum a multiple (`NotCompletes`). `Sealed` puts a packet together, and `TcpWritten`, `UdpWritten` and `IcmpWritten` say what each writer builds.

The two scans of `tls.c` recurse upwards and stop at the latest behind the bytes. `RecursionExists` gives such a function, built from its end downwards, and `RecursionIn` says that it has no values but those at
which it stops. With them each parser in turn returns a *piece*, bytes that stand in its input behind one another (`CopiedIsPiece`, `ServerNameIsPiece`, `ExtensionsArePieces`, `HeaderIsPiece`), and a piece of a part
is a piece of the whole (`PieceOfArea`). This holds for any bytes and any lengths in them, not only for damaged hellos.

That the piece is the right one needs to know what stands where in a hello, which is put together from parts of variable length. `PieceAt(d, x, from)` says that `x` stands in `d` behind the first `from` bytes; a sequence put together
from two has each of them in its place (`JoinSplits`), and taken apart part by part from its end (`EntryStands`, `ExtensionStands`, `HelloStands`) a hello has each length where the parser looks for it. The scans then have a value at
each entry and extension in terms of the next one (`EntryRead`, `ExtensionRead`), and follow the two, one or no entries of a list to the name (`ListRead`, `ExtensionsFound`, `HelloRead`). The names are assumed to be no longer than 255 bytes, RFC 1035's limit,
and to hold no zero (`NamesAssumption`): the code cuts a longer one.

`ResumesBehindName` is about the loop of `get_qname`, so it has an invariant over its turns (`PlaceInv`): before the first pointer the rest of the name ends where the whole name does (`NotJumped`), and after it
`off` is two bytes behind the name's beginning, which is right only if the pointer stood there (`Jumped`). The function that gives a name's end recurses for ever behind the message when the byte found there is the length of a label; `EndsAre` shows
that a function with its equation exists nevertheless.

`QuestionDecoded` adds that the name is the right one. Its invariant (`NameInv`) says, after each turn of the loop, that what was written to the buffer and the text still to come (`Rest`) are together the text of the
whole name (`Spelling`), as long as that text is no longer than `noff` counts (`Uncounted`); what comes into the buffer afterwards leaves it alone (`InBuffer`). The reference, `TextOfName`, follows labels and pointers with a fuel that falls with each of
them, so its function exists (`TextsAre`, from `IterateExists`) although pointers may lead anywhere. A turn takes one label or pointer off the rest (`RestIs`), and when the fuel is used up the text counts as too long (`NoFuelLeft`), which
leaves out only names of more than `3 * NameMax` labels and pointers.

**Only model-checked.** Liveness, which is out of this prover's reach: `EventuallyFreed` (twice), `EventuallyReturns`, `StopReturns`, `EventuallyServed`, `EventuallyStopped`, `EventuallyConnected`. Of `Messages`,
`RequestPatched`: it compares scans of a text with a reference over requests put together from parts of variable length, and does not hold for every value of the constants: a word of the method list can stand in
a path, a host can be longer than `MaxHost`, and the three exceptions it names are about the words themselves, so it would need assumptions that say what applications send word by word. The two runs that expect a violation have nothing to prove.

## What is not modelled, and why

* TCP options of a SYN other than the window scale, and the mss: only the value sent is affected. The loop over the options never ends on an option of length 0 (`tcp.c:593`); that is
  listed as a hazard.
* An answer to CONNECT in several pieces (`tcp.c:278`): the bytes of the server would have to be told apart from the proxy's.
* TCP and datagram sessions in one table, and several TCP sessions at once: the state space is out of TLC's reach. What they share, the count and the descriptors, is in
  `DatagramSessions` and `NativeEngine`.
* A `pipe()` that fails (`tun2http.c:63`).
* Functions without a caller: `block_udp`, `get_header`, `next_header`, `check_domain`; and `recheckNetwork`, which cannot run.
* Logging, `get_uid` (feeds the log), traffic records, hex conversion, JNI look-ups, notifications, the status text of the activities, the routes and DNS servers of the VPN's builder: no state
  or decision depends on them.
* The wake lock's own timeout of 24 hours, after which a tunnel that stays is served without it.
* The external library tun2proxy, Android and the kernel, beyond how the code uses them.

## Plan

Done: the modules above. What is left, in this order:

1. Proofs: `PatchedOnce`, for requests in which the words that are looked for occur once. The assumptions come first: what applications send, stated on `Methods`, `Scheme` and the parts of a request.
2. CONNECT answers in pieces, with the server's bytes told apart.
3. The options of a SYN, as an operator beside those of `Packets`.
