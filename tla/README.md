# NATMap in TLA+

NATMap keeps a port mapping open in a NAT in front of the host. It holds a
connection to an HTTP server (the *keeper*), asks a STUN server what the mapped
public address is, tells a script about it, and, with `-t`, forwards what
arrives at the mapped port to a target. It does so in TCP mode or in UDP mode
(`-u`), for ever, through failures of any of these parts.

The modules here model the program as it is written in `src/src/*.c`. TLC
checks them on small instances, TLAPS proves what matters most for all values
of the constants.

Contents: 1 the system, 2 modules, 3 what an action is, 4 runs and bounds,
5 fairness, 6 proofs, 7 findings, 8 not modelled, 9 what is left.

## 1. The system: inventory

| Component | Code | State it keeps | Operations |
|---|---|---|---|
| TCP keeper | `hev-tnsk.c` | `task`, `timeout`, `saddr`, the socket, the local `misscnt`, `port_next` | `hev_tnsk_run`, `tnsk_run`, `tnsk_keep_alive`, `tnsk_kill`, `stun_handler` |
| UDP keeper | `hev-unsk.c` | `task`, `timeout`, `cycle`, `saddr`, `port_next`, the local `n`; no socket between two attempts | `hev_unsk_run`, `unsk_run`, `unsk_keep_alive`, `unsk_kill`, `stun_handler` |
| Switch between them | `hev-xnsk.c` | none | `hev_xnsk_init`, `hev_xnsk_run`, `hev_xnsk_kill` |
| STUN client | `hev-stun.c` | `task`, its arguments, the socket, in UDP mode the try `i` and the datagrams in the socket | `hev_stun_run`, `task_entry`, `stun_bind`, `stun_tcp`, `stun_udp`, `stun_pack`, `stun_unpack` |
| Notification | `cmp_addr` in `hev-stun.c`, `hev_conf_mport` in `hev-conf.c`, `hev-exec.c` | the four statics of `cmp_addr`, the buffer of `hev_conf_mport`, child processes | `cmp_addr`, `hev_conf_mport`, `hev_exec_run`, the SIGCHLD handler |
| TCP forwarder | `hev-tfwd.c` | `task`, `quit`, the listening socket, one task and two sockets for each connection | `hev_tfwd_run`, `hev_tfwd_kill`, `server_task_entry`, `client_task_entry` |
| UDP forwarder | `hev-ufwd.c` | `task`, `quit`, `sfd`, a tree of sessions, each with a task and a socket | `hev_ufwd_run`, `hev_ufwd_kill`, `server_task_entry`, `client_task_entry`, `session_new`, `session_add`, `session_find`, `hev_ufwd_fd` |
| Bind port allocation | `hev_conf_init`, `hev_conf_bport` | `bport[]`, `brand`, the buffer `port` | `hev_conf_bport (next)` |
| Configuration | `hev-conf.c` | one static for each option | `hev_conf_init`, getters |
| Socket helpers | `hev-sock.c`, `hev_io_yielder` in `hev-misc.c` | the retry count of one connect | `hev_sock_client_base`, `_stun`, `_pfwd`, `hev_sock_server_pfwd` |
| Port reuse | `hev_reuse_port` in `hev-misc.c` | none | walks `/proc`, fetches descriptors with `pidfd_getfd` |
| Start-up | `hev-main.c`, `hev-compat.c` | none | `main`, daemon mode, descriptor limit |
| Task system | a git submodule | run queue, timers | `hev_task_new`, `_run`, `_yield`, `_sleep`, `_wakeup` |

### How the components interact

```
            hev_conf_bport                 hev_stun_run
  ConfPort <--------------- TCP keeper  ------------------> STUN client
                              ^   |                          |       |
          hev_xnsk_kill       |   | hev_tfwd_kill            |       | cmp_addr,
   (STUN or forwarder failed) |   v                          |       | hev_conf_mport,
                              +-- TCP forwarder <------------+       v hev_exec_run
                                       |     handler: hev_tfwd_run  Notification
                                       v                             |
                                     target <--- mport (with -p 0) --+
```

In UDP mode the same picture holds with the UDP keeper and forwarder in their
places, and with two more calls: the keeper runs the STUN client again at
intervals, and asks the forwarder for its socket (`hev_ufwd_fd`), which it sends
its byte with.

Everything runs in one thread, in cooperative tasks. Calls between components
are plain function calls that leave word in static variables and wake a task;
none waits for the other component to act on it. So a component learns what it
was told later, in the segment in which it next runs, when other calls may have
followed.

### What is hard

* *Lifetimes that do not match.* A session of the keeper, a STUN task and a
  forwarder each start and end on their own; a STUN task of session 1 may answer
  in session 2, a forwarder may outlive the session it was started for.
* *Flags and wake-ups.* `quit`, `timeout` and `task` carry a request from one
  task to another. A request may be overwritten before it is read.
* *Answers without a name.* In UDP mode STUN answers are lost, late and doubled,
  the STUN task stays after its answer, and takes any datagram for the next one.
* *Waits that are cut short.* Each wake-up, for whatever reason, starts the
  timeout of a wait again. What ends after 30 s when nobody interferes may
  otherwise not end.
* *Pointers to statics.* The STUN task and the forwarder get a pointer to the
  keeper's `saddr`, the resolver one to `mport`: they see later values.
* *Resources for months.* Each of the many ways out of an attempt, a session, a
  STUN exchange, a forwarder, a connection must close its sockets.
* *Notification.* Four statics have to be compared and replaced together, for
  every answer, or a change is not told, or told twice.

`PROJECT.json` lists each of them at its line, under `hazards`.

### What makes each component correct

* Keeper: one connection at a time and none leaked; a peer that is silent is
  given up after two HEADs and one that answers is not; a kill takes effect;
  connect comes to an end.
* STUN client: one task at a time, with one socket, `task` true to it; it ends.
* TCP forwarder: each socket has an owner that closes it; a kill of a server
  that accepts is not lost, and it accepts nothing after it.
* UDP forwarder: the tree holds the sessions whose tasks are there and no peer
  twice; a kill of a server that receives is not lost; idle sessions end.
* UDP keeper: the mapping is checked every `-c` intervals, and at every one
  while there is no forwarder.
* STUN codec: the mapping that is read is the one the server wrote.
* Notification: the script knows the last answer; it runs for news only.
* Configuration: what is accepted can be worked with, and is what was given.
* Port allocation: the ports of a range in order, each one in its turn.
* Together: a session gets its mapping or ends; a forwarder that is gone comes
  back (UDP); what is announced belongs to
  the session; nothing is forwarded to a port that is not known.

## 2. Modules

| Module | What it is |
|---|---|
| `TaskSystem` | the scheduling status of a task, and what a wake-up does to it |
| `Tnsk` | the TCP keeper, with the attempt of `hev_sock_client_base` |
| `Stun` | the STUN client in TCP mode, with `hev_sock_client_stun` |
| `Tfwd` | the TCP forwarder, with the helpers it calls |
| `Announcer` | abstract: what notification promises |
| `Notify` | `cmp_addr`, `hev_conf_mport`, `hev_exec_run`; implements `Announcer` |
| `StunCodec` | `stun_unpack` over the bytes of an answer |
| `StunBind` | `stun_bind` from the answer on: `StunCodec` and, with its result, `Notify` |
| `Conf` | the command line: `hev_conf_init` |
| `ConfPort` | `-b` and `hev_conf_bport`; the actions only, their caller is in `NatmapTcp` |
| `NatmapTcp` | all of TCP mode: `Tnsk`, `Stun`, `Tfwd`, `Notify`, `ConfPort` joined at their calls |
| `Relay` | abstract: what a UDP forwarder promises |
| `Ufwd` | the UDP forwarder: server, sessions, the tasks of the sessions; implements `Relay` |
| `Unsk` | the UDP keeper; actions only, its callers and callees are in `NatmapUdp` |
| `StunUdp` | the STUN client in UDP mode, with the network; its task is that of `Stun` until it has a socket |
| `NatmapUdp` | all of UDP mode: `Unsk`, `StunUdp`, `Ufwd`, `Notify`, `ConfPort` joined at their calls |
| `MC*` | what TLC is run on |
| `*Proofs` | theorems about the module of that name; `InputProofs` about `Conf` and `StunCodec` |

Each component module but `ConfPort`, `Unsk` and `StunUdp` can be checked on its
own: its `Next` lets the rest of the program call its interface at any time,
with any value that can be in the statics. `NatmapTcp` and `NatmapUdp`
instantiate the same actions and restrict the calls to those the other
components make, in the segment that makes them.

Names are the source's where there is one (`timeout`, `misscnt`, `quit`,
`saddr`, `mport`). Static `task` is `stask`/`ftask`/`utask`. Program counters
`kpc`, `spc`, `fpc`, `upc`, `cpc` name the wait a task is in, `kst`, `sst`,
`fst`, `ust`, `cst` its status in the scheduler. `ksocks`, `ssocks`, `fsocks`,
`usocks`, `csocks` count open
descriptors: a `close` takes one away and a forgotten one leaves it.

History variables, which no action's guard reads: `unanswered` (HEADs since the
peer was heard), `killed` (`hev_tfwd_kill`, in `Ufwd` `hev_ufwd_kill`, was
called since the server accepts or receives), `answer` and `ran` (the last
answer, parity of the number of script runs), `learned` and `own` (the session
has had an answer; `hev_stun_run` made a task for it), `unchecked` (the
session's intervals since `hev_stun_run`), `sent` (the mapping the server wrote,
and whether the code can be expected to read it), `given` and `again` (what was
on the command line, and whether twice).

Definitions whose name is another's with a suffix, right before that other and
commented "Mutant of", are the same step with a plausible bug in it. Nothing
uses them: they show, for each property, a bug which that property finds.

### State and code

* `Tnsk`: `new -> dns -> connect -> send/recv -> sleep -> dns ...` are the waits
  of `task_entry`: both lookups of `hev_sock_client_base` (one wait, since
  nothing happens between them), `sock_connect`, `sendmsg` and `recv` of
  `tnsk_keep_alive`, and the five seconds of sleep. Since a task goes on until
  it has to wait, one action may go through several calls: `SendHead` is the
  start of the loop, from which the task stops either in `sendmsg` (full buffer)
  or, the HEAD being sent and `timeout` set, in `recv` (`HeadSent`).
  `timeout` is a static that all waits read when they begin, and `tnsk_kill`
  sets it to 0; `hev_io_yielder` does not wait when it finds 0 there. That is
  why `RecvAgain` and `SendAgain` have `timeout # 0` as a guard.
* `Stun`: `Exchange` are the three waits of `stun_tcp`. `Bind(a)` takes the
  address as a parameter since the code reads it through a pointer at that
  moment; `NatmapTcp` passes the keeper's `saddr`. `Succeed` and `Fail` are the
  ends of the task; in `NatmapTcp` the first is joined with the handler and with
  `Notify!Report`, the second with `Tnsk!Kill`, in the order of the code.
* `Tfwd`: `Start` is all of the server task from its first line to its first
  wait, including `quit = 0` after the socket is there, and including the
  connections `S` it accepts on the way. `Accept(S)` accepts as many as there
  are. Client tasks have no `st`: nobody has a pointer to them, so only their
  own sockets and timers wake them.
* `Notify`: one action, `Report`, since the code from `cmp_addr` to the fork
  does not wait. Addresses are compared in the width of their family; the
  family is fixed by `-4`/`-6` or by the first lookup, an address is one value.
* `StunCodec`: bytes are numbers, addresses and ports sequences of them in
  network order, as they lie in memory. One action is one round of the loop in
  `stun_unpack`: it steps over an attribute (`Skip`, without the filling, as the
  code does), takes the mapping (`Unpack`), or returns -1 (`Fail`: the bytes are
  at their end, an attribute has no size, or the family of a mapped address is
  not known). `Receive` puts the answer into the buffer in both ways, the body
  alone with `pos` 0 (TCP) and the message with `pos` 20 (UDP). `Pack` gives
  each request an id, which is `tid` (`msg->tid`); an answer is to any request
  so far (`asked`). In TCP mode its header replaces the one in `msg`, in UDP
  mode `msg` stays the request, so that a late or doubled answer is unmasked
  with another request's id. The mapping it then gives is told like any other.
  How a server lays a message out is external (`Filled` to `Header`): a prologue
  of other attributes, which are known by their bytes and the offsets at which
  they start, and then the mapped address. Exclusive or is a parameter; the runs
  give it `^^`, the proofs assume that it undoes itself.
* `StunBind`: every step is one of `StunCodec`; `Unpack` is joined with
  `Notify!Report`, which `stun_bind` comes to without a wait.
* `Conf`: one action for each kind of option, in any order and number, then
  `Refuse` or `Accept`. Strings are only there or not. Numbers are what was
  written, of any size and sign. `Strtoul` (external) is what becomes of them in
  an unsigned long, `Cut` what becomes of that in an int: `Milliseconds` for
  `-k` and `-T`, `Unsigned` for the `%u` of `-b`; `-c` is cut to an unsigned
  int. `Choices` is the `n` of `hev_conf_bport`, which may wrap. The local `c`
  starts with any of three characters, as it is not initialised; a later `-b`
  leaves what `sscanf` does not find.
* `ConfPort`: `brand` is any value in `Init` when only one port was given, as
  the code then reads a variable that `sscanf` did not set. It takes ports that
  are natural numbers, the first not after the last; what `-b` makes of other
  numbers is in `Conf`.
* `Ufwd`: the server waits in `recv` (`recvfrom`), `dns` (`session_new`, with
  the session to be in `peer`) and `send` (the datagram does not fit into the
  target socket's buffer). `Serve` is the server's loop from one wait to the
  next: it forwards a datagram of each peer in `T` and marks their sessions.
  As in the code, `quit` is looked at after a wait in `recvfrom` and nowhere
  else. A session is an entry in `sessions`, a task and a socket; the server
  makes the three in one segment (`SessionNew`), the session's task takes them
  away in one (`ClientEnds`), and a server that ends leaves them. While the
  server is in `send` the session may end, and the code then writes through a
  pointer to freed memory: `SendAgain` allows any outcome of the send and marks
  nobody in that case. A session's task sends with the static `sfd`: with no
  server that fails and ends the session (`ClientFails`, `ClientLoop`); a full
  buffer blocks it without a timeout, on a socket whose events go to the
  server's task, so that only another answer of the target wakes it.
* `Relay`: its `serving` is whether `Ufwd` has a server and whether that was
  killed in the wait for datagrams, its `sessions` are those in the tree, and
  `marked` those with `active` set. Lookups, waits and sends of `Ufwd` are
  stutters of it. `Serve`, which takes any number of datagrams in a segment, is
  one `Forward(T)`; so is `SessionNew` with the datagrams that follow it.
* `Unsk`: `new -> dns -> keep/send -> pause -> dns ...` are the two lookups of
  `hev_sock_client_base`, `hev_task_sleep (timeout)` and `sendto` in
  `unsk_keep_alive`, and the five seconds. `connect` of a datagram socket does
  not wait. A sleep of 0 does not wait either, which is why the keeper, killed
  during the lookup, may go through a whole round in one segment
  (`EstablishedEnds`, `EstablishedWaits`). `hev_task_sleep` returns what is left
  of the time: a keeper woken too early ends its session, whoever woke it.
* `StunUdp`: `send`, `recv` and `idle` are the waits in `stun_udp` and the
  `hev_task_yield` in `task_entry`. `NextTry(i)` says when the task comes to
  send for the `i`-th time. The network: a request may get an answer
  (`Request`), an answer may be lost, arrive once, or arrive and stay on its way
  to arrive again (`Arrive`). As nothing in the code tells answers apart, they
  are only counted. A datagram wakes the task in whatever wait it is in.
* `NatmapUdp`: `hev_ufwd_fd` is whether the server has a socket. `SessionBegins`
  ends in the first sleep; the handler, run by the STUN task with an answer,
  calls `hev_ufwd_run` each time, which does nothing while there is a server.

## 3. Scheduling: what an action is

One action is one *segment*: what a task does from one wait to the next. Within
a segment nothing else in the process runs. Segments of different tasks
interleave freely: the order of the run queue is the library's, and not
assumed. A wake-up moves a blocked task to the run queue and does nothing to
one that is already there. A task in the run queue because of its timer
(`expired`) sees its time used up; one that was woken (`run`) usually has time
left, but may find it used up if it stood in the queue for long, so both
outcomes are allowed. Being woken does not mean that the socket has anything:
each wait has an action in which the task finds nothing and waits again, with
the full timeout, as `hev_io_yielder` and the library's I/O functions do.

## 4. Runs

| Run | Instance | Shows |
|---|---|---|
| `tnsk` | `MCTnsk.cfg` | The keeper, killed and woken at any time: `SocketsOwned`, `SilentPeerBound`, `LivePeerKept`, `KilledSendsNoMore`, `ConnectEnds`, `SilenceEndsSession` |
| `stun` | `MCStun.cfg` | The STUN client, run at any time: `TaskOwned`, `ClientEnds`, `ConnectEnds` |
| `tfwd` | `MCTfwd.cfg` | The forwarder, run and killed at any time: `SocketsOwned`, `KillWakes`, `AcceptsNothingAfterKill`, `KilledServerStops` |
| `notify` | `MCNotify.cfg` | Every sequence of answers, from their bytes: `AnswerUnderstood`, `ToldLatest`, `DialsLatestPort`, `ImplementsAnnouncer` |
| `natmap_tcp_forward` | `NatmapTcpForward.cfg` | All of TCP mode with `-t`, `-p 0`, `-b 0`: `DialPortKnown`, `UnmappedSessionKilled`, `OwnAnswerIsForSession` |
| `natmap_tcp_live` | `NatmapTcpLive.cfg` | TCP mode without `-t`, a range of two ports, forks that fail: `PortsInOrder`, `EveryPortTried`, `SessionResolved` |
| `ufwd` | `MCUfwd.cfg` | The UDP forwarder, run and killed at any time, two peers: `SessionsOwned`, `LookupIsNew`, `KillWakes`, `ImplementsRelay`, `KilledServerStops`, `IdleSessionEnds` |
| `natmap_udp` | `NatmapUdp.cfg` | All of UDP mode, with and without `-t`, with lost, late and doubled answers and full buffers: `StunTaskOwned`, `StunServesSession`, `CheckedEveryCycle`, `DialPortKnown`, `ForwarderComesBack`, `SessionResolved` |
| `conf` | `MCConf.cfg` | Command lines of up to four options: `AcceptedIsUsable`, `NumbersAsGiven`, `BindAsGiven` |
| `stun_asked` | `NatmapUdpStunAsked.cfg` | violation of `StunOnlyWhenAsked`, see 7 |
| `port_big_endian` | `NotifyBigEndian.cfg` | violation of `AnswerUnderstood`, see 7 |
| `stun_port` | `NatmapTcpStunPort.cfg` | violation of `StunFromSessionPort`, see 7 |

The two compositions also check `TypeOK`, which is that of all their parts. It
is proved of both, as are the type invariants of `Tnsk`, `Stun`, `Tfwd`,
`Notify`, `Ufwd` and `Conf` each on its own.

The largest is `natmap_tcp_forward`, 1.2 million distinct states in under a
minute; `natmap_udp` has 160,000 and takes two, most of it for liveness.

### Bounds, and why they are enough

* `MaxRetries` (100 in the code) is 4, 10 or 2. Only the comparison with it
  depends on its value, and `ConnectEnds` finds a missing one at each of these.
  The proofs hold for any value from 2 on.
* `Addrs`: two or three. The questions about addresses are whether two of them
  are equal, the one a task is bound to and the session's. With one more than
  two there are no new cases, as at most the last session's and this session's
  are in play.
* `Keep` (`-k`): any number that is not 0 is the same to the model; 0 cannot
  get past `hev_conf_init`.
* `Conns`: two in `tfwd`, one in `NatmapTcp`. Client tasks do not interact. The
  bound is on those that are open at once; each is used again and again.
* `First .. Last`: two ports in `natmap_tcp_live`, the smallest range that has
  both a next port and a wrap; `PortsTakenInOrder` is proved for every range.
* `Peers`: two in `ufwd`, the one whose session the server makes or sends on
  and another one; the theorems hold for any set of them.
* `PublicPorts`: one in `NatmapTcp`, where the empty `mport` against a known
  one matters, two or three where the old against the new one does.
* `notify` has three public addresses, and what is read of one when it is
  unmasked with the wrong id, three public ports, two local addresses and two
  local ports, and any sequence of mappings made of them; the step depends on
  equality with the last one only. Two transaction ids: that of the last request
  and another one are the only cases. Each exchange starts with new locals, as
  `stun_bind` does. The bytes of addresses, ports and transaction ids include 0,
  255 and those of the magic, IPv4 and IPv6. Six prologues: none, one attribute,
  two (the second with bytes like those of a mapped address inside), two that
  are filled up, and one that is empty. `stun_unpack` keeps nothing from one
  answer to the next, and `AnswerIsUnderstood` is proved for every prologue.
* `natmap_udp`: `-c` 2, the smallest at which an interval passes without a
  check (`MappingChecked` is proved for every `-c`); two tries of ten, the
  smallest number with a retry and a last one; one answer on its way and one in
  the buffer, enough for an answer that meets the next request; one port and one
  peer, as `stun_port` and `ufwd` ask the questions that two are needed for.
  `IdleEvents` (the socket of an idle STUN task has events that are not
  datagrams), `StunBlocks` and `SendBlocks` are TRUE, `PeersBlock` (see `Ufwd`)
  FALSE. The theorems of `NatmapUdpProofs` hold for all of these values.
* `conf`: four options are enough for `-s`, `-h` (or `-u`) and two more, or one
  of them twice. An int of 2^20 values stands for one of 2^32, and an unsigned
  long of 2^21 for one of 2^64. The numbers are negative, 0, usual, the last
  that fits, the first that does not, the first that comes round to a positive
  int, and one that no unsigned long holds. Of the counts one is cut to 0 and
  one to 3. The arguments of `-b` have one port, two in either order, both
  separators, one that is neither, a second port 0, the range of all values of
  an int (then `Choices` is 0), and two numbers that are cut to 80 and 82. The
  theorems hold for any number of options, any numbers and any widths.
* `SendBlocks` is TRUE in `tnsk` and `ufwd`, and FALSE in `NatmapTcp`. At most
  two HEADs are unanswered (`SilentPeerBound`), which do not fill a socket
  buffer; with TRUE, `UnmappedSessionKilled` fails since a kill that comes while
  the keeper is in `sendmsg` is overwritten by the next
  `timeout = hev_conf_keep ()`.
* `-t` without `-b 0` and the other way round are instances with fewer
  behaviours, which the proofs cover.
* `CHECK_DEADLOCK` is off in two passing runs. `conf` ends, as `hev_conf_init`
  does. In `natmap_udp` the keeper may be the only task left, in a `sendto` that
  waits without a timeout for room on a socket that nobody serves: the code has
  nothing that ends this.

## 5. Fairness

Safety is checked without it. For liveness:

* `WF` of the segments of each task: the library runs every task in its queue.
* `WF` of the timers: a timer that is armed runs out, if its task is not woken.
* `WF` of `dns /\ Io` and `SF` of `DnsAnswered`: a lookup, in which there is no
  timeout of NATMap's own, comes to an end with an answer or an error, however
  often the task is woken meanwhile.

`Ufwd` has `WF` of the server's segments and of each session's segments and
timer, and none of arriving datagrams or answers.

`NatmapUdp` has the same for its keeper, STUN client and server, and `SF` of the
STUN client's timer: `hev_stun_run` begins its three seconds anew, at most once
in an interval, so they run out if `-k` is longer than three seconds. That is an
assumption about the command line (the default is ten).

Nothing is assumed of peers: no connection need succeed, nothing need answer.
Where the code's timeouts only work while the socket is quiet, since every event
starts them again, the property has that as its premise: `SilenceEndsSession`
and `ClientEnds` speak of behaviours in which events (and for the STUN client,
wake-ups by `hev_stun_run`) stop at some time, and `SessionResolved` of those in
which the socket of a STUN exchange does not have events for ever. In UDP mode
`SessionResolved` and `ForwarderComesBack` also have as their premise that the
keeper does not wait in `sendto` for ever (`Calm`). `IdleSessionEnds` speaks of
sessions whose socket has no more events and which the server marks no more from
some time on, `EveryPortTried` of behaviours in which every attempt fails from
some time on. `ConnectEnds` needs no such premise as the retry bound counts
wake-ups.

## 6. Proofs

Assumed of the constants is only what each module's `ASSUME` says: names that
stand for "none" or "not given" are not among the values they stand beside,
ports and addresses to bind to are numbers, a NAT maps to no port 0, `-k` is not
0, the retry bound is at least 2, what is a switch is TRUE or FALSE, an unsigned
long is at least as wide as an int, transaction ids have twelve bytes, exclusive
or undoes itself, and prologues are attributes one after the other
(`IsPrologue`). The runs evaluate these assumptions on their instances.

Theorems about a component say what it does whatever its callers do.
Theorems about a composition say what the program does.

| Theorem | Says |
|---|---|
| `KeeperTypeCorrect`, `KeeperSocketsOwned`, `KeeperSilentPeerBound`, `KeeperLivePeerKept`, `KeeperKilledSendsNoMore` | the keeper's invariants and its action property |
| `StunTypeCorrect`, `StunTaskOwned` | the STUN client's |
| `TfwdTypeCorrect`, `TfwdSocketsOwned`, `TfwdKillWakes`, `TfwdAcceptsNothing` | the forwarder's, for any set of connections |
| `NotifyTypeCorrect`, `PortIsLatest`, `ScriptToldLatest`, `NotifyImplementsAnnouncer` | the notification's; the last two when fork does not fail |
| `OwnAnswerForSession`, `UnmappedKilled`, `ForwarderKnowsPort`, `PortsTakenInOrder` | of the composition in TCP mode; the second one when `sendmsg` does not block, the last for ranges of any size |
| `UdpStunTaskOwned`, `SessionsAreServed`, `MappingChecked`, `ForwarderKnowsPort` | of the composition in UDP mode, for any `-k`, `-c`, `-b` (ports as in `ConfPort`), any number of tries, peers and answers, whether sends block or not |
| `ImplementsKeeper`, `ImplementsStun`, `ImplementsNotify`, `ImplementsForwarder` | TCP mode implements the safety part of `Tnsk`, `Stun`, `Notify` and `Tfwd`: each of its steps is one of theirs, or leaves their variables alone |
| `TcpTypeCorrect`, `TcpTasksAndSocketsOwned`, `TcpPeerAndServerBounds`, `TcpKilledStop`, `TcpDialsLatest`, `TcpToldLatest`, `TcpImplementsAnnouncer` | what is proved of the components holds in TCP mode; the last two when fork does not fail |
| `OnePortStunFromSession`, `UdpOnePortStunFromSession` | with one port given by `-b`, what a session has learned is for its own port, in both modes: the finding `stun_port` needs `-b 0` or a range |
| `UdpPortsInOrder` | the order of ports, in UDP mode |
| `UdpImplementsForwarder`, `UdpImplementsNotify` | UDP mode implements the safety part of `Ufwd` and `Notify` |
| `UdpTypeCorrect`, `UdpSessionsOwned`, `UdpKilledForwardsNothing`, `UdpDialsLatest`, `UdpToldLatest`, `UdpImplementsAnnouncer`, `UdpImplementsRelay` | what is proved of the components holds in UDP mode, and the types of its keeper and STUN client; `UdpToldLatest` and `UdpImplementsAnnouncer` when fork does not fail |
| `AcceptedUsable`, `BindPortAsGiven`, `NumbersTakenAsGiven`, `ConfTypeCorrect` | of the command line, for any number of options, any numbers as `strtoul` and `sscanf` store them, and any widths of int and unsigned long: what is accepted can be worked with, but for the one range for which `n` wraps to 0; numbers are used as given if they fit what they are stored in |
| `AnswerIsUnderstood` | of `stun_unpack`, on a little-endian machine: it finds the port the server wrote in every answer that fits into the buffer, if no attribute before the mapped address is empty or filled up; and the address, unless it is a masked IPv6 address in an answer to an earlier request |
| `UfwdTypeCorrect`, `UfwdSessionsOwned`, `UfwdLookupIsNew`, `UfwdKillWakes`, `UfwdKilledForwardsNothing` | the UDP forwarder's invariants and an action property, for any set of peers |
| `UfwdImplementsRelay` | the UDP forwarder implements the abstract relay, for any set of peers |

The inductive invariants, and what they add to the properties:

* `KeeperInv` adds `MissesCounted`: in `recv` there are at most `misscnt + 1`
  unanswered HEADs, in `send` at most `misscnt`, and a counted miss has a HEAD
  behind it. `SilentPeerBound` alone says nothing of `misscnt`, so a step of
  `RecvMissed` could not be bounded.
* `StunInv` ties `stask`, `spc`, `sst` and the socket together.
* `TfwdInv` is `ServerInv` (status and socket of the server agree with where it
  is, `KillWakes`), `FlagsInv` (types of the flags), `ClientsInv` (each
  connection's sockets). `KillWakes` is inductive only with the facts that
  `task` is set as long as the server accepts, or `hev_tfwd_kill` would not wake
  it, and that a server which has not run yet was not killed while it accepted,
  or its `quit = 0` would take the word back.
* `NotifyInv` is the types, `Remembers` (the statics are the last answer),
  `DialsLatestPort`, and `ToldLatest` if forks do not fail. For the refinement,
  `Report` maps to `News` when `Changed`, and else to a stutter, since
  `Remembers` makes "unchanged in all four parts" the same as "the same answer".
* `AddressInv` (composition): a STUN task that the session made itself, once it
  has a socket, has it on `saddr`; `saddr` changes only when a session begins,
  which is when `own` and `learned` are set afresh.
* `KilledInv` (composition): in a session either there is a STUN task, or there
  was an answer, or `timeout = 0`; `RecvMissed`, which sets `timeout`, cannot
  run when that is 0.
* `PortInv` (composition): the next port of a sequential range is the one after
  the current one, so the port a failed attempt takes is known beforehand. Only
  an attempt to connect calls `hev_conf_bport` (`OnlyAttemptsPick`).
* `UfwdInv` is `ServerInv` (status, socket and `sfd` of the server agree with
  where it is; `KillWakes`), `FlagsInv` (types of the flags), `SessionsInv`
  (tree, tasks and sockets of the sessions agree), `MarksInv` (types of
  `active`) and `LookupIsNew`. The last is inductive since only the server adds
  to the tree and there is one server: in `dns` nobody else can add the peer.

* `DialInv` (both compositions): once the statics of `cmp_addr` hold a port,
  `mport` does too, so also an answer that is no news, which stores nothing, may
  start a server.
* `UsableInv` adds to `AcceptedIsUsable` the types of the numbers, without which
  `keep <= 0` says nothing of `keep > 0`, and that ports are values of an int
  (`CutInRange`): then `n` can come round to 0 only when it is 2^w
  (`NoChoices`). `BindInv` says what `-b` has left in
  the statics while the options are still being read.
* `StunInv` (UDP) adds to `StunTaskOwned` that no answer waits in a socket that
  is closed, or a task without a socket might succeed.
* `ServesInv` adds to `StunServesSession` that the keeper always has a status:
  then a kill makes one that sleeps ready. Only a failure of the STUN client
  takes its task away, and that kills in the same segment.
* `CountInv` adds to `unchecked < Cycle` that the intervals gone by are at most
  those the keeper has counted (`unchecked <= n`), which is what `MustCheck`
  compares with `-c`. That none goes by while the forwarder is gone is a
  property of the step (`OnlyKeptPasses`).

* `GivenInv` says what the statics are while the options are still being read
  (`NumbersStored`: `keep` is what `-k` made of its number, or 0), and
  `NumbersAsGiven` once the line is accepted. `Cut` is a product modulo a
  constant that is not a number, which the backends cannot compute;
  `CutOfFitting`, `StrtoulOfFitting` and `MillisecondsOfFitting` show, the last
  from `ProductInRange`, that a number that fits is its own remainder.

* `CodecInv` adds to `AnswerUnderstood` that ids are those of requests (`Asked`)
  and where the search is (`Searching`): the offset is that of an attribute of
  the prologue, or of the mapped address. A round takes it from one start to the
  next, since without filling the two differ by what the code adds; at the
  mapped address `MappingRead` says what is read there, with `AddressRead` for
  the two ids: of an IPv4 address the id masks nothing. So nothing has to be
  said of a search as a whole, which would take induction over the bytes.
* `OnePortInv`: `saddr` and what the STUN task's socket is bound to are the one
  port or nothing, so an answer for an earlier session is for this one's port
  just as well. It takes `LinkInv` for the fact that `hev_conf_bport` has left
  that port before anything is bound.

The refinement of `Relay` (`StepRelays`) goes by where the server is:
`ServingRelays` for the segments in which it starts to receive or deals with
datagrams, `ServerAloneRelays` for its other steps and the calls to it,
`ClientRelays` for the sessions' tasks. Of `UfwdInv` it takes three things: the
session that is being made is not in the tree yet (`LookupIsNew`), only a
session in the tree has a task that takes its mark away (`SessionsInv`), and a
server that was killed in its wait finds `quit` set when it wakes (`KillWakes`),
so that it forwards nothing. `Relay` says nothing of when things happen; that is
left to `KilledServerStops` and `IdleSessionEnds`.

### From a component to the program

A component is proved with callers that may call at any time with any value in
a set. In the composition its callers are the other components, and the values
are what lies in the statics then. That the second is a case of the first is not
obvious: `saddr` and `mport` are read through pointers, by a task that runs
later, and have no value at first. `LinkInv` is the invariant that closes the
gap:

* `AddressKnown`: while there is a STUN task or a server, `saddr` is an
  address; in a STUN exchange so is what its socket is bound to; and when the
  keeper is past its first segment `hev_conf_bport` has left a port.
* `PortInv`: that port is one of the range, so `Bindable` has addresses only
  (`BindableAddrs`).

`KeeperStep`, `StunStep`, `NotifyStep` and `ForwarderStep` show that under it
each step of the composition is a step of the component or leaves it alone. In
TCP mode the forwarder's also needs the type of `mport`, which its connections
dial.

For the proofs, the composition takes the components' proof modules with the
same substitution as their models (`KP`, `SP`, `FP`, `NP`, `UP`): their step
lemmas, such as `KeeperInvStep`, then speak of the composition's variables. The
prover does not see that `KP!Next` and `K!Next` are the same formula; the
`*Instances` lemmas say so by expanding both. An invariant of a component is
then an invariant of the composition by its own three lemmas, none of which is
proved a second time, and the refinement of `Announcer` composes with
`ImplementsNotify` in the same way, that of `Relay` with
`UdpImplementsForwarder`.

In UDP mode the keeper and the STUN client have actions only and no
specification of their own; `KeeperTypes` and `StunTypes` are their types,
proved inductive along with `LinkInv`.

### Model-checked only

All liveness properties (`ConnectEnds`, `SilenceEndsSession`, `ClientEnds`,
`KilledServerStops`, `EveryPortTried`, `SessionResolved`, `IdleSessionEnds`,
`ForwarderComesBack`), which need fairness and ENABLED and are out of the
prover's reach; for that reason the `Implements...` theorems speak of initial
states and steps only. Every invariant and every action property of the runs is
proved; some with a premise, which the run meets: forks that do not fail, HEADs
that do not block, a little-endian machine.

That `^^` undoes itself on bytes, which `AnswerIsUnderstood` assumes of
exclusive or, is not proved: `Bitwise` is defined by recursion. TLC evaluates it
for all pairs of bytes.

## 7. Findings

Each is a run that TLC ends with a counterexample, against a sentence of the
README or of a comment.

* `stun_asked`: the idle STUN task of UDP mode waits for `hev_stun_run` with a
  wait for any event of its socket, and compares no transaction ids. After a
  retry whose first answer was late, or a doubled answer, the extra datagram
  wakes it; it sends a request and takes the old datagram for the answer, goes
  idle, and the answer to that request wakes it again. It asks at the pace of
  the network, whatever `-c` says, until a datagram is lost.
* `port_big_endian`: `m->port ^ msg->magic` unmasks the port with the low 16
  bits of the magic as a number, which are its first two bytes on a
  little-endian machine only. On the big-endian targets that CI builds a wrong
  port is told.
* `stun_port`: `hev_stun_run` returns when a STUN task of an earlier session is
  still at work. A new session on another port (`-b 0`, or a range) then gets
  the old task's answer, for the old port, and none of its own. With one port
  this cannot be (`OnePortStunFromSession`, `UdpOnePortStunFromSession`).

Known, modelled, and named here without a run of their own:

* `hev-tfwd.c:121`: `hev_tfwd_run` returns when there is a server. A late STUN
  answer between two sessions starts one on the old port, and the next session
  keeps it.
* `hev-tfwd.c:103`: when accept fails the server returns without
  `hev_xnsk_kill`; the TCP session goes on without a forwarder. (In UDP mode the
  keeper notices: `ForwarderComesBack`.)
* `hev-tfwd.c:97`: the server sets `quit = 0` in its first segment; a
  `hev_tfwd_kill` between `hev_tfwd_run` and that is forgotten, although
  `hev-tfwd.h:24` says "Force stop TCP port forwarding server."
* `hev-exec.c:76`: when fork fails the mapping was already stored as told; the
  script is not run for it, also not when the same answer comes again.
* `hev-stun.c:222`: an attribute that is filled up to four bytes hides the
  mapped address after it (`Plain` in `StunCodec`).
* `hev-stun.c:258`: in UDP mode the id of an answer is not compared, and
  `hev-stun.c:215` unmasks with the id of the last request: of a late or doubled
  answer with an IPv6 `XOR-MAPPED-ADDRESS` a wrong address is told, until the
  next answer (`Legible`).
* `hev-conf.c:119`: of a `-b` given twice the parts mix (`again` in `Conf`).
  `%u` goes into an int: `-b 2147483648~2147483647` is accepted, the `n` of
  `hev-conf.c:253` wraps to 0, and `rand () % n` divides by it (`Choices`).
* `hev-conf.c:101`: `-k 4294968` is 0.7 s (`Fits`); `hev-conf.c:104`:
  `-c 4294967296` is 0, and so 10.
* `hev-stun.c:132`: sessions that end and begin within 30 s keep a STUN task
  that gets no answer alive, as each `hev_stun_run` starts its wait again (the
  premise of `ClientEnds`).
* `hev-tfwd.c:55`: the resolver reads `mport` where a later answer is stored; a
  connection may be dialled to the port before.

## 8. Not modelled, and why

* `hev_reuse_port` and `get_inode`: one pass over `/proc` and `pidfd_getfd`,
  with no state kept. What a keeper sees of it is whether its second bind
  succeeds, and a bind may always fail in `BaseFails`. (Seen while reading:
  `get_inode` does not free the buffer of `getline` on every path.)
* Which step of a helper in `hev-sock.c` failed: the caller sees a socket, or
  none and nothing left open, and that is what `BaseFails`, `DialFails`,
  `StartFails` and `Fail` say.
* The contents of HEAD requests and replies, of forwarded data and datagrams:
  nothing in the program depends on them.
* The options that only store their argument, the ports inside `-s` and `-h`,
  the getters, the help text.
* `hev-main.c` (daemon, descriptor limit, SIGPIPE), `hev-compat.c` (getopt for
  Windows): straight-line code before the first task.
* The child after `fork` (`execl`, exit) and the reaping of children by the
  SIGCHLD handler: nothing in the program depends on them.
* Real time. A timeout may run out or not; nothing compares two durations. The
  one place where two matter, `-k` against the three seconds of a UDP STUN
  request, is a fairness assumption (5).

## 9. What is left

Written, in this order: `TaskSystem`; TCP mode from `Tnsk`, `Stun`, `Tfwd`,
`Notify` with `Announcer`, `ConfPort` to `NatmapTcp`, and its proofs; UDP mode
from `Ufwd`, `Unsk`, `StunUdp` to `NatmapUdp`, and its proofs; `Conf` and its
proofs; `StunCodec` with `StunBind`, and its proof; `Relay` and the refinement.

What a next version could add:

1. `SockClient`: each single failing step of the helpers, with the second bind.
2. Children and SIGCHLD, if something in the program comes to depend on them.
