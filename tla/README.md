# Verification of UnixNetworking

TLA+ models of the programs in this repository, the TLC configurations that
check them on small instances, and theorems about them checked by TLAPS.

The repository is a set of small C programs, one group for each chapter of a
book on Unix network programming. They share a small `lib/` and otherwise
stand alone: what they have in common is the kernel. The models therefore
follow *systems* (a server with its clients and the kernel between them)
rather than source directories. There are no tests in the repository, and its
only documentation is its comments.

## 1. Inventory

### Programs with state and concurrency

| system | source | state | operations | what is hard |
|---|---|---|---|---|
| prethreaded server | `ch30/prethreaded.c` | ring `fd[MAX_QUEUE]` with `iget`, `iput`, `count`; mutex and condition variable; `thread_count[]`; the descriptors in threads' hands | `main` accepts and `queue_put`s; workers `queue_get`, count, `write`, `close`; `sig_int` reports and exits | threads interleave at every statement; lost and spurious wakeups; full ring; descriptor numbers are reused the moment they are closed; SIGINT interrupts any thread anywhere, in its own `printf()` too, SIGPIPE ends the process |
| preforked server | `ch30/preforked.c` | shared memory: mutex and `count[]`; `pids[]`; the children | `main` forks `NCHILDREN`; each child locks, accepts, unlocks, counts, answers; `sig_int` reports, kills, destroys the mutex, waits | processes die at any statement, with the mutex or without; SIGINT comes between `fork()` and the store of its result; failed system calls |
| nonblocking echo client | `lib/str_cli_nonBlocking.c` | `to[]`, `fr[]` with two pointers each, `stdineof`, descriptor sets | one `select()` round: two reads and two writes, each partial or EWOULDBLOCK | order of ends (stdin, FIN, socket), pointers at the end of a buffer, everyone waiting on everyone |
| forking servers | `ch5/server.c`, `ch15/unixstrserv01.c`, `ch4/server.c` | descriptors of each process, children, pending SIGCHLD | accept, fork, close; serve and exit; `sig_chld` | merged signals, interrupted `accept()`, inherited descriptors, `fork()` at the process limit |
| event loops | `ch6/server_select.c`, `ch6/server_poll.c` | client table, highest slot, ready set, `nready`, one shared buffer | a round: wait, at most one accept, a scan of the table with blocking reads and writes | one blocked call stops all clients; bookkeeping of `nready`; uninitialised `revents`; a full table; failing `accept()` |
| line-at-a-time pairs | `ch5/client.c` and the child of `ch5/server.c`; `ch15/unixstrcli.c` and the child of `unixstrserv01.c`; `assign/Calc*TCP.c`; `assign/tcp_reverse_*.c` | one reused buffer on each side, the stream between them | type, send, read once, print; read, answer | reads that return part of a line or nothing, text left in buffers, two programs that must agree on which line ends the session |
| SCTP echo | `ch10/` | the stream of the answer; what the client still has to send and to read | send on one stream or on every one, read as many answers; receive, answer on the next stream | stream numbers past the negotiated count; messages that overtake each other; 100 sends before the first read |
| market data feed | `ch21/` | `seq_num`; the subscriber's one buffer | publish by multicast; receive, test, print | loss, duplication, reordering, restarts; signed and unsigned sizes; a reused buffer; groups heard without having joined them |
| UDP request/response | `ch8/`, `ch11/daytime_udp_*` with `lib/udp_*.c`, `assign/Echo*.c`, `assign/TimeOfDay*.c` | server: one buffer and one client address; client: what `poll()` returned | send, wait, show; receive, answer | lost, repeated and late datagrams, no timeout, ports used again by the next process |
| daytime over TCP, daemon | `ch11/daytime_tcp_*`, `ch13/`, `lib/tcp_listen.c`, `lib/tcp_connect.c`, `lib/daemon_init.c` | position in an address list, open descriptors, the current connection | try each address; fork twice, close and reopen 0 to 2; accept, write, close | attempts that fail, descriptor leaks, descriptor numbers, split reads, a server that dies |
| interactive `select()` client | `ch6/client.c` | what `select()` said | copy stdin to the socket and back | blocking writes on both sides; at the end of stdin it returns without the echoes still to come |
| kernel queries | `ch7/`, `ch17/`, `ch18/`, `ch19/` | one buffer, one descriptor, for a list of questions | ask, test, print, go on | answers that stay in the buffer, a union, a descriptor that is closed, others who change what is asked about |

How they interact: a server and its clients exchange bytes over a kernel
buffer of bounded size (`write()` blocks, or is partial), the end of a stream
(FIN) or its abort (RST, then ECONNRESET and SIGPIPE). Processes share
descriptors through `fork()`, and in `preforked.c` memory. Threads share memory.
The kernel calls back by signals: SIGINT, SIGCHLD, SIGPIPE, SIGTERM.

### Programs without

`ch11/host_addr.c`, `ch11/serv_port.c`, `ch15/unixbind.c` (one library call and
its result), `ch20` (one datagram) and `lib/a_error.c` (formats a message) run
straight through and keep no state that a later step could find wrong. They are
not modelled, and neither are `lib/udp_connect.c` and `lib/host_serv_info.c`,
which no program calls.

### What makes each modelled system correct

* prethreaded: every open descriptor has exactly one thread or ring slot that
  will close it; connections leave the ring in the order they came; no worker
  sleeps while jobs outnumber the awake; each client is eventually answered or
  dropped; SIGINT ends the process, wherever it finds the threads (not quite, §6).
* preforked: one child in `accept()` at a time; no child's own death takes the
  mutex along; clients are served while the mutex is alive; SIGINT ends all
  processes, the parent last.
* nonblocking client: no byte lost, repeated or reordered in either direction
  for any split, up to `fr[]`; FIN after the last byte, and not forgotten; the loop
  ends; what is read is also written to stdout (not quite, §6).
* forking servers: no connection leaks into another client's child; no zombie
  goes unnoticed; no client is hung up on while it is served; a connection
  ends when its client does.
* event loops: table, `maxi` and `nready` exact; `read()` only where it does
  not block; every byte echoed to its sender once; nobody starves.
* daytime over TCP: no attempt leaves a descriptor behind, no address that answers is
  passed over; nothing but `/dev/null` or the terminal is stdout, as long as
  `/dev/null` can be opened; the time is shown whole or not at all; a client ends.
* UDP pairs: one answer for one request, to the one who asked; a client that asks
  once shows the answer to its own request; it ends unless a datagram is lost.
* pairs: an answer belongs to the line just sent; strings end inside their
  buffers; the echo client ends with its server; neither waits for the other for ever.
* SCTP echo, `select()` client: every message comes back once, in its place among
  those of its stream, on a stream the association has; a client that sends much
  before it reads is answered all the same.
* market data feed: what is printed is a whole price update that reached the host,
  once for each copy, in the order in which the host took them.
* kernel queries: a value is printed under the name of the question it answers
  (with two exceptions, §6).

## 2. Modules

| module | role |
|---|---|
| `PrethreadedServer` | `ch30/prethreaded.c`, detailed |
| `JobQueue` | what its queue promises: a bounded FIFO hand-off of descriptors |
| `PrethreadedServerProofs` | theorems, and `PrethreadedServer` implements `JobQueue` |
| `PreforkedServer`, `PreforkedServerProofs` | `ch30/preforked.c` |
| `StrCli` | `lib/str_cli_nonBlocking.c` with user, terminal and echo server |
| `ForkServer`, `ForkServerProofs` | the forking servers of ch4, ch5 and ch15 |
| `EventLoop` | the two servers of ch6 |
| `EventLoopProofs` | theorems |
| `LockStep`, `LockStepProofs` | the four line-at-a-time pairs |
| `Daytime` | daytime over TCP, `tcp_listen()`, `tcp_connect()`, `daemon_init()` |
| `Datagrams` | the four UDP pairs, `udp_server()`, `udp_client()` |
| `EchoFlow` | echo clients with more than one message under way: ch10 with its SCTP server, `ch6/client.c` |
| `MarketFeed` | exchanges, network and subscribers of ch21 |
| `Queries` | the programs of ch7, ch17, ch18 and ch19 that ask the kernel |
| `StrCliProofs` | theorems about `StrCli` and `EchoFlow` |
| `DaytimeProofs` | theorems about `Daytime` and `Queries` |
| `DatagramProofs` | theorems about `Datagrams` and `MarketFeed` |
| `MCPrethreaded`, `MCPreforked`, `MCForkServer`, `MCEventLoop`, `MCLockStep`, `MCDatagrams` | small instances: constants and symmetry |
| `MCPreforkedClients` | `PreforkedServer`, `LockStep` and `StrCli`, in one run |
| `MCForkingFlow` | `ForkServer` and `EchoFlow`, in one run |
| `MCDaytime` | `Daytime`, `MarketFeed` and `Queries`, in one run |

`map` in PROJECT.json gives the lines each definition stands for. Some modules
also hold *wrong variants* of an operator (a dropped lock, an index that wraps
too late), defined just before the right one and listed in the module's header.
Nothing uses them; put in the place of the right one they show that each
property notices a plausible mistake.

### PrethreadedServer

One action is one statement, or the statements between two points another
thread could observe. `pc[t]` is the place of a thread: `spawn` (:131),
`accept`, `put_lock` to `put_unlock` for `queue_put()` (:43-59), `get_lock` to
`get_unlock` for `queue_get()` (:62-77) with `get_wait` for
`pthread_cond_wait()`, then `tally`, `write` and `close`. `hand[t]` is the
descriptor in the thread's local variable, `slot`, `iget`, `iput`, `count` the
ring, `table` the kernel's descriptor table: `Accept` returns any free number,
so one that is closed may come back at once. `Write` to a connection the
client has reset does nothing or ends the process (SIGPIPE).

`SigInt(t)` takes a thread out of play (`sig_int()` never returns to it) wherever
it stands, and `Report` reads `thread_count[]` while the other threads run on. The
handler's `printf()` and `exit()` take the lock of stdout, as do a worker's
greeting (:86) and main's line (:167), which are three places each: `print`,
before the lock, `print_take`, while it is being taken, and `print_out`, with it.
That lock is recursive, so a handler whose thread has it takes it again
(`MayPrint`), and one whose thread does not waits for the one that has. Between, at
`print_take`, a thread has the lock and is not yet known to have it: a handler that
interrupts it there waits for itself (`Wedged`), and with it every other `printf()`
and the exit. POSIX leaves undefined what `printf()` does in such a handler; the
model has what a recursive lock does, and leaves out that the interrupted text may
be torn.

Left out: the text of the response, the failing of `listen()` and `bind()`
(the process ends before it has state), the locks of stderr and of the allocator.
In the ring `fd[500]`, 500 is the constant `MaxQueue`.

### JobQueue

`offer`, `jobs`, `taken`: the main thread offers one descriptor, the queue takes
it, or refuses it *only when full*; a worker takes the *oldest* and has it alone
until it releases it. `RefinesJobQueue` is this specification with `offer` the
main thread's hand, `taken` the workers' hands and `jobs` the ring read from
`iget` for `Depth` places. `Depth` is `count`, corrected by one between the
store into the ring and `count++`, and between the take and `count--`: those
two statements are where the abstract step happens, all others are stutters.

### PreforkedServer

`parent` follows `main()` and `sig_int()` statement by statement, with `fork()`
and the store of its result in `pids[]` apart (`Fork`, `Assign`), and `next` the
loop index. A child has `pc`, `hand` and a process state. `Kill` keeps the
meaning of `kill(0)` (the whole group, the parent included) and `kill(-1)`.
`Destroy` is glibc's: it fails while the mutex is held. A child dies of SIGTERM
anywhere (`Die`), or of SIGPIPE in `Write`.

### StrCli

`block` is the block of the `select()` round. Byte *k* of the input is the number
*k*, so order and loss can be told from the contents of the buffers. `Select`
returns what is ready and asked for; the four blocks are taken in the order of
the code, and each transfer takes any number of bytes from 1 to what both
sides allow. A block may find its descriptor not ready after all, since the
code adds it to `wset` after `select()` (:83, :104). The echo server, the user
and the terminal are the environment: one byte at a time, with bounded kernel
buffers. The server closes after FIN (`Hangup`), or earlier (`Quit`). `Intact` says
that everything comes back into `fr[]`, and that at a return exactly the bytes from
`froptr` to `friptr` are missing on stdout: :96 returns before the block that writes
them, and there the code does lose output (section 6).

### ForkServer

Processes with their descriptor sets; `fork()` copies main's. `pc` is main's
place, `reaping` says that it is inside `sig_chld()`. `sigchld` is one bit, so
children that end together are one signal. Four Boolean constants say what
differs between the programs: whether a handler is installed, whether a failed
`accept()` is noticed, whether `read()`'s result is, and whether "exit" ends a
session. `Kids` is the user's limit of processes: with none free, `fork()` fails.

### EventLoop

`loop` says which program it is and never changes. A round is `Wait`, then
`Accept` or `AcceptFails` if the listening socket is ready, then `Scan` from hit
to hit, each with a `read()` and as many `write()` steps as the blocking call
needs; clients act between any two. `ready` is `rset`, or the `revents` of the
array. In `server_poll.c` a slot just filled has a `revents` that `poll()` never
set: `NewReady` lets it be either. The model shows that it does no harm: the slot
is beyond the old `maxi`, so it is the last of the scan, and `nready` is used up
before the scan gets there (`RoundExact`, which with `TableExact` makes up
`Bookkeeping`).

`InRoom` and `OutRoom` are the kernel's buffers towards the server and towards a
client: a `write()` of more than `OutRoom` blocks until the client takes some.
`begun` says whether the current `write()` has written any, because what it does
when its client goes depends on that (`WriteToGone`): it returns short if it has;
if it has not, the first to find a reset gets ECONNRESET, which neither loop looks
at, and the client is `spent`: its end is read in a later round, and a `write()`
before that would raise SIGPIPE, as one does that finds EPIPE pending. To a client
that has only closed, the bytes go nowhere and may draw a reset.

### LockStep

`prog` is one of four pairs, `split` says whether a `read()` may return part of
what was written. A buffer is a sequence of `Size` characters that keeps what was
in it (ch5, ch15) or is cleared before each `read()` (assign), and is read as a C
string up to its NUL. Characters are abstract: `k`, `l` are the halves of the
word that ends a session, `n` a newline, `0` a NUL, `a` any other. `Type` stores
one NUL after the line, and a second where the client cuts the newline off (`Nuls`). What the
properties say of ends and answers is said for whole reads: with split reads a
stale half of the word can complete it, in these programs by construction.
`EchoStream`, which with `OwnAnswer` makes up `NoneMixedUp`, and `Replied` are for
every split. One thing the
model makes plain: the ch5 client notices the end of its session only because
the line it typed, "exit", is still in the buffer it did not read anything into
(`OwnAnswer`).

### Daytime

One server and its clients. `daemon` chooses between the server of ch11 and the
one of ch13, which first runs `daemon_init()` (`Fork` twice, `CloseAll`,
`OpenNull` three times). `tcp_listen()` is `Resolve`, then `Socket` and `Bind`
for each of `Locals`, then `Listen`, at whose result the code does not look: a
server that could not listen has no queue, its `accept()` fails at once, and the
loop spins (`AcceptInvalid`). Each `OpenNull` may fail as
well, unnoticed; `missed` counts those that do, and `FdsExact` says how far they
move the sockets down. With all three missed, a connection is descriptor 1 and the
server's `printf()` writes to it; `garbled` are the clients that have shown
something that is not the time. `fd` maps the
server's descriptor *numbers* to what they stand for, because the kernel gives
out the lowest free one: this is what makes 0, 1 and 2 matter. A client has its
list of addresses and its place `at` in it; `OwnLoop` says whether the loop is
its own (`TryOwn`) or `tcp_connect()`'s (`TryLib`). The time is `Text` bytes,
read in any pieces. `ReadError` has the three things that can follow a reset:
one client ends; the other keeps `read()`'s -1 in an unsigned `n`
(`daytime_tcp_client_v2.c:31`), writes to `buf[4294967295]` and crashes, or, if
that address is mapped, prints the buffer as it is, which makes it `garbled`, reads
again and ends.

### Datagrams

`prog` is one of four pairs. The network is two bags, `requests` and
`answers`; a datagram may be lost, repeated, or refused because nobody has the
port. A client's socket has a port from its first `sendto()` (`open`) to its
end, and the next process may get the same one, so an answer can meet the wrong
process. `sent`, `copies`, `lost` and `shown` are histories, which
`Conserved` balances; with `OwnAnswer` it makes up `OneAnswer`. In the ch8 client `revents` is what `poll()` returned, and
`Further` the test of `--nready`; at the end of stdin `read()` returns 0 and the
old line is sent again. `UdpServer` is `udp_server()` as it is written: it breaks
out of its loop right after `socket()`, so `bound` stays FALSE and the daytime
pair never exchanges anything. `NoneStuck` is `Answered` (a client's wait ends, or a
datagram was lost) and `Responsive` (the ch8 client does not block in `recvfrom()`).

### EchoFlow

`mode` says for each client which program it is: "one" is `doit()`, "all"
`doit_all()` of `sctp_client.c`, "select" is `ch6/client.c`. A message is an item
with its stream and its number there; a byte stream is cut into pieces that no
`read()` splits, on the one stream 0. `up` and `down` are what the kernel holds,
by client and stream, at most `Room` items in each direction: `Send` and `Put`
wait for room, as the blocking calls do. `TakeMessage`, `Reply` and `Put` are the
SCTP server, with `Reply` the increment of the stream number, `TakePieces` and
`Put` a loop of `ch6`, of which `EventLoop` has the rest. `Send` on a stream the association
lacks fails unnoticed and sets `refused`, and so the guarantee of `FlowAnswered` ends
where the program's does. `flagged` is the `select()` result that the client uses
after a `write()` that may have blocked for long. A client may be killed anywhere,
and leaves at the end of stdin; the server then answers nobody (`PutFails`), and
one of ch6 may die of SIGPIPE.

`InOrder` is a conservation law for each stream: the messages that wait for the
client, those in the server's hands (`Mine`) and those that wait for the server
are, in this order, numbered `seen + 1` to `sent`; and what waits for the client is
all on one stream `r`, on which no other stream's answers are (`OnlyOn`). It is
stated place by place, so that it can be proved.

### MarketFeed

`air` is a bag of datagrams; a datagram that is never taken is lost.
`Arrive` puts one into the sockets of all subscribers that hear its group and have
room, and gives it a number, `arrived`: the order of arrival is one for the host.
`Hears` is Linux's rule: a socket on the wildcard address hears every group the
host has joined, so `hft_subscriber_v6.c` prints updates of the IPv4 exchange.
`StartExchange` begins again at 1. `packet` is the subscriber's buffer, which a
failed `recv()` leaves as it was, `Printed` the two tests on `bytes_received` with
their signed and unsigned comparisons; -1 passes the second. `Faithful` says what
the program does promise, and by what it leaves out, what it does not: it says
nothing of gaps, since nobody looks at the sequence number, and an update that
arrives twice is printed twice.

### Queries

`asker` is one of seven programs, `next` the question it has come to. A value is
abstracted to the number of the question it answers: `buf` says whose answer is in
the two parts of the buffer (the first four bytes of `struct ifreq`'s union, and the
address behind them), `printed` under which name it came out. The kernel may
refuse any question. `sockfd` and `opened` are apart, because `checkopts.c` uses a
descriptor after it has closed it: no case of its `switch` is for IPv6. For PF_KEY,
`inbox` has the kernel's messages, those that other processes cause among them.
A negative value is one that is printed as the answer and is not: the name of an
interface that has gone (`RouteGone`, `getrt.c:76-78`), and a PF_KEY message about
another process's change. `Truthful` says that a value is printed under its own name,
once, that none that was given is left out, and that nothing else comes out but
these two, `Unwritten` and `Foreign`; of `key.c`, which reads one message, it says
nothing of those it does not read, and `DumpsAll` does.

## 3. Runs

| run | instance | shows |
|---|---|---|
| `prethreaded_safety` | 3 workers, 4 connections (1 may reset), 3 descriptors, ring of 2, 1 spurious wakeup | types, `FdExclusive`, `WorkConserving`, `RefinesJobQueue` |
| `prethreaded_progress` | 2 workers, 2 connections, 2 descriptors, ring of 1, 1 spurious wakeup, 1 SIGINT | `Served`, `Stops` |
| `preforked_clients` | PreforkedServer: 2 children, 2 connections (1 may reset), 1 failing `accept()`, 1 child killed from outside; LockStep: 4 pairs, buffers of 4, 5 kinds of line, 2 sends, whole and split reads; StrCli: buffers of 3, 5 bytes of input, kernel buffers of 2 and 1 | `AcceptSerialised`, `LockNotOrphaned`, `Served`, `ShutsDown`; `NoneMixedUp`, `Replied`; `Intact`, `Ends` |
| `forking_flow` | ForkServer: ch5, 3 clients, 2 processes, 1 failing `accept()`; EchoFlow: 2 SCTP clients on 1 or 2 streams that ask on up to 3, or 1 `select()` client that types 11 pieces, 4 items of room | `ZombieNoticed`, `OwnConnection`, `OnlyRefusedDropped`, `ClientsClosed`; `InOrder`, `FlowAnswered` |
| `event` | both loops, 3 clients that send 2, 1 and no bytes, 2 slots, kernel buffers of 2 towards the server and 1 towards a client, 1 failing `accept()` | `Bookkeeping`, `EchoExact`, `Served` |
| `daytime` | Daytime: either server with 2 local addresses, one client of each kind with 2 and 3 remote ones, a time of 2 bytes, 3 failing calls; MarketFeed: 1 exchange that starts twice, 1 subscriber of each family, 1 foreign datagram (a trade, or a 'P' too short for an update), copy or failed `recv()`; Queries: 7 programs, 2 refusals, 1 foreign message | `FdsExact`, `NonePassedOver`, `TimeShown`; `Faithful`; `Truthful` |
| `datagrams` | 4 pairs, 2 ports that send 2 and 1 datagrams, 1 lost, 1 repeated, 1 tick of the clock | `OneAnswer`, `NoneStuck` |
| `preforked_waits` | 2 children, 2 connections | `WaitsForChildren` fails |
| `fork_ch4_eof` | ForkServer as ch4, 3 clients, 2 processes | `ClientsClosed` fails |
| `lockstep_calc` | LockStep: the calculator, 2 sends | `Calculated` fails |
| `prethreaded_wedged` | as in `prethreaded_progress` | `AlwaysStops` fails |
| `queries_dump` | as in `daytime` | `DumpsAll` fails |

Every run that passes also checks its modules' type invariants where it has
INVARIANTs.

**Joined runs.** `preforked_clients`, `forking_flow` and `daytime` run systems that
have nothing to do with each other in the repository. The variable `system` is
chosen first and never changes; the actions and the fairness of the other systems
are guarded by it (`On`), and their variables keep one first value. A property of
one system therefore sees exactly the behaviours of its own module's
specification, and those of the others with its variables at rest.

**Why the bounds are enough.** Each is the smallest at which every branch is
taken and every actor has a rival.

* Prethreaded: with three workers one can sleep while one is awake and one is
  in the ring; a ring of two wraps, has a middle state, and fills while three
  descriptors are open; four connections over three descriptors force a number
  to be used again. `MaxSpurious` bounds the spurious wakeups. `prethreaded_progress`
  has the SIGINT, which is taken once, and a smaller pool: a worker asleep and one
  awake, a ring that is full with one entry, and a connection that waits for it.
* Preforked: two children contend; errors and kills are bounded at one each,
  since the second finds the same states; the third source of failure, `fork()`,
  is not bounded.
* StrCli: the buffer is larger than the kernel's and smaller than the input, so
  it fills with unwritten bytes at its end, rewinds, and is used a second time.
* ForkServer: three clients on two processes reach the limit and reuse an id.
* EventLoop: three clients for two slots fill the table, refuse one, free a slot
  in the middle and fill it again. A client sends two bytes that one `read()` may
  take, and is sent one at a time: `write()` blocks half-way through the echo, and
  its client may close or reset before it goes on, or before it has begun.
* Daytime: of the server's two addresses the first takes both families and the
  second one, so that a fallback loses clients; each client's list begins with an
  address that may refuse and has one that always does, before and between those
  that answer. Three failing calls are all three `open("/dev/null")`, or a loop that
  fails twice in a row and then the next step, or that fails and a `listen()` and an
  `accept()` after it.
* Datagrams: one port is used twice, which takes two sends; the other is its rival
  at the server. One loss and one copy meet every datagram in every place.
* EchoFlow: the `select()` client types more than all buffers of both directions
  and both programs hold together, so that every `write()` blocks. Two streams are
  the fewest with an increment and a wrap, and `Asked` is as many: with one
  stream, `doit_all()` meets a stream the association lacks. Two clients mix at the
  server. `Room >= Asked` is the assumption that the kernel takes what `doit_all()`
  sends at once: 100 KB in each direction against Linux's 208 KB, the default of
  a socket's buffers; FlowAnswered needs it.
* MarketFeed: each run of the exchange publishes one update, so a restart makes two
  with the same number; clocks are equal or the exchange's is one tick ahead, with
  one tick to pass; `Word` is large enough to tell a wrapped latency from another.
* Queries: two refusals hit any pair of questions; the lists of interfaces and
  routes have each kind of member, and one that ends with it.
* LockStep: the longest kind of line fills the client's buffer exactly, is cut
  by `fgets()`'s limit and begins like the word; two sends let a line of each
  kind follow one of each.

**Symmetry** is used only in `prethreaded_safety` and `preforked_waits`, which
have no liveness. **Deadlock** is not
checked in any run: each system may stop rightly. A client is never obliged to
connect or speak, programs end, and the numbers of clients, bytes and sends are
finite. That nobody is stuck when there *is* something to do is what the liveness
properties say (`Served`, `Stops`, `ShutsDown`, `Ends`, `Replied`, `FlowAnswered`, `TimeShown`,
`NoneStuck`).

**Fairness** is weak, and only for what the kernel keeps running: each thread
(`MainStep`, `WorkerStep(w)`, `HandlerStep`), each process, the delivery of a
signal to it, the terminal's display and a client that reads its echo or sees
its connection end. No fairness is assumed of a mutex (a worker may lose every
race; `Served` holds as long as some thread takes each job), nor of clients
connecting, typing or leaving, SIGINT, spurious wakeups or failures. In
`StrCli` the user does type to the end of the input, which is finite, and the
server echoes and closes after FIN but is not obliged to quit early. In `EchoFlow`
clients and server go on, and nobody has to type. `MarketFeed` and `Queries` have no
liveness: an exchange publishes for ever, and a query ends when the kernel says. In
`Daytime` and `Datagrams` the running programs go on, a datagram on its way
arrives somewhere, and nobody is obliged to start a client, to type, or to leave
a server alone.

## 4. Theorems

For all values of the constants that the modules' assumptions allow.

**PrethreadedServerProofs.** `Invariant` proves
`IInv == TypeOK /\ LockOwner /\ HandPc /\ Ring /\ FdExclusive`. `FdExclusive`
alone is not inductive: that two workers never take the same slot needs that one
thread at a time is between `lock` and `unlock` (`LockOwner`: the mutex's owner
is exactly the thread whose `pc` is inside), that a thread holds a descriptor
just where the code says so (`HandPc`), and that the ring's two indices and its
depth agree modulo `MaxQueue` (`Ring`), so that a store writes a slot that is not
pending. The lemmas `StoreAppends` and `TakeTails` say what a store and a take do
to the ring read as a sequence. From it:
`TypeCorrect` (the indices never leave `fd[]`), `FdsExclusive`, `NoLostWakeup`
(`WorkConserving`, by a count of the awake workers on top of `IInv`) and
`Refinement`: `Spec => RefinesJobQueue`, by initial states and `QueueStep`, every
step is a step of `JobQueue` or a stutter.

**PreforkedServerProofs.** `IInv == TypeOK /\ Bodies /\ Owner /\ Deaths`:
the
loops' bodies run below `NCHILDREN` and a child works on a connection it accepted
(`Bodies`); until it is destroyed the mutex belongs to exactly the child in the
critical section, dead or alive (`Owner`); before SIGINT and without outside help a
child dies only in `write()` (`Deaths`). From it `TypeCorrect`, `MutualExclusion` (`AcceptSerialised`) and
`NoOrphanedLock`: a mutex held by a dead child means that another process or
`sig_int()` killed it.

**StrCliProofs.** `IInv == CliTypeOK /\ Upstream /\ Downstream /\ Blocks /\ Fin /\
Close`. `Blocks` carries what `select()` promised from the round's start to the
block that relies on it; `Fin` ties FIN to an empty `to[]` and an ended stdin.
From it `TypeCorrect`, `FinIsLast`, `ReturnsAfterAll` (a return means that everything
was sent, echoed and read, unless the server quit, and that what stdout lacks is
what `fr[]` still holds, the end of the input) and `EchoIntact`, that the
run's `Intact` always holds, for every buffer size, every input length and every
split. None of them says that stdout has everything: it need not.

The same module has `EchoFlow`. `InOrder` says that there is *some* stream `r`;
that is not inductive, because nothing then says where the server's next answer
goes. `FlowInv` therefore names it: `Back(c, s)` is the stream on which the answers
to stream `s` come back, no two the same (`BackOnce`), `Chain` says `InOrder` of it,
and `Answering` that the stream the server has chosen is that one while the client
is there. `Placed` bounds the queues and keeps them off streams the association
lacks, and `Round` counts: a client of ch10 awaits at least as many answers as
it has messages out and items still to send, all on different streams. Each step
takes from the front of one queue or adds at the back of another, and the lemmas
`FlowsOut`, `FlowsTaken`, `FlowsPut`, `FlowsIn` and `FlowsOther` say once what
that does to the numbers. From it `FlowTypeCorrect` and `BackInOrder`, for any
number of clients and streams, with or without the increment.

**ForkServerProofs.** `IInv == TypeOK /\ OwnConnection /\ MainOwn /\ Fresh`:
main has open only the listening socket and the connection it is about to fork
for, and a connection that waits is in no process. From it `TypeCorrect` and
`Isolation`, for all three programs at once; `NoHiddenZombie` separately. With two
invariants more, that only a running child has anything open (`Bare`) and that the
child just forked has main's connection before main closes its own (`Inherited`),
the action property: `OnlyRefused` (`OnlyRefusedDropped`).

**EventLoopProofs.** `IInv == TypeOK /\ Clients /\ Rounds`. `Clients` says that a
client is in the queue or in the table, once, and in a slot the scan reaches.
`RoundExact` is not inductive: with `poll()` the slot filled in this round may pass
for ready, so the ready slots still to be scanned do not say how many turns are
due. `Turns` therefore names the set `select()` or `poll()` reported: `nready` is
its size, all its members are readable, and what else looks ready is the highest slot
alone, which the scan reaches last. From it `TypeCorrect` and `BookkeepingExact`
(`Bookkeeping`), by one lemma per action; and `BytesExact` (`EchoExact`), from the
types and that no action changes the sum of a staying client's bytes.

**LockStepProofs.** `IInv == AnyTypes /\ EchoStream /\ WhileWhole`. The first two
hold for every split. `WhileWhole` is what one round of question and answer rests
on while writes travel whole: one line is under way, or its answer (`InFlight`);
the buffers have a NUL (`Ends`); the echo client's buffer still holds its line, and
the server has closed only if that line is the word (`Echoing`), which is why
the ch5 client ends although it reads nothing. From it `TypeCorrect` and `NoMixUp`
(`NoneMixedUp`).

**DaytimeProofs.** For Daytime `IInv == Types /\ Descriptors /\ Opened /\ Waiting /\
Timely /\ Heard`. The kernel gives out the lowest free descriptor, so `FdsExact`
needs to know all of them at every place of the server, lower by one for each
`open("/dev/null")` that failed (`Descriptors`, with `LowestFree`); a client is in
the queue or holds the connection, once (`Waiting`),
hence the one `write()` it gets is its first (`Timely`). From it `TypeCorrect`,
`FdsKnown` (`FdsExact`), `ShownWhole` (the safety half of `TimeShown`, with what it
allows once all three have failed), and `Connects`
(`NonePassedOver`), a property of whole behaviours: from the moment it names,
either another call has failed, or the client's place in its list is not
behind an address the server listens on.
For Queries `QInv == QTypes /\ Asked /\ Posted /\ Sockets`: a program that asks has
printed, for questions before `next`, what it was given, and after an interface has
gone perhaps what it was not (`Matches`, with the set `Lost`); one that is sent
messages has printed and has waiting an unbroken row of them. From it
`QueriesTypeCorrect` and `Honest` (`Truthful`).

**DatagramProofs.** For Datagrams `IInv == Types /\ Polling /\ Conserved /\ Own`.
`Conserved` is inductive over steps that move one datagram between two of its
five places; the answers of one request are counted as a set of bag elements
(`Each`). `Own` says why a client that asks once cannot be shown an old answer:
its port has one datagram under way while it waits, and none otherwise (`Alone`).
From it `TypeCorrect`, `OneEach` (`OneAnswer`) and `NeverBlocks`, the safety half of
`Responsive`. For MarketFeed `FeedInv`: what is on its way is an update that its
exchange has published, or no update (`AllKnown`); the numbers of what is printed
and of what waits rise (`Rising`) and are those heard (`Complete`); the copies of an
update that are printed, wait or are on their way are counted together
(`FewCopies`). From it `FeedTypeCorrect` and `Faithfully` (`Faithful`).

The assumptions on constants are those named in the modules (`ServerAssumption`,
`PreforkAssumption`, `CliAssumption`, `FlowAssumption`, `ForkAssumption`, `LoopAssumption`,
`LockStepAssumption`, `DaytimeAssumption`, `QueriesAssumption`, `DatagramAssumption`,
`FeedAssumption`): sizes are positive, the special values are not members of the
sets, and a set is finite where something in it is counted. Four say more. LockStep's
`Size > 3` gives the calculator's result room in its buffer; EchoFlow's `Room >= Asked` and
`Room >= 2 * Chunk` are for `FlowAnswered` alone, and no theorem uses them;
MarketFeed's `Word > 2 * (MaxNow + a)` says that 64 bits tell a wrapped latency
from a possible one; and its `Others` are not price updates by definition.

`tlapm` translates to SMT with an axiom that gives every value a length that is a
natural number, sequence or not. No proof depends on it: all of them also check
with that axiom taken out of the translation.

**Only model-checked:** the liveness properties (`Served`, `Stops`, `ShutsDown`,
`Ends`, `FlowAnswered`, `ClientsClosed`, `Replied`, `NoneStuck` and the other half
of `TimeShown`), because the prover has no rule for fairness or ENABLED here. Every
invariant and every action property that a passing run checks is a theorem.

## 5. What the models leave out

* Contents of messages wherever no property is about them; wording, logging,
  address formatting.
* Set-up before a server's loop: it runs once, alone, and a failure exits.
* `server_select.c` with a failed `accept()`: `FD_SET(-1)` is modelled for fewer
  than 63 descriptors, where no `select()` looks at the stray bit, or as an
  abort.
* In LockStep the arithmetic of `evaluate()`: any number may come out; and
  in ForkServer the bytes that are echoed, which LockStep has.
* In Datagrams pairs other than the four (any UDP client can be pointed at any
  server), and lines longer than a buffer. `TimeOfDayServer.c`'s answer to a
  request other than "time" is never sent to its own client.
* In EchoFlow the text of a message and `sri`'s other members; the lines that
  `doit()` rejects; a client of `ch6` against another server than ch6's.
* In MarketFeed prices, symbols and the length field, which no subscriber reads;
  a socket that cannot be made or bound (the program ends).
* In Queries all values and their wording, tests that the kernel never fails
  (`len != sizeof(int)`, a truncated PF_KEY message), EINTR (no handler is
  installed), and a kernel without a query's answer that never sends one.
* `udp_connect()` and `host_serv_info()`: no program calls them.
* A second SIGINT in `preforked.c` has no action: the signal is blocked while
  its handler, which never returns, runs. `prethreaded.c` allows as many
  handlers as `MaxSigInt`.

## 6. Where the code differs from what it says

* `preforked_waits`: `preforked.c:96` "Wait for children to exit". With SIGINT
  during the fork loop, `pids[]` still holds zeros, `kill(0, SIGTERM)` reaches the
  parent itself, and it is gone before its children are.
* `fork_ch4_eof`: `ch4/server.c:40` says "Closing client connection", but the child
  never looks at what `read()` returned; a client that closes without "exit"
  leaves a child that loops on 0 bytes for ever.
* `lockstep_calc`: the client quits on the line "-1" alone
  (`CalcClientTCP.c:37`), the server on every request that begins with "-1", so
  "-1 + 2" ends the session and its result is empty.
* `prethreaded_wedged`: "Signal Handler for Clean Shutdown & Stats"
  (`prethreaded.c:114`) calls `printf()` and `exit()`. If SIGINT finds a thread as it
  takes the lock of stdout in its own `printf()` (:86, :167), the handler waits for
  itself and the server never stops.
* `queries_dump`: "Dump all protocol SAs (AH & ESP)" (`key.c:25`), but one message of
  the dump is read.

Other places that differ from a sentence of the source. They are in the models, and
the properties say what the code does instead, but no run is about the sentence:

* `prethreaded.c:123` prints "Server shutting down cleanly." and :124 exits, although
  connections may be in the ring or in a worker's hands; their clients get no answer
  (`Served` ends with `~up`).
* `str_cli_nonBlocking.c:59` says "Write to stdout if 'fr' buffer contains unwritten
  data", :96 "Normal termination": when the end of the socket is read before the
  terminal has taken everything, :96 returns and the rest is dropped (`Intact` says
  exactly what).
* `ch10/sctp_client.c:33` says "Echoing messages to all streams" and sends on 100;
  Linux gives an association 10. The other 90 are refused, unnoticed, and
  the client waits for ever for the 11th answer (`refused` in `FlowAnswered`).
* `ch19/key.c:46` prints "SADB query successful." of the message it read first, which
  may be about another process's change (`Foreign` in `Truthful`).
* `ch21/market_data.h:13` calls the sequence number "Monotonically increasing"; it
  begins at 1 in every run of the exchange, gaps are not noticed, and a
  latency below zero is printed as 18 billion seconds. `hft_subscriber_v6.c`
  also hears the IPv4 group when somebody on the host has joined it.

And what no sentence of the repository is about:

* `lib/udp_server.c:25` and `lib/udp_connect.c:23` break out of their loops when
  `socket()` *succeeds*, before `bind()` or `connect()`; `daytime_udp_server`
  serves nobody.
* `ch8/udp_client.c:43` sends all `BUFSIZ` bytes for every line, so
  `ch8/udp_server.c:36` always writes its NUL one byte past `buf`.
* `ch11/daytime_tcp_client_v2.c:31`: -1 in an unsigned `n`, as above.
* `lib/tcp_listen.c:37` ignores the result of `listen()`, and `lib/daemon_init.c:26-28`
  those of `open("/dev/null")`.
* `ch4/server.c` and the daytime servers go on with the -1 of a failed `accept()`;
  ch4, ch5 and ch15
  take that of a failed `fork()` for the number of a child, and hang up on its client.
* `ch10/sctp_client.c:51` sets SCTP_EVENTS at SOL_SOCKET, where it is another
  option: `sri` is never filled, and "From str:" shows the stream that was typed,
  or 0.
* `ch6/client.c:63` leaves at the end of stdin with echoes still to come, and sees
  the word "exit" only where a `read()` begins with it.
* `ch7/checkopts.c:111`: nobody defines IPV6, so the three IPv6 options are asked of
  a closed descriptor, and always fail.
* `ch18/getrt.c:77` prints a name that was never written if the interface has gone.

## 7. Plan

Done, in this order, the most concurrent first: PrethreadedServer with JobQueue,
PreforkedServer, StrCli, ForkServer, EventLoop, LockStep, Daytime, Datagrams, the
proofs of the first four, then EchoFlow, MarketFeed and Queries, the proofs
of EventLoop, and the proofs of all the others.

To come:

1. Proofs: that the counters the two ch30 servers report cover their answers, from
   the invariants already proved and the cardinalities of the answered sets.
2. One abstract echo client, which `StrCli` implements for its whole input and
   `ch6/client.c` only up to the end of stdin.
