# A verification project for rdma_tests

rdma_tests speeds up TCP connections by moving their payload over RDMA. A ring
buffer on each side, written by the other side's network card, replaces the byte
stream; a library of overridden socket functions (`LD_PRELOAD`) puts it under
programs that know nothing of it. This directory holds TLA+ models of that code,
the TLC configurations that check them, and proofs for the TLA+ proof system.

All line numbers are those of the files under `src/`; `PROJECT.json` maps each
definition to the lines it models.

## 1. Inventory

| Component | State | Operations |
|---|---|---|
| **Wraparound** `RDMAMessageBuffer.cpp:107-130,164-184` | none: it maps positions that only grow to offsets of a ring | `wraparound`, the copy loops of `writeToSendBuffer`, `readFromReceiveBuffer`, `zeroReceiveBuffer` |
| **RDMAMessageBuffer** `RDMAMessageBuffer.{h,cpp}` | `sendPos`, `readPos`, `currentRemoteReceive`, the send and the receive buffer (registered memory), addresses of the far side's | `send`, `receive` (two overloads), `hasData`, constructor and set-up over TCP |
| **CompletionQueuePair** `rdma/CompletionQueuePair.*` | a send and a receive completion queue, one event channel, a cache of completions, `guard` | `pollSend/RecvCompletionQueue[Blocking]`, `waitForCompletion[Send/Receive]`, constructor, destructor |
| **QueuePair** `rdma/QueuePair.*` | the state of the verbs queue pair | constructor, `connect`, `postWorkRequest` |
| **WorkRequest** `rdma/WorkRequest.*` | one `ibv_send_wr` and its slices | builders of reads, writes, atomics |
| **Network, ReceiveQueue, MemoryRegion** `rdma/` | device context, protection domain, shared receive queue, registered memory | constructors and destructors |
| **Socket overrides** `fileDescriptorOverrides/overrides.cpp` | `bridge` (descriptor to buffer), `rdmableSockets`, `forkGeneration`, `dontCloseRDMA` | `accept`, `connect`, `read`, `write`, `send`, `recv`, `close`, `fork`, `poll`, `select`, `fcntl`, `setsockopt` |
| **Real functions** `fileDescriptorOverrides/realFunctions.*` | pointers found by `dlsym` | one forwarder per function |
| **tcpWrapper** `tcpWrapper.*` | none | `tcp_socket`, `tcp_bind`, `tcp_read`, `tcp_write`, ... |
| **RDMA programs** `rdmaPingPong.cpp`, `rdmaInlineComparison.cpp` | a counter on each side | construct a buffer, send and receive in turns, end |
| **TCP programs** `forkingPingPong.cpp`, `tcpPingPong.cpp` | children, descriptors of connections, a signal handler | accept, fork, answer, reap |
| **minimal.cpp** | none of its own | a straight line of calls of the verbs wrapper |

**How they interact.** `overrides.cpp` keeps one `RDMAMessageBuffer` per
intercepted descriptor and calls `send`, `receive`, `hasData` on it. A buffer
builds requests with the `WorkRequest` builders, posts them on its `QueuePair`
and polls the `CompletionQueuePair` for the one kind of request it signals, a
read of the far side's `readPos`. Buffers of two processes share no memory: the
card of the sender writes frames (length word, data, validity word) into the
receiver's ring, and reads the receiver's `readPos`. The receiver is told of
nothing; it scans its own memory until the validity word shows up. Set-up
exchanges addresses and queue pair numbers over the TCP socket.

**What is hard.**

* The receiver reads a frame while the card writes it. `src/README.md:24`: "RDMA
  guarantees, that memory is written in order. However, only bytes are written atomically.
  When reading bigger words, they might be written partially."
* `send()` returns before the card has read the send buffer. Nothing but the
  receiver's progress says that a piece of it may be used again.
* The sender works with a `readPos` of some time ago.
* Writes are unsignaled, so their slots in the send queue come back only when a
  later read completes.
* Positions wrap around at any byte of a frame.
* Waiting threads share an event channel that blocks inside a mutex, and a
  completion event is generated once per arming of a queue.
* Two sides that both send without receiving wait for each other.
* Two constructors talk over a stream that may end at any point, and afterwards
  nobody asks whether the other side is ready; there are no retries.
* A program ends, and destroys its buffer, without asking whether its last message has left.
* The forking server is interrupted by the ends of its children, several of which may be one signal.
* The overrides keep state per descriptor number across `close` and `fork`, and the
  constructor they call comes back to them for its own `send` and `recv`.

**What makes each component correct.**

| Component | It is correct if |
|---|---|
| Wraparound | the slices tile the range in order, each non-empty and inside the ring; the copy loops touch just the range's cells |
| RDMAMessageBuffer | every message arrives, once, whole, in order; the sender never writes a byte that the receiver has not given back; cells to be filled are zero; bytes under way are not overwritten; the send queue never fills up; `hasData` means that `receive` does not loop; no `send` waits for ever if the other side receives |
| CompletionQueuePair | each completion is handed out once, in order; a thread never sleeps while something it could be woken for is there |
| QueuePair and set-up | a request is posted only after the far side can take it; both constructors end; nothing of their exchange stays in the stream |
| RDMA programs | no two messages wait for each other's room; both sides count alike; the client gets its answers |
| TCP programs | each client is served whatever happens to the others; no child stays a zombie; descriptors do not run out |
| Socket overrides | a call on a descriptor reaches the connection it is open on, over RDMA just if its far side expects that; what is remembered of a number is about the connection it is open on; `poll` reports a descriptor exactly if a call on it would not block |

`PROJECT.json` lists the hazards one by one, each at its line.

## 2. Modules

| Module | Role |
|---|---|
| `Wraparound` | ring arithmetic, no state |
| `WorkRequests` | the read and write requests and their builders, no state |
| `RDMAMessageBuffer` | one direction of a connection, byte by byte: sending thread, card, receiving thread |
| `MessageFifo` | what a direction promises: a bounded queue of whole messages |
| `CompletionQueuePair` | waiting and polling threads, two queues, one channel, the cache |
| `VerbsResources` | what the constructors acquire and the destructors free, no state |
| `ConnectionSetup` | both constructors of a connection, the TCP stream between them, queue pair states, the end of both sides |
| `PingPong` | the two RDMA programs over `ConnectionSetup`: both directions, message by message |
| `TcpServers` | the two TCP programs: server, children, clients, SIGCHLD |
| `SocketOverrides` | the processes of one program: descriptors, marks, buffers, fork generations |
| `PollSelect` | `poll` and `select` of one thread, with messages that arrive meanwhile |
| `MC*`, `*.cfg` | instances for TLC |
| `RDMAMessageBuffer_proofs`, `SocketOverrides_proofs`, `ConnectionSetup_proofs`, `PollSelect_proofs` | theorems about the module of that name |
| `PingPong_proofs` | theorems about `PingPong`, on top of those about the setup |
| `CompletionQueuePair_proofs` | theorems about `CompletionQueuePair`: types and wake-ups, order, each completion once |
| `MessageDelivery_proofs` | theorems about the contents of messages and the refinement of `MessageFifo`, on top of `RDMAMessageBuffer_proofs` |
| `TcpServers_proofs` | theorems about `TcpServers` |

`RDMAMessageBuffer` is built from `Wraparound` and `WorkRequests`, and refines `MessageFifo`;
`ConnectionSetup` makes the steps of `VerbsResources`; `PingPong` extends `ConnectionSetup` and uses of a
direction what `MessageFifo` promises.

### Wraparound

`Slices(pos, n)` is the vector that `wraparound()` returns: one slice, or two when
the range crosses the end of the ring (`:113`). A range that ends exactly at the end
is one slice. An empty range is one empty slice, which the copy loops skip.
The mask of the code (`:111`) is written as `% Size`, in `Cell`. `And` is the operator `&`, digit by digit, as a recursive function of two
arguments; that the two agree for a size that passes the constructor's test (`PowerOfTwo`, `:97`) is arithmetic, the lemma `MaskOfPower` (§6).
`MCRDMAMessageBuffer` assumes that the size of the runs passes the test.

### WorkRequests

A request is a record: opcode, id, the signaled and inline flags, the slice and where it goes.
`NewRequest` is the constructor, all zero; the other operators are the setters and the two builders.
The builder that `send()` uses, the one for a whole region, sets an id, `ReadId`, and `send()` polls for it: with the mutant, which
does not, `send()` waits for ever.

### RDMAMessageBuffer

One direction is enough for safety: the directions of a connection have their own
rings and positions, and share a queue pair and its completion queue, of which
only the sending thread of a side takes completions.

The granularity follows what other actors can see:

* **Sender.** `Send` is the entry with its check (`:137`); `WritePart` is one call of
  `writeToSendBuffer` that finds room (header, data, footer are separate calls, each with its
  own check, `:142-144`); `PostRead` and `Poll` are its loop without room
  (`:157-163`); `PostSlice` posts one write (`:146-152`). `Post` is
  `postWorkRequest`, which throws when the queue is full: `spc = "failed"`.
* **Card** (external). It executes `sq` in order. `DeliverByte` places one byte,
  taken from the send buffer at that moment or, for an inline write, from the
  request. A read has two steps, since the far `readPos` may move between the far
  card's look at it (`FetchReadPos`) and its arrival (`CompleteRead`).
* **Receiver.** `Receive` and `HasData` enter; `ScanByte` reads one byte of the
  length or of the validity word, so that any tearing is possible; then
  `Answer`, `Retry`, `TooBig` or `CopyData` is what `:72-76` decide, and `Zero` and
  `Advance` finish. `CopyData` and `Zero` are one step each although they are loops:
  `AcceptedStable` checks that no byte of the frame changes while they run, so
  that the loops could not tell.

A word is a sequence of `WordLen` bytes, and one that is read while it arrives is `Torn`: some of its last bytes are
still zero. `WordAssumption` is what the code relies on there: the last byte of the validity word is not zero, and a length whose
last bytes are zero is not larger than the length. `FrameByte` is what `send` writes at each place of a frame. `NoPhantom` says of
the payloads that wherever a torn length makes `receive` look for the validity word, the frame has a byte which is not that
word's. `EnoughSlots` compares the send queue with the frames that fit into a ring. The model assumes neither;
theorems have them as hypotheses, and `MCRDMAMessageBuffer` checks that the payloads and sizes of the passing runs satisfy both.

`sent`, `received`, `delivered` and `avail` are history variables. They are never
read by a guard, except that `MaxMsgs` bounds the length of `sent`.

### MessageFifo

The queue has `Put` (if the frame fits in what is left of the capacity), `Get`, and the
promise that a message put is got. The refinement maps a `WritePart` of the footer
to `Put`, because no step of `send` waits after it, and `Advance` to `Get`.

### CompletionQueuePair

One model serves `waitForCompletion()` and its two restricted forms: a thread has a
set of kinds it takes (`Wants`). A thread goes through the cache under the mutex
(`TakeCached`, `NotCached`), blocks in `ibv_get_cq_event` while it holds the
mutex (`GetEvent`), arms the queue it was woken for (`Arm`), empties it into
the cache (`Keep`, `Throw`) and returns (`Return`) or waits again (`WaitAgain`).

The polling functions take no mutex. `Poll` is one `ibv_poll_cq` of
`pollSend/RecvCompletionQueue`, `PollBlocking` and `Spun` the forms that spin. They differ in the opcodes they accept
(`PollTypes`, `BlockingTypes`), and they throw for any other and for an error: the completion they
have taken is gone then (`refused`). The caller decides on the template argument, so that the
types are a parameter of the action.

A card adds completions (`Complete`), at most `MaxOdd` of them with an error or of a write, and
puts an event on the channel if the queue is armed.

### VerbsResources

`Steps` lists the calls of the verbs library that the constructors of a buffer make, in order: those of
`Network` with its `ReceiveQueue` and `CompletionQueuePair`, of the second `CompletionQueuePair`, the
`QueuePair` and the four `MemoryRegion`s. Each may throw. `Objects` says for each object
which step completes it, when it gets an owner whose destructor frees it, and what its own destructor
frees. `Unwind(n)` is what the language then does when an exception leaves the constructor after `n`
steps: objects that are complete are destroyed, the last first; for one that is not, no
destructor runs, and what it has acquired itself is left. `Users` is what the library
refuses to free while it is in use; it is taken from the library's documentation, not from the repository.

### ConnectionSetup

A side's `pc` names the next step of its constructor, members first: the verbs objects
(`Create`), the addresses (`WriteAddress`, `ReadAddress`, `:36-41`), three steps of
`QueuePair::connect` (`ModifyQp`), the memory regions (`Register`), the keys (`WriteRmr`, `ReadRmr`,
`:104-105`). The order stands in one function, `After`. Each structure is sent in two
units, so that a piece can come alone. `tcp_read` looks at nothing but the sign of
`recv()`'s answer: `Filled` puts as much as has come over the front of the structure
and leaves the rest, which for the address is the side's own, because the variable is the one
that was sent. `Create` and `Register` go one step of `VerbsResources` at a time; `made` counts them and `held` is what the side
has acquired. `Throw` is the failure of a call at any of these steps, of the verbs library or of `send()` and `recv()` (a reset, or a
signal that interrupts `recv()`, `tcpWrapper.cpp:25-37`), and `Fail` the destructors that follow, which free `Unwind(made)`. `Proceed` are
the other steps of the constructor. That `send()` may take less than it is given is not modelled. `Exit` is the end of a process at any time.
After a failure the application may go on with the socket (`AppWrite`, `AppRead`), and
after success each write of a side is a `Post`; `Lands` states when a card places it. Once one is lost, the queue pair is
in error and all that come after it are lost (`posted` stays `"lost"`).

### PingPong

`Client` and `Server` are the two sides; `program` says which of the two programs both of them run. The client's
`Sends` are the messages it sends in order, by their sizes, and `Answers` how many the server takes and sends back:
the sides agree on neither number over the wire. `ClientSend`, `ClientReceive`, `ServerReceive` and `ServerSend` are the
bodies of the loops; a message sent is `flying` until the card has put it into the far `ring` (`Place`, which is a `Post` of
the setup). `send()` waits for room: what flies and what lies in the ring must be less than `Capacity`. An answer of
another size is an exception that nobody catches (`ClientReceive`). `Finish` is the end of `main`: it
destroys the buffer and with it what is still flying. `Crash` may come at any time.

### TcpServers

`program` is `forkingPingPong` or `tcpPingPong`; both serve a client with the same loop (`Start`, `Read`, `Write`,
`Close`), in a child or in the server. `tcp_read` looks at the sign of `recv()`'s answer only: at the end of the
stream the loop goes on with the old contents (`Read`), until a write fails or the process gets SIGPIPE (`Killed`). `holders`
says which processes have a descriptor of a connection: only when the last one has closed it does the client see the end.
`Fork` asks for nothing but 0, so that a failure counts as being the parent: the connection is closed and the client
sees that. `Signal`, `Reap` and `HandlerReturns` are `sigchldHandler` (`forkingPingPong.cpp:13`), which may come
between any two steps of the server; if it comes while `accept()` waits, that fails with EINTR, because `sigaction` was not asked
for SA_RESTART, and the exception ends the server (`"gone"`). One signal may stand for several children (`pending`).

### SocketOverrides

`open` is the kernel's table, one per process; `bridge`, `rdmableSockets` and `forkGeneration` are the
variables of `overrides.cpp:14-17`, which `fork` copies. `bridge` says which connection a buffer leads
to; `nullEntry` are entries without a buffer. `handles` is what the application believes: which descriptor it was told
for which connection. `Accept`, `Connect`, `Close` and `Fork` are the overridden functions with
the real ones they call. Whether a connection is to be intercepted is not given but derived: `Reachable` are
those of a TCP socket to the host that `USE_RDMA` names. A call that sends or receives has a form (`CallForms`: how many
buffers, whether an address, which flags); `sendmsg`, `sendto`, `send` and their counterparts pass it on, or leave
it to the socket (`ReadOrWrite`). What comes to `read` and `write` chooses among three ways (`Route`): the buffer, the socket, or to open a buffer. The last is not atomic:
`OpenBuffer` removes the mark and starts the constructor, whose four calls of `send`
and `recv` are `SetupCall`, each of which takes its own way through `Route`; `BufferReady` makes the
entry, and `Throw` ends the process, for which an exception out of `write` has no handler. C++14 leaves open whether
`bridge[fd]` (`:148`) makes its entry before the constructor runs, and so does `OpenBuffer`; if it does, the constructor's own
`send` finds the entry and no buffer in it, and the process ends (`Dereference`).

The kernel gives out the lowest number that is free (`Lowest`), whatever the library remembers of it. `past` is a history variable that
says what that is: a number is `"fresh"`, or `"led"` to connections to be intercepted that nobody has used in this process (a server that leaves
that to its children gives the number to one after the other), or `"used"`, or `"stale"`: given to a connection that the
library takes for an earlier one. `last` is the last call and where it went. Neither is read by a guard.

What this model assumes of the application, as guards, `MayUse` and `Fork`: it uses a connection in one process, and one to a
reachable host in the generation that `RDMA_FORKGEN` names, where it stops to fork. `src/README.md` asks for this.

### PollSelect

One thread calls `poll` or `select`; messages and time come from outside (`Arrive`, `Tick`). `Enter`
sorts the descriptors into bridged ones and others (`:271-278`): with none of the first, `Kernel` is the real
`poll`; with none of the second, `Look` asks one buffer at a time, so that a message can come
behind the loop's back, and `Time` is the condition at its end (`:296-298`); a mixture is an error at
once. `data` and `room` say which descriptors can be read from, and written to without waiting (`Drained`, `FilledUp`); the real
`poll` and `select` report both, or fail (a signal), and `Look` takes what the code does of a buffer (`Given`): it asks `hasData` for
the first, and says of each one that it can be written to. `Clear` and `Return` are the rest, for `select` with the way back through
`forward_to_poll`. `select_to_poll` and `poll_to_select` are translated
with their treatment of descriptor 0, whose entry the next descriptor overwrites. Time is counted
in ticks that may come at any point: the code compares real time, so that each comparison may go both ways.
`revents` holds whatever the last call left there (`stale`). `early`, the data that was there when the
call began, is a history variable. The local variables are reset in `Return`, which keeps the
state space small.

## 3. Runs

| Run | Question | Result |
|---|---|---|
| `buffer_safety` | With torn reads, wrapping frames, inline and ordinary writes, a refused message and polls in between: is every message received whole, once, in order, without overrun, overwriting, a full send queue or an overrun completion queue? | holds |
| `buffer_liveness` | Does every `send` return and every message arrive, and is the direction a bounded queue? | holds |
| `buffer_phantom` | Is a validity word a guarantee, as Writeup.md:60 says, if the data holds those bytes? | violated |
| `completion` | Is each completion handed out once and in order, is no wake-up lost if no thread has thrown, and does a waiting thread return in the end with something of its kind that has completed? | holds |
| `completion_error` | Does the claim of the comment at `CompletionQueuePair.cpp:171` survive a completion with an error? | violated |
| `setup` (on `MCPingPong`) | Can a side write as soon as its constructor has returned and as long as the other is there, is the stream empty then, is what has been acquired given back in an order that the library accepts, does every constructor come to an end wherever the other one fails, do the programs never wait for each other's room, and does the client get its answers? | holds |
| `setup_fallback` | Can the applications "always fall back to the TCP connection, if anything goes wrong" (Writeup.md:29)? | violated |
| `overrides` | Do reads and writes of parents and children reach the connection they are made on, in the way its far side expects, on numbers for which no buffer or mark of an earlier connection is left? | holds |
| `overrides_stale` | And on all numbers? | violated |
| `forking` | Is every client served unless the server has gone or `fork()` failed, are all children reaped, does the server keep one descriptor at most? | holds |
| `poll` | Does `poll` count no input that is not there, is nothing overlooked that was there, does a call without a timeout wait, and does it return once there is a message? | holds |
| `poll_shown` | Does the array show the events that `poll` counts? | violated |

### The properties worth a word

* `InOrderExactlyOnce`, `AcceptedIsComplete`: the receiver believes bytes it found in
  memory; it must believe only whole frames.
* `FreeIsZero` is the first assumption of Writeup.md. Zeroing comes before the new
  `readPos`; a frame's cells are zero when the sender may fill them again.
* `NoOverrun` also says that `safeToWrite`, computed in `size_t`, does not wrap
  below zero. Its mutant, which counts the room from the start of the frame, also breaks
  `AcceptedStable` and `InFlightStable`.
* `InFlightStable`: send-buffer bytes of a posted write do not change before
  they are read, although nobody waits for the write. The reason is that a byte
  of the send buffer is used again one ring later, and by then the receiver has
  given back what the write delivered.
* `SendQueueNeverFull`: slots come back only with a read. With frames of at least
  `2 * WordLen` bytes, at most `Size / (2 * WordLen)` frames go out between two reads; one
  of them wraps and takes two slots; the read takes one. The queue needs
  `Size / (2 * WordLen) + 2` slots: with that number the run passes, and one slot
  fewer is violated with six messages. In the program that is
  131072 / 16 + 2 = 8194, and the queue pair has 16351.
* `HasDataNonBlocking`: a yes of `hasData` still holds when `receive` scans again.
* `NoLostWakeupUnlessThrown`: a queue that is not empty is armed only if an event
  is under way, or a thread is about to empty it.
* `WaiterServed`: a thread that waits returns. That a completion has left the queue is not enough: what the thread itself has taken from there, or
  put into the cache, is still there for it (`ThereFor`). Its mutant puts the result into the cache too, which is searched only before the loop.
* `CqNeverOverruns`: a read is the only signaled request, and `send()` takes its completion before it posts the next;
  a completion queue of one entry is enough. In the program it has 100.
* `EachOnce`: with polls that throw and waits that throw, each completion is accounted for exactly once.
* `WritesLand`: a write at any time after the constructor finds the far queue pair able to receive and the far memory registered, although
  no side is told so: the keys come after `connect` and registration on the side that sends them. Its mutant
  connects last.
* `OneUnderWay`: the programs' own discipline keeps both from filling rings against each other, the deadlock that the
  buffer itself cannot exclude; and it keeps two counters together that are never compared.
* `EchoCompletes`: the client gets all answers, but for the last one: the server may destroy its buffer before the card has sent
  that. A crash of the other side is excluded, since nobody notices one.
* `Served`: a client that a process serves gets to its end whatever happens to the server and the others; before that, it may be
  forgotten only if the server has gone or `fork()` has failed. `Reaped`: the loop in the handler is why one signal for several
  children, or a child that ends during the handler, leaves no zombie.
* `Settles`: both sides write before they read. A side whose partner has thrown goes on only because
  the partner's process ends and its socket with it.
* `UnwindsInOrder`: wherever a constructor is, the destructors that an exception would run never free a thing
  that is in use. The library would refuse, the destructor would throw, and the process would end instead of
  falling back. Its mutant frees the protection domain first in `~Network`.
* `NothingHeldAfterFailure`: from the queue pair on nothing is left behind. Before that, a `Network` or a
  `CompletionQueuePair` that is not complete does leave what it has acquired; the property says so in its
  precondition.
* `RightConnection`: `to` is where a call went, and `via` how. It is about numbers that are not stale, and those are not only the ones given out
  once: a server whose children open the buffers gets the same number again and again. With its mutant `send` and `recv` know no
  flags at all, and a call with MSG_NOSIGNAL goes over the socket while the far side waits at its buffer. `ReachesItsConnection`
  is the same for all numbers, and false (finding 4).
* `NoFalseInput`, `NothingMissed`: stated when the answer is fixed, with messages having come at any
  point of the round: an answer of some inputs is still true, and an answer of none was true at the start. The POLLOUT that
  `poll` reports for a buffer is not among the promises: there need not be room, and `send` spins until there is.
* `NeverGivesUp`, `PollReturns`: a timeout of -1 waits, and not longer than until there is a message; the real `poll` may fail.
* `EntriesAsAsked`: `select_to_poll` is right for all sets without descriptor 0.

### Findings

1. **A frame inside a message** (`buffer_phantom`). The receiver finds the end of a frame by its
   content. If the data holds the bytes of the validity word at an offset that a zero or torn
   length points to, the receiver takes a part for the whole, clears the
   wrong cells and moves `readPos` into the middle of the message. Writeup.md:60:
   "When we read a validity we are guaranteed by 2. that all bytes of the message already
   have been written to the buffer." `buffer_safety` excludes such payloads, and
   says what holds without them.
2. **An error leaves completions behind** (`completion_error`).
   `waitForCompletion` throws at `:221` out of the loop whose comment (`:171`)
   explains why the queue must be emptied. The queue is armed, no event
   is under way, and a later call blocks although completions are there.
3. **No way back to the socket** (`setup_fallback`). Writeup.md:29-30 promises that one can always fall back to the
   TCP connection. A constructor that throws has already written its address, and perhaps its keys; the
   far application reads them as data.
4. **A closed connection's buffer** (`overrides_stale`). `close` keeps the entry in `bridge` (`overrides.cpp:170`;
   `dontCloseRDMA` is true from the start). The next connection gets the same number, and its writes
   go to the closed connection's buffer. A server that accepts one client after the other does this.
5. **Events counted and not shown** (`poll_shown`). `poll` clears all `revents` at its end (`overrides.cpp:306`). The
   comment before it says that this "is necessary for repeated calls with the same poll structures (the kernel
   probably does this internally first too)"; the code does it last. A caller is told how many events there are, but
   not where, and `select` on top of it answers 0.

Met while modelling, without a text of the repository that says otherwise, and so no run: the timeout of `poll` is
compared the wrong way round (`:297`, it goes round while *more* time than the timeout has passed); it reports POLLOUT for buffers
without looking for room (`:292`); `accept` returns
0 for a connection that is not to be intercepted (`:111`); with an entry made before the constructor runs (`:148`), the first
`write` goes through a null pointer; `waitForCompletion` can return a cached completion before an
older one of the other queue. SIGCHLD without SA_RESTART ends `forkingPingPong`'s server if it comes in `accept()`, and the
line that would go on (`:76`) is commented out and compares a descriptor with EINTR; a client that
ends early costs `forkingPingPong` one child, and `tcpPingPong` its server; `fork() == -1` is taken for the parent; the
server's last answer may be discarded when its buffer is destroyed; `reset()`, which "restores to original state after
construction" (`WorkRequest.hpp:60`), sets the opcode of a read to zero, which is a write; `build()` moves the request out of its
builder, whose destructor then dereferences an empty pointer (`WorkRequest.cpp:40`). Nothing in the repository calls the last two.

## 4. Bounds, and why they are enough

* **Ring.** `Size = 8` and `WordLen = 2`: a frame takes 4 to 8 bytes, so that frames
  start at several offsets, end exactly at the end, wrap inside the
  length word, the data and the validity word, and fill the whole ring. Words of two
  bytes are the smallest that can be torn.
* **Bytes.** Base 3, so that a length can have two bytes that are not zero: length 4 is
  torn into 1 or 3. Lengths 0, 1 and 4 cover the empty message (its frame is the
  smallest), a short one and one that fills the ring. The receive buffer size makes
  `TooBig` happen.
* **`MaxMsgs`**: 4 in `buffer_safety`, enough for more than one turn of the ring, so that every cell is
  reused; 3 in `buffer_liveness`.
* **`MaxSendWr = 4`** is the smallest that `EnoughSlots` allows for this ring (§6).
* **`MaxInline`** lets one kind of slice be inline and another not.
* **`CqSize = 1`**, the smallest completion queue there can be.
* **Completions.** Two threads that wait, one of which polls as well (`Pollers`), and three completions in two queues: enough for
  each thread to be overtaken by the other, for two completions in one queue and for one in the cache
  meanwhile. One of them with an error or of a write, which a poll for reads takes and throws for.
  `completion_error` has four completions and no polls.
* **Set-up.** Two sides, one write each after a failure. `Pieces = FALSE`: the structures of 8 and 24 bytes
  come whole. With `Pieces = TRUE` `WritesLand` does not hold (the hazard at `tcpWrapper.cpp:33`).
* **Programs.** `Messages = 2` and `Sizes = 2`: two messages of `rdmaPingPong`; eight of `rdmaInlineComparison`, of two sizes, inline and
  not, so that a count which forgets one of the two does not come out right. `Capacity = 1`: a second message under
  way would have to wait.
* **TCP programs.** Two clients, so that two children can end before the handler has seen one; three messages, a failing `fork()`.
* **Overrides.** Three processes (a server and two children, of which `MaxAlive = 2` are there at a time), two descriptors, two connections to
  intercept and one not, one generation: enough for a child to inherit a mark, for two children with the same number, and for
  numbers that are given out again, to connections of either kind. Children are interchangeable, and so are the two intercepted
  connections: symmetry, as the run checks invariants only. `overrides_stale` has no forks (`ForkGen = 0`).
* **Poll.** Two bridged descriptors, a socket and descriptor 0; arrays of up to two entries in both orders; sets with a
  descriptor in one, two or the third of them; timeouts -1, 0 and 1 and two ticks, so that a timeout passes and is
  passed by.
* Overflow of the positions at 2^64 bytes is not modelled.

`CHECK_DEADLOCK FALSE` is set for the completion runs (threads may wait for
a completion that never comes), the set-up, the RDMA programs and the clients of `forking` (they come to an end), the overrides (all
descriptors may be taken), and `poll` (nothing has to come).

## 5. Fairness

* `WF` of the sender's steps, of the card's and of the receiver's inside a call:
  threads are scheduled, and a reliable connection delivers.
* `SF` of `Receive(NoCap)`: the application calls `receive()` again and again, whatever
  else it calls in between. Without it nothing can be promised: nobody else makes room.
* `Send`, `HasData` and `receive` with a limit are not fair.
* `WF` of each constructor's `Proceed` in `ConnectionSetup`, and of `Exit` for a process whose constructor has thrown:
  nothing in the repository catches the exception. A call need not fail: `Throw` is not fair, so that no constructor ends only because
  `recv()` has to give up.
* `WF` of the programs' loops and of the card in `PingPong`: both keep running. Nobody has to crash, and a crash is not fair.
* `WF` of the server, of its signal handler, of each child and each client in `TcpServers`: processes are scheduled, connections
  of the backlog are accepted in their order, signals are delivered.
* `WF` of each thread's steps in `CompletionQueuePair`. The completions of the card are
  not fair.
* `WF` of the polling thread's steps inside `poll` in `PollSelect`. Messages and time are not fair.

## 6. What is proved

Each theorem holds for all values of the constants that the named assumptions of its module allow, so for any number of messages,
threads, descriptors or processes. What a theorem takes for granted beside them is in its statement.

**`RDMAMessageBuffer_proofs`** (`SizeAssumption`, `ByteAssumption`, `ParameterAssumption`)

* `TypeCorrect`: `Spec => []TypeOK`. `TypeOK` is not inductive: `done` stays below the
  size only if the requests in the queue have the shape of slices, and the cells that
  `ScanOffset` names exist only if the scan is where `rpc` says. The inductive
  invariant `TypeInv` adds `QueueShape` (slices in the ring, non-empty, an answer
  only for a read at the head), `FrameFits` and `ScanDone`.
* `FlowControl`: `Spec => []NoOverrun`. The sender's side of it needs that every `readPos` it may learn
  is one the receiver had, which means that `currentRemoteReceive`, an answer on its way, and
  `readPos` are ordered. `FlowInv` says so, on top of `TypeInv`. The proof does not use what a frame holds: flow
  control is right even when a phantom frame misleads the receiver.
* `OneCompletionAtATime`: `Spec => []CqNeverOverruns`. Signaled requests in the queue and completions
  not taken are one together, and none unless `send()` waits for it (`AskedOnce`).
* `MaskOfPower`, a lemma about the arithmetic only, is why `Cell` may be a remainder. That `And` computes anything at all is an induction over the
  digits (`AndUnfolded`, `LowExists`: the recursion has a solution), and that
  `And(p, 2^w - 1)` is `p % 2^w` is one over `w` (`MaskRemains`, with `NextDigit`, `Doubled`, `Halves`). Both are inductions over a set of numbers
  (`AllNumbers`), made from the well-foundedness of `<`, because the library's induction takes an operator.

**`MessageDelivery_proofs`** (`WordAssumption` beside those before)

`WordAssumption` is about the representation: the last byte in memory of `0xDEADDEADBEEFBEEF` is not zero, and a
little-endian `size_t` reads back as what was written and is no larger while its last bytes are missing. The theorems are under
`NoPhantom`; without it they are false, as `buffer_phantom` shows.

* `InOrderDelivery`, `AcceptedWhole`, `WritesToZeroedMemory`, `HasDataKeepsItsWord`: `Spec` implies `[]InOrderExactlyOnce`,
  `[]AcceptedIsComplete`, `[]FreeIsZero` and `[]HasDataNonBlocking`. The inductive invariant is `DeliveryInv`, on top of `TypeInv` and `FlowInv`. It has
  witnesses: the position in the stream at which each frame starts (`start`), the byte the stream has at each position (`text`), and the
  position at which each request of the send queue begins (`from`). Its parts say that frames follow each other, with `readPos` the first not
  received (`Layout`), how much of the last one `send` has written (`Sending`), and that the text is that of the frames (`Text`); that the send
  buffer holds the text that is to be delivered, the receive buffer what is to be read, and all other cells up to a ring ahead are zero (`Rings`);
  that the requests are the stream from where the card is to where `send` has posted it (`Queue`, `PostedTo`); and that a byte which a
  scan has read is zero, not being delivered then, or the text's (`Scan`, `Ready`). A scan that finds
  the validity word while the frame is not complete would have found it at the place to which a torn length points, inside the frame: `NoPhantom` excludes it, and the
  last byte of the word, which is not zero, shows that a frame found at the right place is complete (`UnfinishedAhead`, `AcceptedFinished`).
* `AcceptedUntouched`, `InFlightUntouched`: the action properties `AcceptedStable` and `InFlightStable`, from the same invariant: what is not
  delivered yet lies behind all that the receiver has accepted, and less than a ring behind `readPos`.
* `AlwaysASlot`: `Spec => []SendQueueNeverFull`, if also `EnoughSlots`: `Size < 2 * WordLen * (MaxSendWr - 1)`. A frame takes at least
  two words, and a request holds its slot until `send()` has the completion of a later read, so that the slots taken are those of the frames behind the
  `readPos` that read has brought; these fit into a ring, and one of them at most is cut in two (`Fits`, `Crossed`, `Slots`). In the program 131072 < 16 * 16350. The runs have `MaxSendWr = 4`, the smallest that the condition allows, and with 3 the property is violated.
* `RefinesFifo`: every step of `RDMAMessageBuffer` is a step of `MessageFifo` or leaves its queue alone, under both conditions: the footer's
  `WritePart` puts a message, for which there is room, `Advance` gets the oldest one, and nothing else changes either history.
* `NothingStuck`: the states of `SendReturns` and `EveryMessageArrives`, under both conditions. A `send()` that polls has its answer in the completion queue or a signaled request that brings it
  (`AnswerComes`, from `Slots` and `AskedOnce`). One that has no room even by the true `readPos` waits for a message sent before its own
  (`WaitsForReceiver`: behind all of those its frame fits). A message that has been sent and not received is in the ring, or the send queue still has a write
  (`OnItsWay`: a queue of reads alone would mean that the card is where `send` has posted to, `NoWriteLeft`). And once it is in the ring, every byte of it is where the next scan looks
  (`FoundAtOnce`). What is left to `buffer_liveness` is that the threads and the card take the steps that there are.

The only liveness `MessageFifo` has, that a message put is got, is left to `buffer_liveness`.

**`CompletionQueuePair_proofs`** (`CompletionAssumption`)

* `TypeCorrect`: types, and mutual exclusion: the owner of the mutex is the thread that is between `NotCached` and `Leave`.
* `NoWakeupLost`: `Spec => []NoLostWakeupUnlessThrown`. Added to it (`Mutex`, `Disarmed`): a queue that holds a completion which no event announces is
  one that the thread inside the mutex has just been woken for; an armed queue with something in it is being emptied.
* `OutInOrder`: `Spec => []InOrderPerQueue`. A completion that is handed out must be older than all that can
  still be; so, for each queue, what is handed out comes before what a thread holds, before the cache, before the queue, and each of
  them is in order (`Ages`, `Sorted`, `Staged`, `Holder`, on top of the invariant before). The hard case is a thread that takes from the cache while another one is in the middle
  of filling it: the mutex excludes it.
* `OnceEach`: `Spec => []EachOnce`. The places a completion can be in are disjoint, their ages are those that have
  happened, and the lengths add up (`Accounted`, `Apart`, `Finite`, `Counted`, `Old`).
* `NobodySleepsInVain`: the states of `WaiterServed`. While a thread is blocked on an empty channel, which it is with the mutex taken, both queues are armed, so that the
  next completion wakes it, even after an exception; nothing it asked for is in the cache, which nobody else can fill meanwhile; and, before the first exception,
  both queues are empty. From the invariants before: `Mutex` excludes that another thread is to arm, `Disarmed` gives the arming, `Holder` the cache.
  A thread that waits for the mutex instead may have its completion in the cache (the hazard at `CompletionQueuePair.cpp:190`); no theorem excludes that, because the code does it.

**`ConnectionSetup_proofs`** (`SidesAssumption`)

* `SetupTypeCorrect`: `Spec => []TypeOK`, also when structures come in pieces.
* `WritesLandAlways`, `NothingLeftOver`, under `Whole`, that is, `Pieces = FALSE`: `tcp_read` takes less than a structure for a whole
  one, and with pieces both are false. The inductive invariant `SetupInv`
  adds `Acquired` (how many steps a constructor has made, and which regions are registered, follows from its `pc`) and `Talk`: as long as
  neither side has given up, a side's stream is what the other has told and it has not heard yet (`InStream`), and it
  knows the rest (`Knows`). A ready side has heard the keys; the other one tells them last, so that it has been connected and its
  memory registered before. `Talk` ends when a side gives up, because a failing side may write anything into the socket; `WritesLand` and `NoLeftovers`
  ask for nothing then.
* `UnwindsInOrderAlways`, `NothingHeldAlways`: `Spec` implies `[]UnwindsInOrder` and `[]NothingHeldAfterFailure`, also with pieces. What a side in play holds is what its
  steps have acquired (`HoldsMade`). What the destructors free after `n` steps is a sequence put together object by object
  (`Unwound`, the recursion of `Unwind`). `Frees(H, f, G)` says that `f` can be freed in order while `H` is held, and leaves `G`; two such sequences can
  be put one behind the other (`FreesBoth`), so that `UnwindFrees` goes from the last region to the first object, for every `n` at once.
* `NoCircularWait`: `Spec => []WaitsForWork`, the states of `Settles`, also with pieces and whoever fails or ends. A side for which `recv()` blocks
  waits for one that is at work or will be ended by an exception nobody catches, never for one that waits as well. The inductive invariant
  (`AmountInv`) counts units instead of naming them, because with pieces nobody knows which ones they are: what is in a stream is as much as the one has told and the other has not heard
  (`Told`, `Heard`). Two sides that both read have both told what the other one reads, so one stream is not empty.

**`PingPong_proofs`** (`ProgramAssumption`)

* `OneUnderWayAlways`: `AppSpec => []OneUnderWay`. There is one token: the message under way, or the turn of the side that
  is about to send; it can get lost, but nothing makes a second one (`OneToken`). Where it is tells whether the server is an answer
  ahead (`Counts`).
* `ProgramsRespectSetup`: `AppSpec => Spec`: each step of the programs is a step of the setup or leaves it alone. Hence
  `NoMessageLost`: `Whole => (AppSpec => []WritesLand)`.
* `ProgramsTypeCorrect`: `AppSpec => []AppTypeOK`. That no count leaves its range needs more than types: a client
  that waits for an answer has a round left, and an answer or a message that is under way is one
  of the rounds counted on neither side yet (`Rounds`, `Awaited`).
* `EveryAnswerIsEcho`: `AppSpec => []AnswerIsEcho`: what comes in the client's ring is the message of its current round, so that the exception for another answer is never thrown,
  although the answer comes out of a variable of the server's loop and no message says which one it answers. Everything under way, in either direction, and the server's variable from its `receive` to its `send`
  are that message (`EchoInv`); the client leaves the round only by taking the one token there is, so that nothing older can be left.
* `NeverStuck`: `Whole => (AppSpec => []GoesOn)`, the states of `EchoCompletes`: while both sides are there, a message flies, or one of the four steps of the programs can be taken, or the client is through.
  `OneToken` says that there is one token at most; `TokenLeft` that there is one as long as nobody has ended. The token's place then names the step, and since
  it is the only message, there is room for it, however small the rings are.

**`TcpServers_proofs`** (`TcpAssumption`)

* `ServersTypeCorrect`: `FairSpec => []TypeOK` (fairness is not used). The inductive invariant adds: a connection is in the backlog once at most,
  and only as long as nobody serves it (`Waiting`); the one in the server's hand is served by nobody before `fork()` (`InHand`); what a server or child has answered is what the client
  has, plus the answers on their way to it, and no more than `Messages` (`Rounds`); the server has no connection open but the one in its hand (`OneOpen`), so that descriptors do not run out, however many clients come.
* `NobodyForgotten`: `FairSpec => [](NoneCutOff /\ WaitsForAnother /\ Announced)`, the states of `Served` and `Reaped`. No client that a process serves sees its connection break; whoever is in `recv()`
  has something to read or waits for a process that is about to write, to read or to be started; and of a child that has ended the server is told, or is being told in the handler's loop. Added to the
  invariant: a client that goes on has one message, between its `write()` and its `read()` (`Exchange`); the process that serves it holds the connection and ends
  before the last answer only if the client did (`Faithful`); a client that nobody serves is in the backlog, in the server's hand or dropped by a failed `fork()` (`Accounted`); one that
  gives up has not been served and will not be (`GivenUp`).

**`SocketOverrides_proofs`** (`DescriptorAssumption`)

* `TypeCorrect`, `RightConnectionAlways`: `Spec` implies `[]TypeOK` and `[]RightConnection`, with numbers given out again as the kernel does, and
  in either order of evaluation. The inductive invariant adds
  to `TypeOK`: `Remembered` (unless a number is stale, what it has been used for tells what the library has of it: nothing, the mark of
  the connection it is open on, or that connection's buffer or a constructor at work on it),
  `NothingElse` (0 has no entry, and an entry lacks its buffer only while a constructor works on it), `Held` (a descriptor the application holds is
  open on what it is held for), `InSetup` (a constructor works in a process that is there) and `Counted` (generations are the depth of forks).

**`PollSelect_proofs`** (`PollAssumption`)

* `TypeCorrect`, `NoFalseInputAlways`, `NothingMissedAlways`, `NeverGivesUpAlways`. The inductive invariant says of a round
  that is under way what the properties say of its end: what has been counted is there (`CountIsTrue`), and none of the entries
  passed so far was there when the call began, if nothing has been counted (`NoneIsTrue`); messages only come while
  a call is under way (`EarlyStays`). `CountIsTrue` is about numbers of entries, so that each look compares the sizes of the two sets before and after it
  (`OneFurther`, `LookedAt`).
* `EntriesAsAskedAlways`: `Spec => []EntriesAsAsked`, for all sets. `select_to_poll` is a recursion over the descriptors. That it has a
  solution (`RoundsExist`, `Unfolded`) and what it computes (`OneRound`, `Translation`) are inductions, made
  without the induction theorems of the library, whose parameter is an operator: `Induction` is the least-number principle for a set of numbers, and comes from the
  well-foundedness of `<` on the naturals. After `n` rounds there is an entry, in order, for every descriptor but 0 below `n` that is in one of the sets (`Entered`); what
  descriptor 0 leaves behind goes into the next entry, which is why the flags are promised only for sets without it. From this also follows that the loops of `poll` stay inside the array that `select` gives them.

**Only model-checked.** Liveness and the fair part of the refinement, which are out of the prover's
reach: `SendReturns`, `EveryMessageArrives`, `ImplementsFifo`, `WaiterServed`, `Settles`, `EchoCompletes`, `Served`, `Reaped`, `PollReturns`. Of what they say
about states there are theorems: `NothingStuck`, `NobodySleepsInVain`, `NoCircularWait`, `NeverStuck` and `NobodyForgotten`, and for `poll` `NothingMissedAlways` and `NeverGivesUpAlways`:
nobody waits for something that nobody will do. What stays with TLC is that fair steps add up to an end.
All other properties of the passing runs are proved.

## 7. Not modelled

* Destructors that throw, and the orderly destruction of a buffer: `dontCloseRDMA` keeps the overrides from it, and the programs end with it.
* `getsockopt`, `setsockopt`, `fcntl`: they answer success for bridged descriptors and keep no state.
* What the code builds and nothing posts: atomic requests, chains of requests (`setNextWorkRequest`), requests with several local slices,
  `build()`.
* `realFunctions`: one `dlsym` per function, no state of its own. `printCapabilities` only prints.
* `minimal.cpp`: a straight line of calls, each of which is modelled with the component it is of.
* A `send()` of the exchange that takes only a part of a structure (`tcpWrapper.cpp:26`).
* The kernel's error flags in `poll`, NULL sets in `select`; a non-blocking `connect()` that fails, a `fork()` in the overrides that does.
* A lost peer as the card sees it: `timeout 0`, `retry_cnt 0` (`QueuePair.cpp:140`) mean that an outstanding request
  never completes. The card of the model makes progress in the fair runs; in `PingPong` a side may crash, and the other one then
  waits for ever, which `EchoCompletes` leaves out.
* Overflow of the positions at 2^64 bytes, and rings too small for a word (sizes 1, 2 and 4 pass the constructor's test).

## 8. Plan

The components that keep state are modelled, every safety property that a passing run checks is a theorem, and so is
what the liveness properties say of states. What would come next:

1. Both directions of a connection byte by byte, with the queue pair and the completion queue they share; today `RDMAMessageBuffer` has
   one direction, and `PingPong` has both, message by message.
2. The overrides over buffers that are themselves models, instead of the connection a buffer leads to: `poll` and `read` on one descriptor.
3. A lost peer as an error of the queue pair, if the code ever sets a timeout (`QueuePair.cpp:140`).

The parts listed in §7 stay unmodelled, for the reasons given there.
