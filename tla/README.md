# TLA+ models of rpc_zeke

`rpc_zeke` is a small RPC framework in C++: protobuf services, a muduo TCP
server on the provider's side, ZooKeeper for registration and discovery, a
circuit breaker per method on the caller's side. This directory holds TLA+
models of its core (`src/src/*.cc`), configurations that check them with TLC,
and theorems about them that TLAPS proves.

All source references below are relative to the repository root; the framework
itself is in `src/`.

## 1. The system

### Components

| component | source | state | operations | correct means |
|---|---|---|---|---|
| CircuitBreaker, CircuitBreakerManager | `src/circuitbreaker.cc` | per "service.method": state, consecutive failures, half-open slot, opening time, under one mutex | `AllowRequest`, `OnSuccess`, `OnFailure`; `GetBreaker` makes a breaker once and never removes it | the count and the slot mean what their names say in every state; an open breaker rations requests; a half-open breaker has one probe out; a method is not refused for ever |
| MprpcChannel | `src/mprpcchannel.cc` | per channel: descriptor and address of the kept connection, a mutex; process-wide: breakers and discovery | `CallMethod`: breaker, serialise, lock, provider, connection, send, receive, report | a call reads only its own reply; descriptors are closed exactly once; every call reports to the breaker and ends |
| ServiceDiscovery | `src/servicediscovery.cc` | per method: cached provider list, "watched" flag, under one mutex; one ZooKeeper session | `GetProvider`, `WatchMethod`, `RefreshMethodProviders`, two watchers on the completion thread | the cache follows the registered providers; no change passes unnoticed |
| ZkClient | `src/zookeeperutil.cc` | a ZooKeeper handle, a semaphore | `Start`, `Create`, six reads with and without watches | `Start` returns once the session is there; `Create` is idempotent |
| RpcProvider | `src/rpcprovider.cc` | the service table (read-only after start-up), a muduo server, a ZooKeeper session | `NotifyService`, `Run`, `OnMessage`, `SendRpcResponse` | every request gets its own response, in whatever pieces it arrives; a registered provider can be called |
| Logger, LockQueue | `src/logger.cc`, `src/include/lockqueue.h` | a queue under a mutex with a condition variable, the level shared by all threads | `SetLogLevel`, `Log`, the writer thread | lines in order, each once, with its own level and in the file of its own day |
| MprpcConfig, MprpcApplication | `src/mprpcconfig.cc`, `src/mprpcapplication.cc` | a map of strings, read once at start-up | `LoadConfigFile`, `Trim`, `Load` | the value of a key is the text after its `=`, without blanks |
| MprpcController | `src/mprpccontroller.cc` | a flag and a text, per call | `SetFailed`, `Failed`, `Reset` | - |
| rpcheader, messages of the examples | `src/rpcheader.proto`, `example/*.proto` | generated; the fields of a message | serialise, parse, merge, accessors | a message parses back as it was serialised |
| examples, benchmark | `example/`, `test/` | - | programs that use the framework | - |

`build/`, `out/`, `.vs/`, `bin/` and `lib/` hold build products and vendored
archives.

### How they interact

A caller's thread enters `CallMethod` through a generated stub. It asks the
breaker of the method (shared by all threads and all channels of the process),
serialises, takes the channel's mutex if the channel keeps its connection, asks
ServiceDiscovery for an address, opens or reuses a connection, sends one frame,
reads one frame and tells the breaker the outcome. ServiceDiscovery reads
ZooKeeper from the caller's thread the first time and from the completion
thread of the ZooKeeper client from then on, when a watch fires. A provider
registers an ephemeral sequential znode per method, then serves frames from
muduo's I/O threads; the connection may be closed by the provider after each
response (short) or kept (long). Nothing in a frame names the call it belongs
to: on one connection, order is the only thing that ties a reply to a request.

### What is hard

* **Late reports.** A call may take longer than the five seconds of an open
  breaker (`connect` has no timeout of its own, each `recv` three seconds), so
  its report meets the breaker in another state than the one that admitted it.
* **Lost reports.** A half-open breaker waits for one probe; whatever loses its
  report makes the method unusable.
* **Replies without a name.** A reply that arrives after its call has timed out
  must not be read by the next call of the connection.
* **Descriptors.** Six error paths close a socket, or forget the kept one; the
  number is reused at once by another thread.
* **One-shot watches.** Changes between a watch that fired and the read that
  sets it again, between listing the children and reading each, and between
  two threads that refresh the same list.
* **Failed ZooKeeper calls**, which set no watch, and znodes that do not exist
  yet, on which none can be set.
* **Byte streams.** A frame arrives in any number of pieces, cut anywhere.
* **Start-up order.** The connection event of ZooKeeper against the semaphore it
  posts; two providers that create the same znode; a znode that is visible
  before its server listens.

`PROJECT.json` lists these under `hazards`, each at its line, with the
properties aimed at it.

## 2. Modules

In the order in which they were written, the most important behaviour first.

| module | models | uses |
|---|---|---|
| `CircuitBreaker` | the breaker's operations | - |
| `BreakerCallers` | the threads that share a breaker; abstract specification of what `CallMethod` promises to the breaker | `CircuitBreaker` |
| `CircuitBreakerProofs`, `BreakerProofs` | lemmas on the operations, theorems about the callers | |
| `ServiceDiscovery` | discovery, its ZooKeeper reads, the part of ZooKeeper they use | - |
| `DiscoveryProofs` | theorems | |
| `MessageConnection` | abstract: a TCP connection in whole messages, one call at a time | - |
| `MprpcChannel` | the whole of `CallMethod` over connections and providers | `CircuitBreaker`; refines `BreakerCallers` and, per descriptor, `MessageConnection` |
| `ChannelProofs` | theorems, both refinements | |
| `ProtoWire` | what protoc's generated classes do with fields and texts | - |
| `RpcMessages` | the repository's message types, the example services and calls | `ProtoWire` |
| `RpcCalls` | abstract: what one connection promises, in calls | - |
| `RpcFraming` | one TCP connection unit by unit: `SendAll`, `RecvAll`, muduo's buffer, `OnMessage`, `SendRpcResponse` | refines `RpcCalls` and `MessageConnection`; texts from `RpcMessages` in its MC module |
| `FramingProofs` | theorems, both refinements | |
| `ConfigText` | the configuration file, and the address made of it | - |
| `ProviderStartup` | `ZkClient::Start`, `Create`, `global_watcher`, `RpcProvider::Run` in several processes | addresses from `ConfigText` in its MC module |
| `ProviderProofs` | theorems | |
| `AsyncLog` | abstract: what an asynchronous log promises | - |
| `LoggerQueue` | the log macros, `LockQueue`, the writer thread | refines `AsyncLog` |
| `LoggerProofs` | theorems, the refinement | |

`ServiceDiscovery` and `MprpcChannel` are not composed: all the channel sees of
discovery is an address or none, and `MprpcChannel` allows any. `MprpcChannel`
and `RpcFraming` meet in `MessageConnection`: the first has many connections and
moves whole messages on them, the second has one and moves units; both are
shown to be that connection, so what the channel takes for one step of a
connection is what the frames and buffers make of it. `ProviderStartup` and `ServiceDiscovery` meet in ZooKeeper: the instances that one makes and loses
are what the other's `Register` and `Expire` do to its provider znodes.

## 3. The modules

A module's variables have the names of the members they model (`m_state`,
`m_clientfd`, ...). Definitions under the headings "Slips" are not used by any
specification: each is a plausible mistake in the operation whose name it
resembles, kept to check that the properties notice it.

### CircuitBreaker

The four variables are the members of the class, except the clock: `openAge` is
the number of ticks since `m_open_timestamp`. The code asks for the elapsed
time in one place and only while OPEN, so the age stops at `OpenTimeout` and no
bound is needed. Every operation runs under `m_mutex` from its first line to
its last, so each is one step: `AllowRequest` is `Admit` (CLOSED), `AdmitProbe`
(the timeout has passed, or HALF_OPEN with a free slot) or, when `MayPass` is
false, a refusal that changes nothing; `OnSuccess` and `OnFailure` are the
actions of these names. `BreakerInv` says what the counters mean in each state.

### BreakerCallers

The threads that share one breaker, reduced to what the breaker sees of
`CallMethod`: `Enter`, `EnterAsProbe` or `Rejected`, then `Succeed`, `Fail`, or
`SerializeFails`, which is the early return of lines 113-114 and 131-132 and
reports nothing. It is a component of its own and the abstract specification of
`MprpcChannel`. `healthy` belongs to the environment: after `Recover` no call
fails, which is what "recovers for good" is measured from.

### ServiceDiscovery

One service.method, one ZooKeeper session, any number of threads in
`GetProvider` and the completion thread `Zk`. Each synchronous ZooKeeper call
is one step, because it is answered by the server at one point; each critical
section under `m_mutex` is one step. So `GetProvider` is `LookUp`,
`WatchMethod`, a refresh (`GetChildren`, one `GetData` per child in the order of
the names, `Install`) and `LookAgain`. A watch event is a member of a FIFO;
`MethodChildrenWatcher` and `ProviderDataWatcher` take the head and refresh. Of
a path only the method matters, so an event is its kind. `GetProvider` picks a
provider at random: the model keeps whether it finds one.

ZooKeeper is external and modelled from its use here: watches are one-shot, a
read that fails sets none, events arrive in the order of the changes. Provider
znodes are numbered by their sequence number and never come back.
`overtaken` is a history variable: the completion thread has installed a list
while a caller still reads an older one. That race is in the code (see
`DiscoveryStale`); the variable says which states it explains, and the other
properties show that nothing else goes wrong.

The client's own session may end, once (`EndSession`): ZooKeeper drops its
watches and every later call fails. Both watchers are called with a session
event and look for other types, so the code does nothing; the process never
gets another session. What it had cached stays. The properties therefore speak
of a session that lives.

### MprpcChannel

`CallMethod` from its first line to its last, for any number of threads,
channels and providers. `pc[c]` is the place in the function: `idle`,
`serialize`, `provider`, `socket`, `connect`, `send`, `size`, `body`, `done`.
Every early return is an action of its own (`SerializeFails`, `NoProvider`,
`SocketFails`, `ConnectFails`, `SendFails`, `RecvFails`, `ParseFails`). The
steps are cut at the system calls; what comes between two of them touches only
the locals of the thread or members the lock protects. One step closes the
connection, reports to the breaker and returns: nothing another thread does can
come between in a way that either of them notices, since the descriptor is the
thread's own until `close`, and the breaker is touched once.

* `conn` is the descriptor table of the process. `Socket` takes the lowest free
  number, `CloseConnection` frees it at once, so that a stale number is a live
  one of somebody else, as in the process.
* A request is one message tagged with the call it belongs to, a reply its two
  parts. The tag is the thread and the parity of its calls (`turn`): enough to
  tell a call's reply from one of the call before, which is the only older one
  a connection could still carry. The program does not send the tag; it is what
  `OwnReply` compares.
* A queue holds what is on its way as well: any receive may time out. A
  response larger than `INT_MAX` (lines 350-356) fails like a receive in `body`.
* `Answer`, `KeepSilent`, `Refuse`, `Crash`, `Restart` are the provider's side.
  `KeepSilent` covers the unknown service or method and the request that does
  not parse: `OnMessage` returns without an answer and without closing.
* `Destroy` is the destructor; a channel is destroyed when no call is in it.
* `GetProvider` is any address or none; `ServiceDiscovery` says which.

`CallSeen` maps a state to what the breaker sees, and
`B == INSTANCE BreakerCallers WITH call <- CallSeen` gives `ReportsOnce`.
`OnFd(f)` is what happens on descriptor `f`, as a `MessageConnection`: the call
that talks on it is the one with `f` in `send`, `size` or `body`.
`KeepsMessages` says that every descriptor implements it, through every reuse of
the number for another connection and another thread.

### ProtoWire and RpcMessages

The generated code of all eleven message classes is one algorithm over the list of
their fields. `ProtoWire` states it once, over a type: `Clear`, the accessors,
`Serialize` (default values are left out), `Parse` (fields in any order, unknown
ones skipped, the last value of a field counts, repeated ones grow) and `Merge`.
A text is a sequence of units, a tag with its value or its length being one
unit: texts are cut between units. `RpcMessages` gives the types, the services
of `example/callee`, `NotifyService`'s table, the calls of `example/caller`, and
what `CallMethod`, `OnMessage` and `SendRpcResponse` read and write. Both use
`RECURSIVE` operators and are reached by no module with a theorem:
`RpcFraming` takes the texts as constants, under the assumption
`CodecAssumption` that each side reads back what the other has written, which
TLC evaluates for the real types.

### RpcFraming and RpcCalls

One connection. The caller's end is `Begin` (the frame is built), `SendAll` and
`RecvAll`, of which each round moves any number of units, `RecvSize` and
`RecvBody` (what follows a complete `RecvAll`), `TimeOut` and `RecvEnd`; every
failure is `Fail`, which closes the connection. The provider's end is `Arrive`:
muduo appends what came to its buffer and calls `OnMessage`, once. `OnMessage`
refuses, waits for more, drops the frame in silence or serves it, in the order
of its returns; it takes one frame at most. `SendRpcResponse` shuts a short
connection down after the response. Both long-connection options vary
independently. `log` and `served` are the variables of `RpcCalls`, in which a
call is executed at most once, and one that succeeded returns the service's
answer to its own request.

`InMessages` maps the stream to a `MessageConnection`: from the end of `SendAll`
until `OnMessage` takes the frame, whatever is in the provider's buffer or under
way is one request; from `SendRpcResponse` until the caller has its body, what is
under way or already received is one reply. `NoMutualWait` is the safety half of
`CallEnds`: it says that there is always something that can end the wait.

### ConfigText and ProviderStartup

`ConfigText` is `LoadConfigFile` as a function of a text: `fgets` pieces, `Trim`,
comments, the first `=`, the first setting of a key counts; and `ServerAddress`,
the `ip:port` that `Run` makes of two options, with the wrap of a `uint16_t`.

`ProviderStartup` is a set of processes. `Start` is `zookeeper_init`, which may
also return no handle and end the process (`InitFails`); the I/O thread may
report the connection (`Connect`) before `SetContext`, in which case nobody is
told. `Wake` is the return of `sem_wait`. `Exists` and `ZooCreate` are one call
each, and what the code does between two calls belongs to the first of them
(`Proceed`, `NextMethod`: the two nested loops of `Run`, whose maps have no
order). Any error of `zoo_create` ends the process; any error of `zoo_exists`
but `ZNONODE` passes for "it exists". Processes crash and start again,
connections are lost with or without the answer to a create, sessions end.
`NoLostPost` is the safety half of `EventuallyServes`: who sleeps on the
semaphore has a session that was never there, or is the case of `missed`.

### LoggerQueue and AsyncLog

`SetLogLevel` and `Log` are the two calls of a log macro; another thread may
come between them, and the level is one plain variable for all, INFO before
anybody sets it, since the Logger is a local static. A line is its number in
the order of the `SetLogLevel`s, and `begun` remembers the level each was
given. A `Push` is one step under the mutex, `Pop` one step to the return or to
the wait; a wait may end without a notify. The writer takes the day and opens
its file (`TakeTime`) before it waits for a line, as the code does. `file` says
for each line written what day and label it got, and when.
`WrittenLines \o msg \o m_queue` is `accepted` of `AsyncLog`.

## 4. Runs

All runs use model values for threads, processes, hosts and addresses. Deadlock
is checked in the runs of the breaker, discovery and the channel. It is not in
`Framing`, `ProviderStartup`, `ProviderCreateRace` and `Logger`, in which the
system really stops: a connection has been closed or used up its calls, the
processes are through their starts, the process of the logger has ended.

| run | instance | shows |
|---|---|---|
| `Breaker` | 4 callers, of which two may fail to serialise, threshold 3, 2 ticks; 6158 states | `Inv`, `ProbeInFlight`, `OneAdmissionPerTimeout`, `RecoversForGood`, `RejectionEnds` |
| `DiscoverySafety` | 2 callers, 2 znodes, 2 hosts, 1 edit, no failed call, the session may end; 854550 states | `NeverDeaf`, `OneInitialRefresh`, `CacheCurrent`, `LiveIsDiscovered` |
| `DiscoveryFaults` | 1 caller, 2 failed ZooKeeper calls, the method may be missing, the session may end; 191735 states | `WrongEntryIsNoticed`, `GoneIsEvicted` |
| `ChannelLong` | 2 threads on one channel, long connections, 2 providers, 2 descriptors; 256320 states | `TypeOK`, `OwnReply`, `NoLeak`, `NoSharing`, `CleanWhenIdle`, `ReportsOnce`, `KeepsMessages`, `WaitsEnd` (`LockIsReleased` and `HalfOpenEnds`) |
| `ChannelShort` | 2 threads, short connections, one descriptor, one thread may fail to serialise; 49152 states | `EveryCallEnds`, on the paths of a process without descriptors too; what is safe about short connections is proved for every instance |
| `Framing` | seven different calls, three on a connection, in all four configurations; 13586 states | `TypeOK`, `CleanBetweenCalls`, `NoStuckFrame`, `FailsForAReason`, `NoMutualWait`, `KeepsPromises`, `KeepsMessages`, `CallEnds` |
| `ProviderStartup` | 2 processes with a common service and a service of one alone, 3 starts, 1 lost connection or failed `zookeeper_init`; 472897 states | `TypeOK`, `RegisteredOnce`, `NotAllExit`, `AddressIsConfigured`, `NoLostPost`, `EventuallyServes` |
| `Logger` | 2 threads, 3 lines, 3 days; 55671 states | `TypeOK`, `SleepsOnlyIfEmpty`, `StampAfterLastWrite`, `LabelIsOwnOrLater`, `WritesInOrder`, `EveryLineIsWritten` |

### What the code does otherwise than it says

| run | property | the behaviour |
|---|---|---|
| `BreakerTwoProbes` | `AtMostOneProbe` | a call let through while CLOSED fails late, while a probe is out: `OnFailure` reopens the breaker, `Open` frees the slot, and the next timeout admits a second probe |
| `DiscoveryStale` | `CacheIsLatest` | a provider registers during a caller's first refresh; the completion thread installs the newer list first, the caller then the older one, and no event is left to correct it |
| `DiscoveryMissingMethod` | `NeverDeaf` | the method's znode does not exist at the first call: no watch is set, the method is marked watched, nobody tries again |
| `ProviderCreateRace` | `ExitsOnlyOnFault` | two providers find the znode of their service missing and both create it; the second gets an error and its process exits |

More behaviours of this kind are in the models without a run, since nothing in
the repository says otherwise:

* a late success of an older call closes an OPEN or HALF_OPEN breaker at once;
* a probe whose request does not serialise returns without a report, and the
  breaker refuses the method for ever: the exception that `ProbeInFlight`,
  `RecoversForGood` and `RejectionEnds` name;
* of two first callers of a method, the second sees the flag, looks into the
  still empty cache and fails;
* a ZooKeeper call that fails in `GetChildren` leaves a watched method without
  a watch until a data watch of a provider fires;
* the end of a session is noticed by neither side: a provider serves on without
  being registered, a client keeps what it has cached;
* a process whose connection comes up before the context is set waits until its
  connection is lost and comes up again (`missed`);
* a log line gets the day before it was waited for and the level of another
  line; `StampAfterLastWrite` and `LabelIsOwnOrLater` say how wrong it can be.

### Bounds

* Breaker: three failures are counted as in the code; three callers are one
  more than a probe and one late report, four add one that is rejected. Two
  ticks distinguish "not yet" from "due". The theorems hold for all values.
* Discovery: `MaxNode` 2 gives a provider that stays while another goes, and a
  refresh that reads one child before and one after a change; `MaxEdits` 1 an
  address that changes; `MaxLoss` 2 a refresh whose first call fails and one
  whose second does. Without `MaxEdits` and `MaxLoss` the counters would grow
  without end; they bound nothing else.
* Channel: two threads are what it takes to mix up replies or descriptors; two
  addresses make a channel drop one connection for another; `MaxFd` 2 lets both
  threads have one and be reused, `MaxFd` 1 makes `socket` fail. A queue has at
  most one request or two parts without a bound of the model's own (that is
  `QueueInv`). Breaker thresholds of 1 or 2 take it through all its states.
* Framing: a length is two units, so it can be cut in the middle; `MaxHeader` 5,
  `MaxFrame` 15 and `MaxReply` 3 are passed by one call each (`LongName`,
  `LongNumber`, and the friends list) and met or missed by the others; `MaxText`
  7 lets that list serialise, so that the caller is the one to refuse it.
  `CheckCall(Text("003"))` has a response of size 0, `RegisterCall` goes to a
  service that is not published, `OtherVersion` reads a reply as another type. `MaxCalls` 3 is a call on the
  connection that a call kept, and one after a failure that should have been
  the last.
* ProviderStartup: two processes race for the same znodes, and the third start
  is a restart while the session of the first may still live; `MaxFaults` 1 is
  a lost connection, a lost answer, or a failed `zookeeper_init`. `BufSize` 12
  and `PortSize` 100 are the buffer and the `uint16_t` at the size of the files,
  one of which sets the address in a last line that does not end.
* Logger: two threads come between each other's `SetLogLevel` and `Log`; three
  lines are one being written and two queued behind it; three days make a stamp
  that is more than one day old.

No symmetry is used: most runs check liveness, where it is not sound.

### Fairness

* `BreakerCallers`: the clock runs; a client calls in a loop, as
  `example/caller/callorderservice.cc` does; a call that was let through returns,
  because the kernel bounds `connect` and the socket timeouts bound the rest. No
  fairness between success and failure: recovery is the environment's.
* `ServiceDiscovery`: threads run, and a synchronous ZooKeeper call returns,
  with an error if need be. No provider has to come or go.
* `MprpcChannel`: a thread in `CallMethod` takes its next step if it can. A
  provider has no fairness at all: it may keep silent for ever. A thread that
  waits for the mutex can wait for ever, since `std::mutex` promises no order;
  hence `LockIsReleased` for a shared long channel, and `EveryCallEnds` where
  there is no shared lock. The half-open probe is no exception as a thread, but
  `HalfOpenEnds` holds without any fairness of the mutex: while it waits, no
  other call of its method is let in. Calls of other methods that share the
  channel would need it; they are not in the model.
* `RpcFraming`: what was sent arrives, and both ends go on. There is none on
  `TimeOut`: `CallEnds` says that calls end without it.
* `ProviderStartup`: a process, or the I/O thread of its ZooKeeper client, goes
  on as long as one of them can. Nothing has to fail, to end or to start again.
* `LoggerQueue`: the writer thread runs. No thread has to log.

## 5. Proofs

**Breaker.** `BreakerCorrect`, `AdmissionsAreRationed` and `HalfOpenHasProbe`
hold without a condition. `Inv` is inductive: the slot is taken exactly in
HALF_OPEN, and the count is below the threshold exactly in CLOSED. Each operation
keeps both whatever state it finds (`CircuitBreakerProofs`), which is why late
reports do no harm to them, and why the same lemmas serve `MprpcChannel`. A
probe leaves its call only by a report, which ends HALF_OPEN, or by the early
return of a request that does not serialise. `BreakerTwoProbes` finds two probes;
`PunctualCallsProbeOnce` says when there is one: in every behaviour in which the
timeout of an OPEN breaker ends only after the calls let through before
(`OutlivesCalls`). Then an OPEN breaker that is due has no call in flight, and a
HALF_OPEN one none but its probe.

**Discovery.** `TypeCorrect`, `OneCallerRefreshes` and `WrongEntriesAreNoticed`
hold without a condition, `WatchedIsNeverDeaf` and `CacheIsCurrent` if no
ZooKeeper call fails and the znode exists. `OneInitialRefresh` needs that a
caller who refreshes has set the flag. For `WrongEntryIsNoticed` every entry,
also one still in the local vector of a refresh, is *guarded*: it agrees with its
znode and the data watch of the znode is set. A change of the znode fires that
watch, so the entry is wrong only while an event waits or the completion thread
refreshes (`NoticeInv`). `CacheCurrent` needs to say what a refresh in progress
still owes: `Reads(found, rest)` says that the child watch is set, that what was
found is guarded, and that with the children still to be read it is all there
is. The completion thread reads right or an event waits (`ZkReads`); when it is
at rest and no event waits, the caller's refresh is about to start, or reads
right, or is over and the cache itself reads right (`CallersRead`).

**Channel.** `ChannelProofs` rests on an invariant in three parts.

* `Typed`: types, the breaker's invariant, and a connected call has a
  descriptor.
* `FdInv`: who holds the lock is between `TakeLock` and the return (`LockInv`);
  a channel's cached descriptor is open, goes to the recorded address, and two
  channels never have the same (`CacheInv`); a call's descriptor is in use by it
  alone, or is its channel's cached one while it holds the lock (`HoldInv`);
  `NoLeak`.
* `QueueInv`: what is on a connection belongs to the call that holds it, in the
  order of its place in `CallMethod`: a call in `size` finds its request, or the
  two parts of its reply, or nothing; in `body` one part at most; elsewhere the
  queues are empty. A connection with something left on it is therefore never
  one that a channel keeps when its lock is free.

`RepliesAreOwn`, `DescriptorsAreNotShared`, `DescriptorsDoNotLeak`,
`KeptConnectionsAreClean` follow for every set of threads, channels and
addresses, for long and short connections on either side, in any mixture.
`CallMethodReportsOnce` shows step by step that `MprpcChannel` implements
`BreakerCallers`: admissions map to admissions, each return to one report, all
else to a stutter. `ChannelKeepsMessages` shows that it implements
`MessageConnection` on every descriptor at once. A step of `CallMethod` is a step
of the connection it talks on and a stutter of all others, which is where
`HoldInv` is needed: two calls never talk on one descriptor, so the talker of a
connection is that call and stays it. `QueueInv` turns what a `recv` finds into the
parts of the reply to the call that reads.

**Framing.** For every set of calls, every codec that reads back what it wrote,
all limits and all sizes of a length: the invariant says that the stream of a
call in progress is in one of four states (`StreamInv`). Either nothing is left,
or the request is not yet read, and what is in the provider's buffer, under way
and still to be sent is the frame, in this order; or it was read and nothing
will be answered; or what the caller has received of its reply and what is under
way is the reply. `NoStuckFrame` is a conjunct of its own, kept because an unread
buffer is always a proper prefix of one frame. `ShutInv` says when
the provider may have shut the connection down. `CallsLeaveNothing`,
`FailuresHaveReasons` and the refinement `ConnectionKeepsPromises` follow.
`StreamKeepsMessages` is the refinement of `MessageConnection`; with
`ChannelKeepsMessages` it ties the units of a stream to the messages of a
channel. `NobodyWaitsForNothing` goes through the same four states: a frame that is
complete in the provider's buffer has been seen (`WholeFrameIsSeen`), so an unread
one has something under way; a call whose request was read and is not answered
is one that cannot be, or was sent to a connection that had already been shut
down, and then the caller reads its end.

**Start-up.** The invariant of `ProviderProofs` says whose session is whose
(`SessionInv`: sessions are never shared and never used twice), that a process
goes on only once its session has been there (`NewInv`), that the path at hand
is one still to be done (`AtInv`), and which instances are there (`OwnInv`):
`ProvidersRegisterOnce`. `SomeProviderStays` needs that some process is *safe*:
if it is about to create a znode, then that znode is not there. A process that
creates something is itself safe afterwards, so the last one stays.
`AddressesAreOwn` (a session's instances hold the address of the process that has
the session) needs no more than `SessionInv` and `OwnInv`. It gives
`AddressesAreConfigured` under one hypothesis, that the address made of each
configuration file is the one the file means; the instance checks that of its
files, since it is a matter of what `LoadConfigFile` computes. `PostsAreNotLost`
needs `NoLostPost` also between `zookeeper_init` and `SetContext`, when the
event may come but the process does not wait yet (`PostInv`), and that no two
processes share a session. `ProviderCreateRace` finds a process that ends though
nothing failed; `OnlyCommonServicesRace` says that this takes two providers with a
common service: else each works on paths of its own, and what it found missing
stays missing until it creates it.

**Logger.** `NoLostWakeUp`, `StampsFollowWrites`, `LabelsAreNotOlder` and
`LoggerImplementsAsyncLog`, for any number of threads, lines and days. The labels
need that `m_loglevel` is the level of the line begun last, and that every line in
the queue or in the writer's hands has been begun.

The assumptions are those named in the modules (`BreakerAssumption`,
`CallersAssumption`, `DiscoveryAssumption`, `ChannelAssumption`,
`CodecAssumption`, `ProviderAssumption`, `LoggerAssumption`): sizes are natural
numbers, the threshold and the timeout at least 1, model values distinct, every
provider publishes something, and protobuf reads what it wrote. TLC evaluates
them in every run.

Only model-checked:

* the liveness properties (`RecoversForGood`, `RejectionEnds`,
  `LiveIsDiscovered`, `GoneIsEvicted`, `WaitsEnd`, `EveryCallEnds`,
  `CallEnds`, `EventuallyServes`, `EveryLineIsWritten`), which are out of the
  prover's reach; what they rest on is proved for `CallEnds` (`NoMutualWait`),
  `EventuallyServes` (`NoLostPost`), `EveryLineIsWritten` (`SleepsOnlyIfEmpty`)
  and `LiveIsDiscovered` (`NeverDeaf`, `CacheCurrent`);
* what recursive definitions compute: `RoundTrip`, `MergeIsConcatenation` and
  `CutTextsAreNoticed` about `ProtoWire`, over some messages of four types;
  `SettingIsWhatIsMeant` about `ConfigText`, over all lines of five units, against
  a definition of what a line means that does not search or trim;
  `LongCommentSets` and `PortWraps`;
* that `Address(p) = Configured(p)` for two files, which is the hypothesis of
  `AddressesAreConfigured` and a case of the previous point.

## 6. Not modelled

* `MprpcApplication` reads its options once before anything else runs, and
  `MprpcController` is a flag and a text per call, owned by the caller. Neither
  has a behaviour beyond what its users show.
* The benchmark and the protobuf test are programs around the framework; their
  threads, shared or with a stub each, give the instances.
* `GetState` and `Close` of the breaker, and `GetData`, `GetChildren` and
  `ExistsWithWatch` of `ZkClient`, are never called.
* The texts of errors and logs, the console, memory (`OnMessage` never deletes
  a request), and calls without a controller, which are undefined once they fail.
* muduo, protobuf's library and ZooKeeper are external: they do what the code
  relies on, including the failures it handles. Arenas, reflection and swapping of
  the generated classes are left out.

## 7. Running

    tlc -workers 2 -config ChannelLong.cfg MCMprpcChannel.tla
    tlapm ChannelProofs.tla

A configuration belongs to the MC module of its component:
`Breaker*.cfg` to `MCBreakerCallers`, `Discovery*.cfg` to
`MCServiceDiscovery`, `Channel*.cfg` to `MCMprpcChannel`, `Framing.cfg` to
`MCRpcFraming`, `Provider*.cfg` to `MCProviderStartup`, `Logger.cfg` to
`MCLoggerQueue`.
