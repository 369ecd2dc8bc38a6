# A TLA+ model of Teaf (isgw)

Teaf is a framework for request/response servers in C++ on top of ACE. One
process accepts TCP connections and datagrams, turns what arrives into
requests, lets a group of worker threads process them, and sends the replies
back; on the way a request may be passed on to another server of the same kind.
This directory holds TLA+ models of its parts, the TLC configurations that check
them, and machine-checked proofs about most of them.

All source paths below are relative to `src/trunk/teaf(isgw)/`.

## 1. The system

### Threads

* **The reactor thread** runs every event handler: accepting, reading, closing,
  the timer, and draining the queue of replies.
* **Worker threads of `ISGWMgrSvc`** (10 by default), each reading one of
  `SVC_QUE_NUM` queues, run the operations of the application.
* Optional threads: the workers of `IBCMgrSvc` (batches), the threads of
  `ASYTask` (answers of other servers), tasks of the application.
* With `-c n` a parent process forks `n` such processes.

### Components

| Component | State | Operations | What makes it correct |
|---|---|---|---|
| Reactor interfaces: `AceSockHdrBase`, `ISGWIntf`, `ISGWUIntf` | one handler per descriptor with a sequence number; `total_seq_`; receive buffer; `msg_seq_` | open, handle_input, process, send_n, handle_timeout, handle_close | each request becomes one buffer, refused requests give it back; a connection is identified by descriptor *and* sequence number |
| `ISGWMgrSvc` on `ACESvc` | `SVC_QUE_NUM` bounded queues, `index_`; routing table | putq, recv, process, check, forward, send | a buffer is in one place; each request is answered at most once; queues are served |
| `ISGWAck` | one queue of replies under `queue_lock_` | putq, process (from the reactor) | a reply reaches its client or nobody |
| `ACE_Object_Que` | bounded queue of blank objects, `ret_` | enqueue, dequeue | nothing is lost, nothing is handed out twice or after it was deleted |
| `ISGWCIntf`, `PlatConnMgrAsy` | the routed connections: `conn_info_`, `conn_status_` | send, init_conn, is_estab, process (answers), handle_close | an established connection is alive; answers find the client |
| `CmdAmntCntrl` | status, period and counters per command, two locks | get_status, set_status, amount_inc | a refusal lasts one period, a stop lasts; counters are consistent |
| `IBCMgrSvc` | map of batch records under a lock | putq, process | each part counts once, each batch is answered, the map is bounded |
| `ASYTask` | map of contexts | insert, svc | each answer meets its context; contexts expire |
| `PlatConnMgrEx` | pool of blocking connections with a lock and a use flag each | send_recv, send_recv_ex, send, recv, get_conn, init_conn, fini | an answer belongs to the request just sent; no slot stays marked as used |
| `PlatDbAccess`, `PlatDbConn` | pool of database connections with a lock each | exec_query, exec_multi_query, exec_update, exec_trans | a transaction takes effect whole and once, or not at all; what is reported has happened |
| `RdsSvr` (`comm/rds_access`) | Redis handles: a context, a database number and a lock each | 32 methods over get_handle, sel_database, rst_handle | commands run in the database they name; dead contexts go |
| `ACEApp`, `ISGWApp` | `is_quit_`, `child_pids` | parent_main, parent_hatch, parent_quit, daemon_main, quit_app | a quit ends, the parent after its children |
| `IsgwTaskBase` | a queue and its threads | put, svc, stop | what was accepted is processed before stop returns, and it returns |
| `IsgwProxy` | servers with failure counts, the current one | get_server, get, get_servers | unavailable servers are passed over; the search ends |

How they interact: the reactor calls `ISGWMgrSvc::putq` and never waits; a
worker calls `ISGWAck::putq`, which wakes the reactor; the same `PPMsg` object
travels all the way and is taken from and given back to the object pool at either
end. `forward` makes a second `PPMsg` and sends it through `ISGWAck` to a
connection registered in the same reactor; its answer comes back as an event on
that connection. Nothing but descriptor and sequence number, written into the
message, ties an answer to the client it is for.

What is hard: connections close and descriptors are reused while messages that
name them are under way; every queue is bounded and refuses; memory may run out
in the middle of each path; workers and reactor share members without a lock
(`ret_`, `conn_status_`, `total_seq_`, `time_now_`). `PROJECT.json` lists these
hazards line by line.

## 2. Modules

| Module | Models | Kind |
|---|---|---|
| `Isgw` | reactor interfaces, `ISGWMgrSvc`, `ISGWAck`, `ISGWCIntf`, one routed connection, the pool as a whole | detailed specification |
| `Gateway` | what a client may rely on | abstract specification |
| `IsgwGateway` | the mapping of `Isgw` to `Gateway` | refinement |
| `MCIsgw` | instances of `Isgw` for TLC | model checking |
| `IsgwProof` | theorems about `Isgw` | proofs |
| `ObjectQue` | one call of the pool, step by step | detailed |
| `Dial` | dialling the routed connection, step by step | detailed |
| `FlowControl` | `CmdAmntCntrl` for one command | detailed |
| `IbcMgr` | `IBCMgrSvc` | detailed |
| `ConnPool` | `PlatConnMgrEx` | detailed |
| `DbAccess` | `PlatDbAccess` with `PlatDbConn` | detailed |
| `RdsAccess` | `RdsSvr` of `comm/rds_access.cpp` | detailed |
| `TaskBase` | `IsgwTaskBase` | detailed |
| `AsyTask` | `ASYTask`, the queue and the answers of `ISGWCIntf` it works on | detailed |
| `Framing` | `handle_input` of `ISGWIntf` and `ISGWCIntf`, text and binary | detailed |
| `LifeCycle` | `ACEApp` and `ISGWApp::quit_app` | detailed |
| `Proxy` | `IsgwProxy` | detailed |
| `Parts` | the eight modules above this line, next to each other | composition, model checking |
| `IsgwGatewayProof` | that `Isgw` implements `Gateway` | proofs |
| `ConnPoolProof` | theorems about `ConnPool` | proofs |
| `DataAccessProof` | theorems about `DbAccess` and `RdsAccess` | proofs |
| `FramingProof` | theorems about `Framing` | proofs |
| `PartsProof` | theorems about `TaskBase`, `AsyTask`, `LifeCycle`, `Proxy`, and the types of all parts | proofs |
| `IbcMgrProof` | theorems about `IbcMgr` | proofs |
| `Lemmas` | facts about numbers and sequences they need | proofs |

A definition whose comment starts with *slip* is not part of the model. It is a
wrong version of the definition after it (a guard dropped, a reset forgotten);
replacing the one by the other must make a property fail, which shows that the
property depends on that piece of code.

### Isgw: the request path

The state follows the code: `conn` is the reactor's table of handlers, `que` and
`index` the queues of `ACESvc`, `wk` the place of each worker in
`ISGWMgrSvc::process`, `ackq` the queue of `ISGWAck`, `bconn` the `conn_info_` of
the routed connection, `pool` and `live` the objects in the pool and those
allocated, `msg` their contents. `owner` and `flag` remember for each request
whose it is and how it is routed; `got`, `stray` and `backend` record what was put
on the wires.

| Action | Code |
|---|---|
| `Accept`, `Close` | `ISGWIntf::open` (with `is_auth`), `handle_timeout`, `handle_close` |
| `Input`, `UdpInput` | `handle_input` and `process`: buffer, stamp, `putq`, or refusal |
| `Recv` | `ACESvc::recv` |
| `ProcessHere`, `UseConn`, `Reconnect`, `ConnectFails`, `Forward` | `ISGWMgrSvc::process`, `forward`, `PlatConnMgrAsy::send`, `init_conn` |
| `Finish` | the end of `process`, and `send` |
| `AckUdp`, `AckNoOwner`, `AckSend`, `AckSendFails` | the branches of `ISGWAck::process` |
| `BackendAnswers` | `ISGWCIntf::process` |

What the model takes as one step, and why:

* A call of the object pool, and a draw of a sequence number. `ObjectQue` looks
  inside the first and shows what that leaves out; the comment above the second
  states that it may repeat a number when several threads draw at once.
* The split of a byte stream into requests. Several requests found in one call of
  `handle_input` are several `Input` steps.
* Dialling, including the mark in `conn_status_`; `Dial` looks inside.
* One routed backend, with one connection. With several routers the same request
  is forwarded to each, and each answers.
* An operation: whether it asks for a reply is left open.

`Gateway` says of each request only this: it is taken from a client; replies to
it become due, at most so many as its routing flag allows (none or one for a
request that is processed here or only routed; one more for a request that is
both processed and routed); a due reply is dropped or delivered to that client
and no other. `IsgwGateway` maps the buffers, the worker states and the forwarded
requests of `Isgw` to the replies still due.

### ObjectQue, Dial

`ObjectQue` splits `enqueue` and `dequeue` of the pool at the member `ret_`: the
call of the inner queue, the assignment, the test. `Dial` splits `init_conn` at the
points where the reactor can come in between: the handler is registered, gets
its number, is remembered in `conn_info_`, is marked in `conn_status_`. Reading the
handler after the reactor deleted it is undefined, so `Remember` may then read
anything.

### FlowControl

One command; `get_status`, `set_status` and `amount_inc` with their two locks. The
subtraction of times is unsigned (`Since`). Peak values are left out.

### IbcMgr

`left`, `waiting`, `hand`, `rec` and `answers` count the parts of each batch, from
CMD_TEST that makes them to the answer; `answers` adds up the parts in the answers
to a batch, of which there are several when its record was evicted. A batch has a
message number of its own, so that the oldest record is the one with the smallest.
The merged text is left out. The ways to lose a part (queues full, too old, no memory to evict) are
actions, and `lost` remembers them.

### ConnPool

`conn` is `conn_[ip][index]` together with what the two ends of the socket hold
(`in`: arrived and not read, `due`: still to be written by the backend), `busy` and
`slotLock` are `conn_use_flag_` and `conn_lock_`, `thr` is the call a thread is in.

| Action | Code |
|---|---|
| `Begin` | `get_ip_idx`, `get_index`, and the first look of `get_conn` at the slot, without its lock |
| `Dial`, `Dialled`, `Check` | the rest of `get_conn`, `init_conn` |
| `Use` | the caller takes the lock and looks again |
| `Drain`, `DrainClosed`, `Redialled` | reading away what an earlier exchange left |
| `Send`, `SendFails`, `Recv`, `RecvFails` | the exchange, every way out, `fini` |
| `AnswerArrives`, `PeerCloses`, `BackendStops`, `BackendStarts`, `IntervalPasses` | the backends and the clock |

An answer is `AnswerLen` pieces, the last of which carries the separator, and a
caller brings a buffer for `room` of them. `recv` returns what has arrived, as much
as the buffer takes. `send_recv_ex` goes on until it finds the separator *or the
buffer is full*; `send_recv` and `send_recv_ex` without a separator (here
`send_recv_any`) are content with one `recv`. The last two ways succeed with a part
of the answer and leave the rest to the next caller, who reads away (`Drain`) what
has arrived by then, as much as its own buffer takes. Two histories follow this:
`cut` of a connection says that a call left the end of its answer behind and nobody
has read all of it away, `rest` of a call that it sent its request over such a
connection. `AnswerIsMine` speaks of calls without `rest`; without that condition
TLC finds it violated by a single thread. A peer that has been sent only a part of a request (`send` may be short)
owes nothing. Programs that use `send` and `recv` match answers themselves
(`comm/plat_conn_mgr_ex.h:65`); a pool is used in one of the two ways (`mode`).

### DbAccess

A call holds the lock of its slot from `get_conn_index` to its return, so that
only the choice of the slot and `fail_times_` are exposed to other threads. The
model follows the call through its first attempt, the statements of a transaction,
commit or rollback, the disconnect, and the second attempt over a new connection
that a lost server brings about. The server is external: it keeps a session for a
connection, may be lost at any step, and has or has not carried out a statement
whose answer is lost. `applied` records what it has committed for each call.

### RdsAccess

`get_handle` gives each thread the handle with its index and, when that holds no
context, connects it and with a password runs AUTH (`Auth`), all without the lock.
Another thread may have freed the context in between: AUTH then runs on a null
pointer (`AuthCrash`). The method then takes the lock, selects its database, runs its
commands and frees the context after some outcomes. `sel_database` does not look at
the reply: when the server answers SELECT with an error, the database is remembered
all the same and the context stays where it was; the history `refused` of a context
marks this. A server that wants a password answers everything but AUTH with an error. The 32
methods differ only in which of these they do, so that each is a record
(`select`, `roles`, `dbs`, `cmds`, `resets`, `tests`) and the steps are
shared. Threads share a handle when there are more of them than handles. `users`
and `kept` are history: who has used a handle, and whether the last method kept
its context although it may be dead, or none has been on it since `init`.

### TaskBase

`putq`, `svc` and `stop` over one `ACE_Message_Queue` with a high water mark. `stop` puts
one mark, and the thread that takes it hands a mark on. `early` and `late` are the
messages accepted before and after `stop` was called.

### AsyTask

`Insert` is `ASYTask::insert` with its scan for old contexts, `Send` is
`PlatConnMgrAsy::send`, `Arrive` the branch of `ISGWCIntf::process` for answers that are
processed here, `Take`, `Find`, `CallBack` the loop of `svc`. Erasing the first element
of the map moves its iterator in front of the map, which is undefined; `Purged`
then lets any of the old contexts go.

A request is a protocol and a number, since TCP and UDP requests are numbered by
counters of their own. `ASYR_COMP` puts each of two twins, which have the same number,
before the other (`comm/asy_prot.h:75`). What a `std::map` does with them follows
from its insertion and its search: the newer twin comes right in front of the older
one (`front`, `First`), the older one is always found, and the newer one only
when it does not lie below the older in the tree. The shape of the tree is left out,
so that `Find` may find the newer twin or miss it (`FoundOr`) while the older one is
there; a missed context stays in the map. Of two requests over the same protocol
the numbers are taken to differ (they are drawn from 32 bits).

### Framing

One step is one call of `handle_input`, with any number of bytes that have arrived
and fit. A byte is its position in the stream of the peer, so that the properties
can say which bytes a message is made of. There are six kinds of handler: clients or
backends, and text, a length that counts the body, or one that counts itself.
Bytes behind `recv_len_` are part of the state: the text handlers search the
whole buffer with `strstr`.

### LifeCycle

From `easyace/ace_app.cpp:185` on, where everything is configured. `at` is where
the first process is: `parent_main` (`Test`), `parent_hatch` (`Hatch`, `Slept`, `Hatched`),
the reactor's loop (`ResetLoop`, `LoopEnds`), `parent_quit` (`WaitForChild`, `ParentQuits`) and
`quit_app` (`Drain`, `QuitApp`). The parent's loop ends only to quit, so it hatches
once. A child is `starting` until it ignores SIGINT, and may die at any time; what
it does in its loop is left out. Other signals appear only as an interruption of
`waitpid`. The wait of `quit_app` counts nothing, so `Drain`, a step of the workers, is
all that ends it.

### Proxy

`Ask` reads the time of the last refresh without the lock, `Fetch` calls an admin
server without it, `Refresh` replaces the list, `Pick` is the choice in `get_server`,
`Exchange` is one request and its answer or none, `Count` records the outcome by
the name of the server.

### Parts

These eight parts share no state, so that what the program does is, for each, one
of its own behaviours with steps in between that leave it alone. `Parts` composes
them with `INSTANCE`; `part` says which one moves in a behaviour, and the others stay
where they began. Exploring all interleavings of parts that do not meet would
multiply the states and show nothing more. Its constants carry the assumptions of
the proofs, which TLC evaluates for the values in `Parts.cfg`.

## 3. Runs

| Run | Instance | Shows |
|---|---|---|
| `isgw_tcp` | 2 TCP clients, 2 descriptors, 2 workers on one queue of one, pool of 1, 4 buffers, 2 requests with any routing flag, 3 connections | types, `NoAlias`, `NoLeak`, `NeverMisrouted`, `OnlyOwner`, and `Isgw` implements `Gateway` |
| `isgw_live` | a TCP and a UDP client, 2 queues with a worker each, 3 buffers, 2 requests, 2 connections, fair | `OnlyOwner` over UDP too; `EveryRequestSettles` |
| `isgw_udp_route` | one UDP client, one routed request | finding: the answer leaves for the backend |
| `object_que` | 2 threads, pool of one | finding: an object in the pool is deleted |
| `dial` | 1 worker, 2 descriptors | finding: a dead connection stays established |
| `flow_ratio` | 2 workers, period of 1 s | finding: division by zero |
| `flow_stop` | the same | finding: a stop turns into a refusal for a period |
| `ibc` | 3 batches of 2 parts, 2 workers, room for 2 records, 3 parts queued, fair | `EveryPartOnce`, `RecordsBounded`, `EveryBatchAnswered` |
| `parts` | the eight parts, each with two or three actors, see below | `HeldIsLive`, `BusyIsHeld`, `AnswerIsMine`; `TransIsAtomic`, `ReportIsTrue`; `CommandInItsDb`, `TestedIsThere`, `DeadContextIsDropped`; `AcceptedIsProcessed`, `StopReturns`; `ContextIsFound`; `FramedExactly`, `NothingStale`; `ParentIsLast`, `SigintEnds`; `IndexInList`; all types |
| `framing_split` | text from a client, 3 messages, a buffer that began clean | finding: half a message is dropped, the other half processed |
| `life_quit` | a parent and one child | finding: the parent waits for a child that was told nothing |
| `proxy_skip` | one thread, 2 servers | finding: an unavailable server is taken although one is available |

**Bounds.** `MaxReq` and `MaxSeq` end a run; that is why it may stop, and why
deadlock is not checked. Two requests are enough for two buffers to meet anywhere,
three connections for a descriptor to be used by both clients and by the backend
in any order while a message that names the first of them is under way. A queue
of one is full with one request; a pool of one is empty with one in use and full
with one returned, so that buffers are also newly allocated and deleted. The four
buffers of `isgw_tcp` can run out: two requests, each with its forwarded copy. In
`ibc`, three batches over two records make a batch lose its record, start another
and evict the next. `Word` in `FlowControl` stands for 2^32; only the sign of small
differences matters.

The bounds of `parts` are the values in `Parts.cfg`:

| Part | Bounds | What they make happen |
|---|---|---|
| `ConnPool` | 2 threads, 1 ip with 1 connection, answers of 2 pieces, buffers of 1 or 2, `MaxFails` 1, `MaxOwed` 2 | both threads on one slot; answers that arrive late, in pieces, longer than the buffer, or never; a request sent while up to one piece of an earlier answer is still to come |
| `DbAccess` | 2 threads, 1 connection, 2 statements, `DbMaxFails` 1 | one waits for the other's slot; a server lost before, between and after the statements |
| `RdsAccess` | 2 threads, 1 handle, 2 databases, up to 2 commands, a password, no replica | contexts freed and replaced under the other thread, before AUTH, SELECT or the command; changes of database, refused and not |
| `TaskBase` | 2 threads, room for 2 of 3 messages | a full queue under the mark; a message after `stop` |
| `AsyTask` | TCP requests 1 and 2, UDP request 1, 2 threads, a limit of 1 context, a queue of 1 | the map over its limit, with and without its first element old; twins in either order, next to a third request; a full queue |
| `Framing` | 3 messages, a buffer of 6, a length field of 2, lengths 1, 3, 4, 5, 7 | a message in many reads, several in one, a full buffer, lengths too short and too long |
| `LifeCycle` | 0 to 2 children, up to 1 queued message | forks that fail in either slot, children that end before and while they are waited for |
| `Proxy` | 2 threads, lists of 1 or 2 of 2 servers, avoided after 2 failures | a list replaced between choice and count; the same name twice; all servers unavailable |

A second backend adds to `ConnPool` that an ip which failed too often is avoided and the
other one taken; it multiplies the states beyond use when answers come in pieces. With
`IpNum` 2 and `AnswerLen`, `Rooms` and `MaxOwed` 1, the three properties of `ConnPool` hold on
538489 states; the theorems are about any number of both. A replica (`HasSlave` true) multiplies the states of
`RdsAccess` by the choice of a role and adds no step; the same properties hold with
it (12.3 million states).
A binary message of length 0 is not sent: its length field alone is a message to
one handler and refused by another, and no peer of the repository sends it.
Deadlock is not checked in `parts` because a stopped task and an ended process do
nothing more, nor in runs whose bounds end them.

**Symmetry** is used in `isgw_tcp`, over buffers, descriptors, clients and workers.
They are model values, no constant or property names one of them, and `QueOf` is
the same for all workers there. It is not used where liveness is checked.

**Fairness.** `FairSpec` of `Isgw` assumes that each worker thread runs when it can
(an operation returns) and that the reactor drains `ISGWAck`, which it is told of
by a notification or a timer. No fairness is assumed of clients, of the network
or of the backend. `EveryRequestSettles` also needs a worker at each queue:
`gettid() % SVC_QUE_NUM` gives that for threads created in a row, and `QueOf` says
so explicitly; when every worker reads the first queue, the property fails.
`IbcMgr` assumes that its workers run. `TaskBase` assumes that its threads run, and
the thread in `stop` once it has called it; nobody has to put messages, or to
stop. `StopReturns` names its two exceptions: messages put behind the mark can
fill the queue under the last thread, and when all threads have failed nobody
makes room. `LifeCycle` assumes that the processes run and that the workers empty
their queue; signals and the deaths of children are never assumed. That the
workers do empty it is an assumption `SigintEnds` needs, not one the code enforces: where
the process runs and a worker may never finish, `quit_app` waits for ever, though a
maximum is configured (see section 5).

## 4. Proofs

Each theorem holds for all values of the constants: any sets of clients,
descriptors, threads and buffers, queues, pools and lists of any length.

| Theorem | Module | States |
|---|---|---|
| `Typing` | `IsgwProof` | `Spec => []TypeOK` |
| `NeverAliased` | `IsgwProof` | `Spec => []NoAlias` |
| `NeverLeaks` | `IsgwProof` | `Spec => []NoLeak` |
| `RightConnection` | `IsgwProof` | `Spec => []NeverMisrouted` |
| `RightClient` | `IsgwProof` | `Spec => []OnlyOwner` |
| `Implements` | `IsgwGatewayProof` | `Spec => ImplementsGateway` |
| `UsedIsLocked` | `ConnPoolProof` | `Spec => []HeldIsLive` |
| `MarkIsCleared` | `ConnPoolProof` | `Spec => []BusyIsHeld` |
| `NoOthersAnswer` | `ConnPoolProof` | `Spec => []AnswerIsMine` |
| `WholeOrNotAtAll` | `DataAccessProof` | `Spec => []TransIsAtomic` |
| `ReportedIsDone` | `DataAccessProof` | `Spec => []ReportIsTrue` |
| `InItsDatabase` | `DataAccessProof` | `Spec => []CommandInItsDb` |
| `ContextIsThere` | `DataAccessProof` | `Spec => []TestedIsThere` |
| `DeadIsDropped` | `DataAccessProof` | `Spec => []DeadContextIsDropped` |
| `AllAccepted` | `PartsProof` | `Spec => []AcceptedIsProcessed` |
| `OwnContext` | `PartsProof` | `Spec => []ContextIsFound` |
| `ParentOutlives` | `PartsProof` | `Spec => []ParentIsLast` |
| `ServerInList` | `PartsProof` | `Spec => []IndexInList` |
| `MessagesAreExact` | `FramingProof` | `Spec => []FramedExactly` |
| `NothingIsStale` | `FramingProof` | `Spec => []NothingStale` |
| `PartsTyped` | `PartsProof` | `Spec => []TypeOK` |
| `TypesHold` | `IbcMgrProof` | `Spec => []TypeOK` |
| `PartsCountedOnce` | `IbcMgrProof` | `Spec => []EveryPartOnce` |
| `RecordsAreFew` | `IbcMgrProof` | `Spec => []RecordsBounded` |

None of these properties is inductive as it stands. Each proof has one step per
action, and an invariant that says what the code keeps true besides.

### The request path

The theorems of `IsgwProof` follow from `IInv == TypeOK /\ Ownership /\ Routing`:

* `Ownership` adds to `NoAlias` and `NoLeak` that a buffer has contents exactly
  while somebody uses it. A blank buffer is then in nobody's hands, which is what
  makes the next `Dequeue` harmless.
* `Routing` says of each place where a request, a reply or an answer may be that
  its address reaches the client of that request or nobody (`ClientAddr`), or the
  backend or nobody (`BackendAddr`). "Nobody" covers descriptors that are closed
  and reused: a sequence number that was drawn is never drawn again
  (`Counted`), so a handler with the number in the message is still the one it
  was written for.
* The three parts are proved together, because the type of an answer's address
  depends on `Routing` (a buffer sent to the backend carries an address), and
  `Routing` speaks only of buffers in use, as `Ownership` counts them.

`Implements` needs a second invariant, `Once`. The mapping counts, for each
request, the buffers that can still become a reply and what the backend was asked
and has not answered; a step of the code is a step of `Gateway` only when that count
changes as `Gateway` says, so it must be known that nothing is counted twice:

* `PendingAlone`: the request of a buffer no worker has decided on is in no other
  buffer, not with the backend, and not answered. Deciding to forward *and* answer
  then makes two of exactly one (`Fork`).
* `ForwardedOnce`: a request is on its way to the backend, or with it, once. Sending
  it then moves the debt from the buffer to the backend and leaves the count alone.
* `AskedOfBackend` and `OneHandler`: a connection that goes takes away what was asked
  over it, and nothing else.
* `Numbered` and `ForwardingMeant`: a new request is owed nothing, and only a request
  with a routing flag is forwarded.

`Once` is proved from `IInv`; then there is one lemma per action that finds the
step of `Gateway` it is (`TakeStep`, `ForwardStep`, `AckSendStep`, ...), or that it is none.
Assumed are `ClientAssumption`, `QueueAssumption`, `SizeAssumption` and `NoneAssumption`
of `Isgw`: clients of the two kinds and the backend differ, there is a queue and it
has room, memory holds a finite number of buffers, `None` is none of the values.

### The parts

* `ConnInv`: a thread between the look under the lock and its return holds the lock of
  its slot and finds a connection there (`ConnHolds`); a slot nobody holds is not
  marked, and in a pool of synchronous calls nothing has come over its connection
  and nothing will, unless an answer was cut on it (`ConnRests`); what a receiver has,
  what has arrived and what is still due are, joined in this order, its own answer or
  as much of it as a lost connection leaves, again unless one was cut there
  (`ConnExact`, `Exchanging`). The last is what `AnswerIsMine` needs: each way out of a
  call has read the whole answer, closes the connection, or leaves it marked as cut.
* `DbInv`: what a session keeps uncommitted is what the call that holds its slot has
  executed (`DbHolds`), a slot nobody holds keeps nothing (`DbRests`), and what a call
  was told agrees with what was applied (`DbTold`).
* `RdsInv`: a caller between selecting and its last command holds the lock and, if it
  selected, a context (`RdsHolds`); for a handle with one user, `dbid` is the database
  of the context unless the server refused the last SELECT on it (`RdsInDb`), and a lone
  user that is about to run AUTH has the context it connected (`RdsKnows`); a dead
  context is in use or kept (`RdsDead`).
* `TaskInv`: a message accepted before `stop` was called is processed, or in the queue
  before every mark; once a thread has taken a mark none is left.
* `AsyInv`: an answer is at one place (`AsyOnce`), and until it is processed the context of
  its request is there or too old (`AsyKept`), the iterator that was erased included; a
  request that went in front of a twin has a twin that was inserted before it and did
  not go in front of another (`AsyFront`), and an answer was served without its context
  for one of these two reasons only (`AsyServed`).
* `LifeInv`: while the parent waits, the children before the one it waits for are gone or
  were never forked.
* `ProxInv`: the index is one of the list that is there now, or 0 when that is empty: the
  list is replaced and the index reset under one lock, and the choice is made under it.
* `FrameInv`: the last `recvLen` bytes received are in the buffer, in order, and in
  `ISGWCIntf`'s text the cells behind them are zero (`FrameBuffer`). Of the three exact
  kinds, what was given is the first `m` messages, whole; message `m` ends where the
  buffer begins, message `m + 1` has not arrived whole, and `msg_len_` is 0 or the length
  that stands first in the buffer (`FrameWhole`). That last conjunct is what lets the
  next read skip the test of the length. For `ISGWIntf`'s text, where a message may be
  cut in two (finding 6), what was given is a run of increasing positions up to where
  the buffer begins: stale separators lie behind `recv_len_`, where the loop
  breaks off.
  The stream, the messages in it and the loops are folds and recursive functions.
  Where the argument is an induction, it is made by a least counterexample instead
  (`LeastNatural` in `Lemmas`): the first message, byte or turn of the loop for which
  the claim fails follows one for which it holds. `CutLoop`, `WalkLoop` and `LoopGives`
  say this of the loops, `FrameSets` of the stream.
* `PartsTyped`: each of the invariants has the types of its part as a conjunct; together
  they are `TypeOK`.
* `IbcInv`: the types without their bounds, with `EveryPartOnce` and `RecordsBounded`.
  That the parts add up to the batch is what bounds each count.

Assumed are the named assumptions of `Parts` and `IbcMgr`: `None` is none of the
values, there is a slot, a handle, an ip, a statement; an answer has a piece and each
buffer room for one; a batch has a part; the
threads of `IBCMgrSvc` are finitely many; a length takes at least one place and is
not negative (`FrameAssumption`; `MSG_LEN_SIZE` counts bytes).

### Model-checked only

* **Liveness**: `EveryRequestSettles`, `EveryBatchAnswered`, `StopReturns`, `SigintEnds`. Fairness
  and ENABLED are out of the prover's reach.
* What the runs with findings show: those are counterexamples.

## 5. Findings

Eight places where the code does not do what its own comments say:

1. **A forwarded datagram is answered to the backend.** `ISGWCIntf::process` writes
   the address of the routed connection into the answer, and the parser restores
   descriptor, sequence number and protocol only (`isgw_udp_route`).
2. **The pool deletes objects it holds.** The shared `ret_` (`object_que`).
3. **A dead connection stays established.** `init_conn` marks a connection that the
   reactor has closed already; requests are then dropped for ever (`dial`).
4. **Division by zero in flow control.** (`flow_ratio`)
5. **A stopped command comes back.** (`flow_stop`)
6. **A text message may be cut in two.** `ISGWIntf::handle_input` finds a separator
   that an earlier message left in the buffer, takes the first part of a new
   message for a whole one without a command word, and throws it away
   (`frm/isgw_intf.cpp:120`, `framing_split`).
7. **The parent never tells its children to quit.** It signals SIGTERM, which was set
   to be ignored before the fork, and waits for ever
   (`easyace/ace_app.cpp:530`, `life_quit`).
8. **An unavailable server is taken.** The search stops before the current server,
   also when that is the only one available (`comm/isgw_proxy.cpp:148`,
   `proxy_skip`).

Each is an entry of `PROJECT.json` with the comment it contradicts. The makefiles
build without optimisation, so a member read again after an assignment is read
from memory, which findings 2 and 4 depend on.

Seen while modelling, and part of the models as they are. These contradict a comment;
the property that a run checks exempts the case by name, and fails in TLC without the
exemption:

* **The rest of an answer becomes the next one.** A call whose buffer is full, or that
  names no separator, succeeds with a part of its answer and keeps the connection;
  the next call reads away only what has arrived by then
  (`comm/plat_conn_mgr_ex.cpp:431`, `:533`, `:537`). `comm/plat_conn_mgr_ex.h:22` says that
  data left from before has been taken care of. `AnswerIsMine` exempts that next call.
* **A context is not found by its key.** The comparator is no order for keys with the
  same number, which a TCP and a UDP request may have (`comm/asy_prot.h:75`); the key is
  the index by which states are managed (`:14`). `ContextIsFound` allows this to the
  newer of two twins only.
* **The longest wait at exit is no limit.** `quit_app` compares a counter with
  `max_wait_mgr_time_` that it never increases (`frm/isgw_app.cpp:237`), although `:223`
  calls it the longest time to wait. `SigintEnds` assumes that the workers finish.
* **A list is counted in the wrong database.** `get_list_num` selects no database; its
  comment says it is 0 by default (`comm/rds_access.cpp:2042`). `CommandInItsDb` speaks of
  the methods that select one.

These contradict no comment: a database connection whose transaction could not be
started, or committed, for lack of a server is kept for the next call
(`comm/plat_db_conn.cpp:204`, `:239`); `inc_hash_field` keeps a context that has just died
(`comm/rds_access.cpp:1784`); a SELECT the server answers with an error is remembered as
success, so that the commands after it run in the old database (`:172`); when threads
share a handle, methods that do not select a database may run a command without a
context, and so may the AUTH of `get_handle`, which holds no lock (`:146`).

## 6. Not modelled, and the plan

Not modelled:

* **The text of messages** (`QModeMsg`): a pure function of one message, and no
  property tells field values apart. In `Framing` the extra cell of the text buffer
  that holds the final zero is left out as well.
* **Statistics and the shared bitmap**: written without locks, but nothing decides by
  them. **Configuration, logging, `sys_comm`**: file reading, strings and times.
* **Lua, the dynamic library, sample clients**: optional extensions and examples.
* **The SIGUSR1 handler**, which reads the configuration again while workers use it.
* Of the routed connections, **several routers and several addresses** for one, which
  would multiply the state of `Isgw` by choices that do not meet.
* **The order of the keys of batches** (`comm/ibc_prot.h:100`), which is none for keys
  with the same number; as TCP and UDP requests are numbered by counters of their
  own, such keys meet long before a number wraps. Its twin, the order of contexts
  (`comm/asy_prot.h:75`), is modelled in `AsyTask`, but for the shape of the tree.
* **The race on `index_`** of `ACESvc` between several producers, which may index
  outside the queues for an instant (`easyace/ace_svc.h:149`).

Planned: twins with the same number in `IbcMgr`, as `AsyTask` has them, and a property of
how long a refusal of `FlowControl` lasts. Planned, a proof that needs no larger model: `ObjectQue` with calls that do not overlap
keeps `PooledIsLive`; in `Dial`, one dialling at a time keeps `EstablishedIsAlive`. Both
as lemmas beside the findings, which show that without these conditions they fail.
