# A TLA+ development of sdk_cp

sdk_cp is a C++ library of building blocks for servers: lock-free and locking
queues, executors, allocators and containers under `tools/`, an HTTP and a
WebSocket server on libevent under `web_server/`, a small file store under
`dataport/`, and two libraries it carries with it and serves its requests with,
rapidjson and minilzo. The repository has no tests of its own code and its
README says nothing about behaviour; what each part promises is read off its
code, its assertions and its users. This directory models the parts, the
concurrent ones step by step and the algorithms against a reference definition,
model-checks them with TLC and proves, with TLAPS, what the rest of the code
leans on most.

Paths below are relative to the source tree; line numbers are those of the
modelled commit.

## 1. Inventory

### The library's own parts

| component | state | operations | hard because |
|---|---|---|---|
| `tools/wait_for_single_object.hpp` | mutex, condition variable, atomic flag | `wait`, `set` | `set` notifies without the mutex; timeouts; spurious wake-ups; an unsigned timeout becomes a signed duration |
| `tools/ring_buffer.hpp` | byte array, `_ix_read`, `_ix_write`, write lock | `allocate`, `commit`, `skip`, `peek`, `free` | producers resolve blocks in any order, the consumer takes no lock, blocks may not cross the end of the array |
| `tools/chain_executor.hpp` | chains of jobs by key, list of ready chains, event, `_stop` | `add_job`, `remove_chain`, worker loop, destructor | decisions are made under one lock and carried out under another; weak references; lost wake-ups |
| `tools/threaded_handler.hpp` | ring buffer, worker thread, status, callback | `push`, `push_no_wait`, `setCallbackFunc`, `stop`, worker | `stop` looks at the thread without the lock `push` uses; restart with messages left over |
| `tools/thread_pool.hpp` | list of tasks, worker states, threads, event | `init`, `deinit`, `add_task`, `add_cb`, `run_task`, worker | tasks are addressed by pointers into a list that workers erase from; tasks outlive `deinit` |
| `tools/pool_allocator.hpp`, `tools/linear_hash_map.hpp` | chunks of objects, free positions, key map | `operator[]`, `find`, `erase` | exceptions between the steps of an insertion |
| `tools/heap_allocator.hpp`, `heap.hpp` | words of free-page bits, an active page, chunks | `allocate`, `release` | runs of bits across words; headers that lead back to the chunk |
| `tools/static_frame.hpp`, `dynamic_frame.hpp`, `b_spline.hpp` | a circular array, indices and a size | `move_fwd`, `move_bck`, `push`, `pop`, growing | unsigned minimum, one slot more than the capacity, two frames that move together |
| `tools/list.hpp` | rings of nodes | create, link, remove, destroy | a removed node keeps its neighbours |
| `tools/callback_keeper.hpp` | callbacks by key | `bind`, `process`, destructor | callbacks run outside the lock, or inside it in the destructor |
| `tools/cache.hpp` | pooled objects | `get`, `put`, deleters | deleters that outlive the cache |
| `dataport/` | a file, headers with addresses | `add`, `get` | a write that fails part of the way; a text file, whose bytes are not those written; two threads without a lock |
| `web_server/server_win.hpp` | per worker: thread, socket, libevent loop, two events, list of uploaders | `run`, `stop`, `register_uploader`, request and upload callbacks | other threads reach into a loop that may be starting, stopping or gone |
| `web_server/server_linux.hpp` | one socket, a loop per worker | `run`, `stop`, requests | a loop broken before it is dispatched; a socket that every worker shares and each closes with its own `evhttp` |
| `web_server/ws/*` | a connection's reading step, watermark, frame under way | handshake, frame reader, close, ping | bytes arrive in any portions; a step reads what the step before it asked for |
| `web_server/server_ws_win.hpp`, `server_ws_user_win.hpp` | workers, pending users, each with a spin lock and a bufferevent | accept, frame and close callbacks, `send`, `disconnect`, `run`, `stop`, destructor | two locks taken in both orders, objects destroyed inside their own callbacks, a server that is gone before its loops |
| `tools/blocker.hpp` | a spin lock and its guards | lock, unlock | lock variables of the modules above |

### The libraries it carries

| component | operations | hard because |
|---|---|---|
| `compression/minilzo.c` | `lzo1x_1_compress`, `lzo1x_decompress`, `lzo1x_decompress_safe` | five encodings of a match, lengths continued over bytes, bits of one match that count the literals behind it, input that was damaged on its way |
| `rapidjson/reader.h`, `writer.h`, `prettywriter.h` | two parsers of one grammar, handlers, two writers | a recursive descent and a table of states must agree, errors and early stops included |
| `rapidjson/encodings.h`, `encodedstream.h`; `tools/json_writer.hpp` | UTF-8/16/32, detection of the encoding, escapes | ranges of bytes, surrogates, streams shorter than a mark |
| `rapidjson/internal/itoa.h`, `dtoa.h`, `strtod.h` | reading and printing numbers | the edges of each integer width, digits that no longer fit |
| `rapidjson/internal/biginteger.h` | long integers | carries through full words, stale words |
| `rapidjson/document.h`, `allocators.h` | values in a pool | containers that grow in place or move, members removed by moving the last |
| `rapidjson/pointer.h` | parse, write, create, set, erase | escapes in two forms, indexes that overflow, values replaced on the way |
| `rapidjson/internal/regex.h` | patterns to automata | three stacks, copies of automata for counts |
| `rapidjson/schema.h` | compile and validate | validators inside validators, references, hashes for `uniqueItems` and `enum` |

How the parts interact: `threaded_handler` pushes into a `ring_buffer` and waits
on a `wait_for_single_object`; `chain_executor` and `thread_pool` wait on the
same object; `linear_hash_map` keeps its objects in a `pool_allocator`;
`b_spline` moves two frames; the servers run libevent loops in worker threads
and are entered by callbacks from them and by `register_uploader`, `send`,
`disconnect` and `stop` from other threads; a user of the WebSocket server owns
a connection and a `callback_keeper`; the HTTP server decompresses with minilzo
and parses with rapidjson, whose document is the reader's handler and the
writer's source.

What makes each part correct, in a sentence:

- event: it is an auto-reset event, whatever wakes the waiters;
- ring buffer: a FIFO of whole messages, nobody's block is overwritten, waiting
  for space ends;
- chain executor: jobs of a chain never overlap and run in order, none is left
  without somebody to run it;
- threaded handler: one consumer at a time, each message handled once and in
  order across restarts;
- thread pool: each task runs once, after its release, with all its callbacks,
  also across `deinit` and `init`;
- hash map: a map, whichever step of an insertion fails; heap: blocks never
  overlap and what is free can be had; frames: the newest values; rings: rings;
- keeper: a callback is called once; cache: an object has one owner; data port:
  an address names its record;
- servers: one answer per request, no use of a loop, user or socket that is
  gone, calls and `stop` return; a stream of bytes is cut into the frames that
  were sent;
- compressor: what went in comes out, and damaged data does no harm;
- rapidjson: what is written is what was read, both parsers agree, and each
  algorithm computes what its reference says.

`PROJECT.json` lists every component, and under `hazards` what is hard to test
at the line where it bites, with the properties that would catch it.

## 2. Modules

| module | models | composes / refines |
|---|---|---|
| `Event` | an auto-reset event, the contract of the wait object | |
| `WaitObject` | `wait` and `set` at the level of mutex, flag and condition variable | implements `Event` |
| `MsgQueue` | a FIFO of reserved, committed and skipped messages | |
| `RingBuffer`, `RingBuffer_proofs` | the ring buffer, slot by slot; theorems | implements `MsgQueue` |
| `ChainExecutor`, `ChainExecutor_proofs` | task_chain, task_syncronizer, chain_pool; theorems | uses an event as `Event` describes it |
| `ThreadedHandler` | push, stop and successive workers | instantiates `MsgQueue`, uses an event |
| `ServerLinux` | the Linux server's workers, socket, run and stop | |
| `MCThreads`, `Threads_proofs` | the model of the run `threads`; theorems about the event, the handler and the Linux server | `WaitObject`, `ThreadedHandler`, `ServerLinux` |
| `ThreadPool`, `ThreadPool_proofs` | tasks, workers, init and deinit; theorem | uses an event |
| `ObjectMap` | a map from keys to objects | |
| `PoolAllocator`, `LinearHashMap` | the pool and the map on it, with failures | the map extends the pool and implements `ObjectMap` |
| `WebServer`, `WebServer_proofs` | the HTTP server's workers, requests, uploaders, run and stop; theorems | |
| `WsFrame` | the frame format | |
| `WsConnection`, `MCWsConnection`, `WsConnection_proofs` | handshake, frame reader and message assembly over a byte stream; theorems | uses `WsFrame` |
| `WsServer`, `WsServer_proofs` | users, loops, application threads, run, stop and destructor; theorem | |
| `HeapAllocator`, `Frames`, `NodeList`, `CallbackKeeper`, `ObjectsCache`, `DataPort`, `Lzo` | the parts of those names | |
| `MCLibrary`, `Library_proofs` | the model of the run `library`; theorems about map, heap, frames, rings, keeper, cache, data port and compressor | the seven above and `LinearHashMap` |
| `JsonWriter`, `JsonReader` | events, the document's stack, the writers; the two parsers | the reader extends the writer |
| `JsonText`, `JsonNumber`, `BigInteger`, `JsonValue`, `JsonPointer`, `JsonRegex`, `JsonSchema` | the parts of rapidjson of those names | |
| `MCJson` | the model of the run `json` | all of rapidjson's parts |

`MCThreads`, `MCLibrary` and `MCJson` put parts that do not interact into one
model: a variable `subject` names the part a behaviour is about, and the others
keep their initial state. Each part is explored completely and its properties
are evaluated on its own states.

In a concurrent module an action is one critical section, one blocking
operation, one unlocked access to shared data, or one callback of a loop; in a
sequential one it is one call, or one round of the loop when the loop is the
algorithm; the comment above it names its lines. Definitions keep the source's
names (`ix_read` for `_ix_read` and so on). Variables marked *history* record
what happened for the properties and no guard reads them. A definition
`X_something` next to `X` is a mutated form of `X`: the properties are shown to
fail when it takes X's place.

Abstractions that matter:

- **Wait object.** `wait_for(lock, duration, predicate)` follows its C++
  contract. `Milliseconds` converts as `std::chrono` does, so the infinite
  timeout, all ones, is -1 ms: an "infinite" wait is over at once, and the users
  that pass it poll. With one waiter a lost notification is healed only by the
  timeout.
- **Ring buffer.** Memory is counted in slots of `k_slot_alignment` >= 16 bytes.
  A slot holds a prefix, a postfix, a part of a message or nothing. A consumer
  that meets a busy block spins; in the model no step is enabled. Alignments
  below 16, and reorderings by the compiler or the processor, are not modelled.
- **Chain executor.** `Owned` says that some `shared_ptr` keeps a chain alive;
  `pop_chain` skips chains that are not.
- **Threaded handler.** The ring buffer is `MsgQueue` with the write lock that a
  waiting `allocate` keeps; the handler's steps are the actions of that contract,
  and what it must do for the contract to hold is a property (`BufferUsed`). `overlapped` records that a `push` and a `stop` were
  under way together.
- **Thread pool.** A task function takes the callbacks with `swap_and_block` and
  calls them, which is what the class is for. `WeakCas` lets
  `compare_exchange_weak` fail for no reason.
- **Hash map.** One user at a time. `Faults` says which allocations may fail.
- **HTTP server.** libevent is external: it runs activated events in order, one
  at a time, and lets events die with their loop. Using a dead event or a dead
  request sets `ub`, and nothing is specified after it. `event_base_dispatch`
  may fail at any time (`DispatchFails`). All ways out of `_process_request` but
  `hold` are one action, since each sends one answer.
- **Linux server.** `fd` says whether the socket all workers listen to is open.
  `evhttp_accept_socket` gives it to the worker's `http_server`, which closes it
  when it goes: behind a loop that ends (`Returns`) and when `lzo_init` fails
  (`LzoFails`), but not when an earlier step of the set-up fails. A worker that
  comes to a closed socket has a loop without events, which returns at once
  (`DispatchDeaf`). That the number of a closed descriptor may be given out
  again, and closed a second time by the next worker or by `stop`, is left out.
- **WebSocket connection.** Bytes are numbers and arrive one by one; libevent
  calls back when the low watermark is reached, as the code sets it. Lengths
  from 2^24 on are one value. The accept key is an uninterpreted function of the
  client's key.
- **WebSocket server.** The locks libevent holds around callbacks
  (`BEV_OPT_THREADSAFE`) and the spin lock of a user are variables. A user is
  alive as long as somebody holds it: the list, a callback or the application.
  A loop that ends, told to or because its dispatch failed, leaves the
  bufferevents of its users without a loop (`orphan`), and a set-up that fails
  late leaves a watchdog without one (`dead`). Writing to, freeing or activating
  one of these uses freed memory: it sets `ub`, and nothing is specified after it.
  `wc.watchdog` is stored and looked at without a lock; the model takes both for
  single steps.
- **Data port.** The file is the bytes on the disk: a line feed takes two of them
  (`OnDisk`), and an address counts them, up to what a long of 32 bits holds
  (`NoPosition` beyond). What `fopen` in mode `a+` does to a Ctrl-Z at the end of
  an existing file is left out; the model begins with a new one.
- **Heap.** The bits of a word are the set of its free pages, so the shifting of
  masks is written as what it selects; words have `WordBits` bits.
- **Compressor.** The dictionary's hash is one simple function of the bytes it is
  looked up by, with collisions; the proof of `LzoExact` uses nothing of it but
  its range. Copying four or eight bytes at a time
  is copying them. Blocks are 40 bytes instead of 48 KB.
- **rapidjson.** Widths are constants: 5 and 10 bits stand for 32 and 64, a word
  of a long integer has 10 bits, a pool chunk 6 cells. Parsers read strings,
  numbers and words as one symbol each, and `JsonText` and `JsonNumber` are
  about what is inside them. A double is an exact decimal: what the machine
  rounds is left out. Hashes of the schema's values differ when the values do,
  except where the code's way of combining them makes them equal.

## 3. Runs

| run | instance | question |
|---|---|---|
| `ring` | guard build, 8 slots of 16 bytes, 2 producers, blocks of 3 and 4 slots, 4 messages, fair threads | is it the FIFO, are blocks in use intact, do waiting `allocate`s return and committed blocks arrive |
| `ring_64` | guard build, 2 slots of 32 bytes (expected to fail) | the smallest size the `static_assert` lets through |
| `chains` | 2 clients, 2 workers, 2 keys of which one is removed, 3 chains, 2 jobs | exclusion, order, nothing stranded, every job runs, the joins return; and the inductive invariant of the proofs |
| `threads` | event: 2 waiters, 2 setters, 3 sets, 3-bit timeouts 1 and all ones; handler: 2 producers, room for 1 message, 2 messages, 2 workers; Linux server: 2 workers, 2 runs, failures anywhere | is the object an auto-reset event; one consumer, order across restarts, the buffer used as it may be, `push` and `stop` return; requests find their worker, the socket stays open while it is listened to, `stop` returns |
| `pool` | 2 clients, 2 workers, 2 tasks, 1 callback each, 2 cycles | once and after release, callbacks kept, debts paid, `deinit` returns |
| `web_server` | 2 workers, 1 registering thread, 2 requests, 2 runs, setups and loops that fail anywhere | one answer per request, no use of a loop that is gone, uploads answered, `stop` returns |
| `hash_map_no_memory` | chunks without memory (expected to fail) | the assertion on the two sizes |
| `ws_stream` | up to 3 frames of ten kinds behind a handshake, byte by byte | messages intact, in order and delivered in the end; a close is answered once and ends the reading |
| `ws_users` | 1 loop, 2 users, 1 application thread, 2 runs, setups and loops that fail | users live while they are used, loops while libevent works on them, the list is exact, `send`, `disconnect` and `stop` return |
| `ws_destroy` | 1 loop, 1 user, 1 run (expected to fail) | the assertion that a frame finds its server |
| `library` | map: 3 keys, chunks of 2, 4 chunks, all failures; heap: 2 chunks of 3 words of 2 pages; frames of 1 to 3, a spline of 5 points, 7 pushes; 4 nodes; keeper: 2 threads, 2 keys; cache: 4 objects, room for 2; port: 2 threads, a header of 16 bytes, records of a zero and of two bytes with and without a line feed, positions up to 36; compressor: blocks of 40 bytes | does each part keep its promise over every sequence of calls |
| `json` | texts of up to 6 symbols; strings of up to 3 code points, and of up to 3 octets, 4 behind a lead of four, from the edges of each range; numbers of up to 6 characters, doubles of 3 digits laid out; 4 operations on long integers; 6 calls on 2 values with 2 names, 2 numbers and 2 strings in chunks of 6 cells, a user buffer of 3 or none; pointers of up to 5 symbols and 3 operations with them; patterns of up to 6 pieces; some sixty schemas with documents of up to 8 events | does each algorithm agree with its reference definition |

Why the bounds are enough for what is asked. Two actors suffice for the races:
each lock, list and event is contended by a pair, and the properties compare
pairs. The ring buffer wraps after two blocks, so four blocks cross the end of
the array with the block sizes ending exactly at the end, a prefix short of it
and further away, and fill the buffer completely. Three chains on two keys let a
removed chain live on beside its successor. Room for one message makes the
handler's buffer full after one push, and two workers include a restart with a
message left over. Two cycles of the pool and two runs of a server include a
restart on what the first one left behind. Three frames are enough for a
fragmented message around a control frame and for what follows a close. Three
keys on chunks of two make the pool grow and reuse positions. Three words of two
pages have runs inside a word, across one boundary and across two. Blocks of 40
bytes hold every form of a match and both forms of a literal run; the long
lengths and offsets, which 40 bytes do not reach, are checked by encoding and
decoding single matches (`Matches`). Two records with a line feed between two
without put the address of the next behind bytes nobody gave to `fwrite`, and the
third record can be beyond the positions `ftell` can say. Four octets hold every form
of UTF-8 and every form that is none, and the fourth matters only behind a first
one that begins a form of four (240 and more); three digits with two behind the point are
what `Prettify` cuts, in both of the forms in which it does. Small integer widths put every overflow
test of the parser within reach of six characters. A chunk of six cells makes
containers grow in place, move and leave the user's buffer within six calls, and
two objects get the same members in different orders. Six pieces nest a group in a group with a count behind it.

Symmetry is used in `json` only, which checks no liveness: the two values of
`JsonValue`, and the names, numbers and strings in them, are model values that the
code does nothing with but compare. Deadlock is checked in `ring`, `ring_64` and `hash_map_no_memory`. It is
off where the system may come to rest: a pool or handler that is stopped, a
server nobody uses, a call sequence or a text that has reached its bound.

### Fairness

`FairSpec` of each module assumes weak fairness of the steps of threads that run
(the operating system schedules them), of calls that have begun, and of user
code that was called (callbacks and jobs return). No call has to be made:
`allocate`, `push`, `add_job`, `set`, `run`, `stop`, `send` and arrivals of
requests, connections and frames have no fairness.

Strong fairness is assumed in two modules. In `WaitObject` time passes
(`Expire`), every user waits in a loop (`Enter`), and taking the mutex, which is
free again and again, and waking up late are strongly fair: without them the
standard library's promise that `wait_for` returns would not hold. In `WsServer`
the exit of a loop whose watchdog is active is strongly fair, because libevent
serves active events in its next round whatever else is pending, and so are a
callback and an application thread that wait for a spin lock or for libevent's
lock, each of which is released again and again.

In `WsConnection` bytes that were sent arrive and the reader is called.

### What the properties say

- `WaitObject` (`EventServes`): a set is taken by one wait, and a signal is
  taken in the end although `notify_one` may find nobody.
- `RingBuffer`: `ImplementsQueue` - the memory parsed from `_ix_read` to
  `_ix_write` takes the steps of the FIFO; `BlocksIntact` - nobody's block is
  overwritten; `RingProgress` - waiting allocates return and committed messages
  are delivered; `EmptyBufferFits` - a waiting request can only be waiting for
  others.
- `ChainExecutor`: `ChainExclusive`, `KeySerial` (order, and exclusion for keys
  whose chain nobody removes; with removal an old and a new chain do run
  together), `NoStrandedTask`, `ChainsProgress`.
- `ThreadedHandler`: `SingleConsumer`, `HandledInOrder` and `BufferUsed` hold
  whatever `push` and `stop` do. The last says what the ring buffer takes for
  granted: a producer commits a block that is still its own, whatever was freed
  meanwhile, and a worker that calls back and frees has the first message. `HandlerProgress` is stated for histories in which no push and
  stop overlapped: a `stop` that finds no thread sets the exit status which a
  concurrent first `push` overwrites, and then joins a worker that nobody tells
  to leave; a `push` on a full buffer whose worker has gone never returns.
- `ServerLinux`: `LinuxServed` - a request finds its worker in
  `_worker_context`, which the code asserts, but for the windows in which the
  owner is storing or has already joined a worker; and the socket that all workers
  listen to is open under a running loop, unless the owner stops them or a worker
  has failed that already had it (`server_linux.hpp:68`, `73`): such a failure
  takes the socket from all the others, one before it does not.
- `ThreadPool`: `PoolSafe` - once, after release, callbacks kept, and what
  `deinit` left behind has run when the next cycle ends, because a worker looks
  at the list before it looks at its state; `PoolProgress`. With
  `WeakCas = TRUE`, a machine on which the weak exchange fails spuriously,
  the latter fails: a worker may leave its start-up spin before the pool is up
  and exit.
- `WebServer`: each property names its exception, and the exceptions are what
  the code does: `_event_handler` returns from inside its loop without clearing
  the list, so requests already answered are answered again (`aborted`);
  `wc.uploaders` survives `stop` (`late`); a worker that fails half way leaves
  dead events (`failed`); a dispatch that fails (`server_win.hpp:389`) takes the
  loop down with no stop under way, and what was registered with it stays
  (`late`); `stop` that comes before the watchdog exists joins a
  worker that never leaves (`missed`).
- `WsConnection`: `StreamFaithful` - the handshake takes exactly the request,
  messages come out as they went in, and no step reads more or less than it asked
  for; `CloseEnds`; `EveryMessageArrives` for clients that keep to the protocol.
- `WsServer`: `UsersExact` - users live while anybody works on them; no callback
  comes to a bufferevent whose loop has gone, and libevent is asked to work on
  freed memory only through a connection that outlived its loop or the watchdog of
  a set-up that failed late, never while every loop of the first run is served;
  `pending_list` holds exactly those whose close was not reported; users cut off
  by `disconnect` stay in it, because the close callback is freed with the
  bufferevent. `ServerProgress` excepts the loop and an application thread that
  hold the two locks crosswise (`Crossed`), a `stop` that missed a watchdog, and
  what comes after a use of freed memory.
- `library`: `HeapExact` - blocks do not overlap, and a request is refused only
  when nothing fits or the search threw away the run it had, which it does when a
  run that began in the previous word does not go on; `StoresExact` - frames show
  the newest values and rings stay rings; `CalledOnce`; `OneOwner` - deleters
  that outlive the cache are the exception; `AddressIsRecord` - for one thread at
  a time, the address is that of the bytes `fwrite` made of the record, whatever
  line feeds other records hold, or there is none because the file is larger than
  `ftell` can say; no record can be read back; `LzoExact` - data survives both decompressors, and the safe one stays
  within its bounds on damaged data; `ImplementsMap` - a map, whatever fails.
- `json`: `ParsersAgree` - same events, same error; `WrittenAsRead` - what is
  written is what was read, also through a deep copy and the pretty form;
  `TextExact`, `NumberExact`, `BigExact`, `PointerExact`, `RegexExact`,
  `SchemaExact` and `ContainersExact` compare each algorithm with a reference definition
  written independently of it. Where the code departs from the reference the
  property says exactly where, with the line.

### Disagreements found

- `ring_64`: the `static_assert` of `tools/ring_buffer.hpp:26` says "more than
  96b" and accepts 64; a guard build of 64 bytes with 32-byte slots waits for
  ever on an empty buffer.
- `hash_map_no_memory`: `pool_allocator::allocate` keeps a chunk that got no
  memory, and the assertion `_data.size() == _keys.size()` of the map fails in
  every later operation.
- `ws_destroy`: a frame that arrives between the end of the last `shared_ptr` to
  the server and the exit of its loop finds the `weak_ptr` expired, and the
  assertion at `server_ws_win.hpp:26` fails.

Exceptions that the properties of passing runs name, so that a change of the
code that removes one can tighten the property:

- `server_ws_win.hpp:58` with `server_ws_user_win.hpp:452, 503`: two locks in
  both orders; `server_ws_user_win.hpp:510`: a user that is never taken out of
  the list.
- `server_linux.hpp:68, 73`: a worker that fails closes the socket of all.
- `server_ws_win.hpp:258`: a loop leaves the bufferevents of its users behind;
  `:252, 358`: a watchdog without a loop.
- `server_win.hpp:389`: a loop that fails leaves the uploaders registered with it.
- `document.h:852`: the comment of `operator==` (line 848) says that an object with
  a name twice equals no object; the code looks for each name and finds the first
  member of it, so such an object may equal its copy. `ContainersExact` compares
  values without such objects.
- `heap_allocator.hpp:188`: free runs that the search does not find;
  `heap.hpp`: a request of no bytes adds a chunk every time.
- `static_frame.hpp:69`: `move_bck` forgets the rest of the frame;
  `dynamic_frame.hpp:28`: one slot too few until the frame is grown.
- `list.hpp:66`: destroying a removed node joins its old neighbours.
- `dataport_direct.hpp:33`: the header in the file is always zero and no record
  is read back; the first record has the address 0 that `get` refuses; `:56`: an
  address beyond 2 GB is -1.
- `biginteger.h:136, 199`: a shift by whole words, a borrow that meets a word of
  all ones.
- `regex.h`: `Search` reports no empty match in a text that is not empty;
  repeating without a bound what may be empty never returns; a count that wraps
  passes the overflow test (line 491).
- `encodings.h:224`: `TakeBOM` loses the bytes of an incomplete mark.
- `schema.h:825`: the schema of a value stays unset for a name only a pattern
  knows when `additionalProperties` is false; `schema.h:202`: the hash of members
  is symmetric; `schema.h:1068, 1082`: an unresolved `$ref` leaves a pointer
  unset.

Seen while reading and not the subject of a run: `_process_request` rejects all
compressed requests, because `server_win.hpp:480` compares the result of the
decompression with `LZO_E_INPUT_OVERRUN` instead of `LZO_E_OK`; `writer.h:338`
prints a double with `%.8f` into 32 characters; `PushBack` of an array's own
element reads it after the array has moved; a remote `$ref` takes one character
too few of its URI.

## 4. Proofs

| theorem | statement | for |
|---|---|---|
| `RingBuffer_proofs!RingIsIntact` | `Spec => []BlocksIntact` | any producers, size, alignment and requests, with and without guards |
| `RingBuffer_proofs!RingIsQueue` | `Spec => ImplementsQueue` | the same: the memory is the FIFO `MsgQueue`, step by step |
| `ChainExecutor_proofs!TokenInvariant` | `Spec => []TokenInv` | any clients, workers, keys, chains and jobs |
| `ChainExecutor_proofs!Exclusion` | `Spec => []ChainExclusive` | |
| `ChainExecutor_proofs!AssertionHolds` | `Spec => []PendingAsserted`, the assertion of `get_task` | |
| `ChainExecutor_proofs!NothingStranded` | `Spec => []NoStrandedTask` | |
| `ChainExecutor_proofs!SerialKeys` | `Spec => []KeySerial` | |
| `Threads_proofs!ThreadInvariant` | `Spec => []ThreadInv` | any producers, workers, messages and capacity |
| `Threads_proofs!OneConsumer` | `Spec => []SingleConsumer` | |
| `Threads_proofs!InOrder` | `Spec => []HandledInOrder` | |
| `Threads_proofs!BufferIsUsedRight` | `Spec => []BufferUsed` | the same |
| `ThreadPool_proofs!PoolIsSafe` | `Spec => []PoolSafe` | any clients, workers, tasks, callbacks and cycles |
| `Threads_proofs!WaitImplementsEvent` | `WaitSpec => ImplementsEvent` | any waiters, setters, sets and timeouts |
| `Threads_proofs!LinuxIsServed` | `ThreadsSpec => []LinuxServed` | any workers and runs |
| `Threads_proofs!PartsStayCorrect` | `ThreadsSpec => ImplementsEvent /\ []SingleConsumer /\ []HandledInOrder` | the model the run `threads` explores |
| `WebServer_proofs!AnsweredAtMostOnce` | `Spec => []AnsweredOnce` | any workers, clients, requests and runs |
| `WebServer_proofs!EventsUsedAlive` | `Spec => []EventsLive` | |
| `WsServer_proofs!UsersLive` | `Spec => []UsersExact` | any loops, users, application threads and runs |
| `WsConnection_proofs!StreamIsFaithful` | `Spec => []StreamFaithful` | any requests, keys, frames and numbers of them, in any portions |
| `WsConnection_proofs!CloseIsTheEnd` | `Spec => CloseEnds` | |
| `Library_proofs!MapImplements` | `LibrarySpec => ImplementsMap` | any keys, values, chunk sizes and chunks, all failures |
| `Library_proofs!CallbackCalledOnce` | `LibrarySpec => []CalledOnce` | any threads, keys and binds |
| `Library_proofs!ObjectsHaveOneOwner` | `LibrarySpec => []OneOwner` | any objects and capacity |
| `Library_proofs!RecordsKeepTheirAddress` | `LibrarySpec => []AddressIsRecord` | any threads, records of bytes, header and file sizes, widths of a position and writes that fail |
| `Library_proofs!StoresStayExact` | `LibrarySpec => []StoresExact` | any frame sizes, pushes, spline lengths and nodes |
| `Library_proofs!HeapStaysExact` | `LibrarySpec => []HeapExact` | any word and page sizes, chunks, requests and orders of release |
| `Library_proofs!LzoStaysExact` | `LibrarySpec => []LzoExact` | any inputs of bytes, blocks up to 49152 bytes, sizes of the dictionary and damage of one byte or by cutting off |

They rest on the named assumptions of the modules: bounds and sizes are
naturals, values that stand for nothing (`NoOne`, `Absent`) are not members of
the sets they are used beside, the owner of the WebSocket server is not one of
its loops, the data of the port are bytes. Of a WebSocket client they say that a
request ends with its only empty line and carries the key last, behind its
header's name and blanks, that frames are made of bytes, have lengths their form
can express and masks of four bytes. The index type of a frame counts beyond
twice its slots, and there are finitely many nodes. The compressor's input is
bytes, its blocks have 21 to 49152 of them, and the codes of single matches that
are looked at stand for three bytes or more from at most 49151 bytes back, which
is what the encoding can express. TLC evaluates all of them.

**Ring buffer.** `BlocksIntact` speaks of the blocks somebody uses and says
nothing of those between them, so it is not inductive: whether the next prefix
overwrites anything depends on all of them. `RingInv` therefore says that there
is a set of indices, the beginnings of all blocks, that covers what lies between
`_ix_read` and `_ix_write` without gaps or overlaps (`Covered`), that each has
its prefix and postfix (`Formed`), a committed one its message (`Committed`), an
owned one a single owner and the state busy (`Owned`), that what the consumer
has passed over is fake or skipped (`Consumed`), and that the one producer
inside `allocate` works behind `_ix_write` and, once the block fits, less than
the size of the buffer ahead of `_ix_read` (`Reserved`). The arithmetic is in
one lemma, `Slots`: masked indices less than the size apart are different slots.
A writing step is described once by the slots it changes; blocks that lie
elsewhere are kept (`BlockKept`, `OthersKept`). Publishing adds one or two
beginnings to the set; releasing drops those before the new `_ix_read`, of which
none is busy (`Advance`), which is why no owner loses its block. The proof never
uses that blocks do not cross the end of the array: that rule keeps a message
contiguous, it does not protect it.

For the refinement `QueueInv` adds how large the blocks are (`Sized`) and that
the blocks, numbered in the order of their beginnings, are the entries of the
queue (`Numbered`). What `parse` collects from the memory is then, by induction
along the blocks, the sequence of those that are not fake, and each step of the
buffer does to that sequence what the queue allows: publishing appends, resolving
changes one state, releasing drops the first.

**Chain executor.** `ChainExclusive` is not inductive: nothing in it prevents a
chain from being on the ready list while it is drained. The strengthening
`TokenInv` treats the right to run a chain as a token with one of three holders:
the client that decided to publish it, its entry on `_ready2work_list`, or the
worker draining it. `OneToken` says there is at most one, `TokenIffPending` ties
it to `_is_pending` (a token implies the flag; a chain with jobs is pending; a
pending chain that is owned has a token unless the pool stops), `Places` and
`Unborn` say what the locals and the chains not yet made look like. Each action
has a lemma that says where it moves the token: `AppendTask` creates it when the
flag was clear, `Publish` and `PopChain` hand it on, `GetNothing` gives it up
together with the flag. Steps that move no token share `NoTokenMoves`. For
`KeySerial` two facts are added (`SerialInv`): a key that nobody removes keeps
its one chain, and what was added to a chain is what ran, the job that runs now,
and what is still in its queue, in this order. The token makes "the job that
runs now" unique.

**Threaded handler.** `SingleConsumer` needs to know why nobody starts a second
worker: `ThreadInv` says that `_s` owns the only living thread, that `stop`
resets `_s` only after that thread has exited, and that a producer about to
start a thread holds `_state_block` and has seen none. `Places` (in the proofs
module) adds the types of the program counters. The interesting cases are
`stop` and `push` overlapping, which the lock does not prevent. `OrderInv` adds
that what was reserved is what was handled followed by what is queued (`Line`),
that a producer's busy block is its own (`Blocks`), and that the worker behind a
`peek` has the first message (`Reader`), for which there must be one worker.
For `BufferUsed` the invariant `Using` adds what a producer's block holds between
`allocate` and `commit`, and that no message is out while the worker peeks. It is
the half of the contract between the two that is the handler's to keep, as
`RingIsQueue` is the buffer's.

**Thread pool.** `PoolInv` accounts for every task that was added: it is in the
list, held by one worker, or has run, and never two of these (`ListInv`,
`WorkInv`, `RanInv`); a client's pointer leads to a node that it alone may
release (`OwnInv`), which is why erasing other nodes does not harm it; callbacks
a task holds are those `add_cb` accepted. For the debts of a cycle `ThreadsInv`
says that threads are started and joined in order, and `DebtInv` that a worker
which has decided to leave has seen a list without debts.

**Event.** The mapping takes the flag for the signal. A step of the mutex, a
notification or a wake-up stutters; the successful test, the last failing one
and the assignment of `set` are the steps of the event. The invariant is who
holds the mutex.

**Servers.** `LinuxInv` orders the phases of `run` and `stop` and says which
steps may have closed the socket (`LinuxSocket`). `WebInv` says why
a list of uploaders is looked at before its loop ends: as long as nothing was
late or aborted, a list that is not empty has an upload event pending ahead of
the watchdog, or a client about to activate it (`Attended`), and its entries
wait for their answer from where the handler is (`Listed`). `WsInv` says who
keeps a user alive at each step of a callback (`Callbacks`), that a thread calls
only users it holds, that a destroyed one has no holder (`Gone`), and that a
bufferevent has the loop that accepted it, or one that is over.

**Connection.** `StreamFaithful` compares what came out with what went in and says
nothing of a frame that is half read. `ConnInv` ties the step of the reader to
the watermark it asked for and to what it has of the frame. `StreamInv` says
where in the stream the reader is: the stream is the request followed by the
frames one behind the other (`Layout`), everything before the frame under way is
accounted for in the messages delivered and the fragments kept (`Accounted`), and
the bytes taken of the frame under way are its header, its length and its mask
(`Place`). Unmasking undoes masking because both are the same bitwise operation,
which is proved bit by bit; that `account`, a recursive function over the frames,
yields what the reader has assembled is an induction over the frames read.
`CloseEnds` follows from the same invariant: the step that answers a close leaves
the reader in a state without successors.

**Library.** `MapInv` is the partition of positions: every key has an active
object of its own, and the free positions are inactive ones, each once; the
lemmas about growing, taking and freeing are stated for arbitrary chunks and
lists, because an insertion that fails leaves some of them behind. `KeeperInv`:
a callback is in one place, the map or a thread's hand, or was called.
`CacheInv`: what is pooled is owned by nobody. `PortInv`: the bytes made of a
record are where its address says, and a thread that is alone has the end of the
file; a header of zeros holds no line feed and so begins these bytes as it is.

**Frames and rings.** `FrameInv` says that the slots shown are the last values
pushed in their order (`Shows`), and, because a frame that is grown or moved shows
slots it did not show before, also that no value is in two slots (`Distinct`) and
where the iterator of an empty frame stands (`AtNothing`). The arithmetic of the
indices needs the type to count beyond twice the slots: with a narrower one the
sum of iterator and offset wraps inside the frame. The spline's two frames hold
the points and the differences of the same pushes (`SplineHolds`). `LinkInv`:
`nprev` undoes `nnext` on the living nodes. That a walk along `nnext` comes back
is the pigeonhole principle (two of its steps are at one node) and going back
from there along `nprev` (`WalkComesBack`).

**Heap.** The invariant of a chunk (`ChunkInv`) lists what its blocks are: each is
on pages of its own or inside one page, they are apart, a page is marked free
exactly when none covers it, its usage is what the blocks that end on it hold
(`Held`, a sum over a set, shown not to depend on the order in which it is
taken), and some block ends on the active page, none behind the position. The
geometry is in one lemma, `SharedPage`: two blocks apart that cover one page both
end on it. Hence a block beside the active position meets no other, a run of free
pages is really empty, and a released block takes its inner pages with it and the
last one exactly if the usage drops to 0. The scan has a loop invariant
(`ScanInv`): behind each word either the run was found, or the beginning of one
that reaches to the end of that word, or nothing; and every run of free pages
that began before is the one carried over, or began behind the end of a free run
in the word before it, which is the case in which the code loses it.

**Compressor.** What holds compressor and decompressor together is a relation
between two positions, one in the compressed data and one in the input. `Leads`
says that from one such point a head, its literals and the code of a match that
repeats earlier input lead to another; a `Chain` is a set of points that lead to
each other from the beginning to what was written last, and in a `Stream` each
point leads to another or to the end marker. `EncInv` says that at every step of
`lzo1x_1_compress` a chain ends where the literals not yet written begin
(`enc.ii - enc.t`), whatever the dictionary held. The step from chain to longer
chain is not an append: up to three literals are counted in the low bits of the
last match, so bytes already written change (`Kept`), and it has to be shown that
the code read there is the same with any of its four values (`Coded`, `CodeRead`).
The dictionary enters only by offsets it yields: they point before `ip` in the
same block, hence less than 49152 back, and the bytes are compared. `ReadInv` is
the decompressor on a stream: at each of its labels it stands at a point, inside
the literals behind it, or at the code of a match, and has written the input up
to there; the end marker is read when all was. `BoundInv` is the decompressor
with tests on any data: it needs the bytes still covered by a test made earlier
(`BytesAhead`) as part of the state, because some labels read without a test
(`minilzo.c:5984` asks for three bytes in advance). The two halves need different
invariants: the decompressor without tests never satisfies the second, and
damaged data not the first.

The proofs required some changes that leave the behaviours as they were.
Definitions by overlapping cases became unambiguous (`WsServer.Destroy`,
`ServerLinux.Reply`, `HeapAllocator.ScanWord`); recursion is written as functions
with a name of their own, to which lemmas can refer (`RingBuffer.parse`,
`WsConnection.account`, `NodeList.walk`, `HeapAllocator.ScanWords`); `Asked` says
directly which chunk serves a request; `Headers` and `Closes` of `WsConnection`
name a sequence and a set that were written out before. Assumptions were spelled
out (`PortAssumption`, `MapConstants`, `SetsAssumption`, `RequestsAssumption`,
`KeysAssumption`, `FramesAssumption`, `ListAssumption`, `LzoAssumption`), and a conforming client
sends its control frames in one piece, as RFC 6455 demands and the code relies on.

What recursive functions compute for every input is proved by induction over sets
of numbers: `SetInduction`, from the library's well-founded orders, says that a
set which contains 0 and with each number the next contains all of them, and each
proof applies it to the set of the numbers for which its claim holds.

**Model-checked only.**

- All liveness properties: fairness and ENABLED are beyond the prover. With them
  the second half of `EventServes`.
- All of `json`: most of their modules use RECURSIVE operators, which the prover does
  not take.

## 5. What is not modelled

- **Left out whole**: the guards of `tools/blocker.hpp` (the locks themselves are
  variables of the modules that use them; `spin_blocker_infinite_flag`, which can
  unlock twice, has no user), `stack_allocator.hpp` and `memory/` (a pointer that
  moves, and declarations), floating-point formulas (`linear_different`, `point`,
  the polynomial of a spline's segment), formatting and parsing of single values,
  logging and wrappers of the operating system.
- **Of the carried libraries**: portability headers (`lzodefs.h`, `rapidjson.h`
  and the first half of `minilzo.c`), `lzo_adler32` and the self test of
  `lzo_init`, Grisu and `DiyFp`, which compute with 64-bit floating point, the
  SIMD variants of `SkipWhitespace`, streams that only forward, base64, remote
  references and the validating reader of the schema.
- **Inside the modelled parts**: weak memory orders, data races on plain `bool`
  and `std::function` members (`_stop`, `_f`), alignments below 16 in the ring
  buffer, moving a running thread pool, `swap` of two hash maps, a free list that
  cannot grow inside `erase`, exceptions thrown by uploaders, uploaders that call
  back into the server, connections that close while a request is held, the frames
  `send` builds and their encryption by OpenSSL,
  `register_uploader` of the WebSocket server, which activates an event the code
  never creates.

## 6. Plan

The modelling is complete as far as section 5 allows, and the safety properties of
all parts but rapidjson are proved. What is left are the parts of rapidjson whose
algorithms are loops (`BigInteger`, `JsonNumber`, `JsonText`), with recursive
functions in the place of RECURSIVE operators.
