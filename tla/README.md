# TLA+ models of the distributed file system

This directory holds TLA+ models of the two server programs and the client
in `src/`, and the TLC configurations that check them. Every module is translated from the C
source; `PROJECT.json` maps each definition to the lines it models.

## The system

- **Naming server** (`src/naming.c`). It keeps the index of every path, and
  has four parts:
  - A byte-level trie (`insert_path`, `search_path`, `search_path_two`,
    `mark_subtree_as_deleted/revived`).
  - A registry of storage servers (`storage_servers[]`, positions
    `0..server_count-1`), each with `socket_fd`, `is_server_down`,
    `path_list` and two backup positions.
  - A small result cache (`cache_lookup`, `cache_insert`,
    `remove_paths_from_cache`).
  - Two kinds of thread:
    - `storage_server_thread` per storage connection: registration, the
      async-write messages, disconnect.
    - `handle_client` per client: READ/WRITE/INFO/STREAM resolution,
      CREATE, DELETE, COPY, LIST.

  Commands reach storage nodes with `send_command_to_storage`, which writes
  to the stored `socket_fd`. Replication copies each path to two backups and
  inserts a shadow key `Backup1<path>` / `Backup2<path>` owned by the backup.
- **Storage server** (`src/storage.c`). It serves files from its disk:
  - One thread per client connection (`handle_client`: READ, WRITE, FETCH,
    STORE, INFO, STREAM).
  - One thread for commands from the naming server (CREATE, DELETE, COPY,
    STOP).

  Access to each file goes through a `FileAccessControl` record from a fixed
  table (`MAX_FILES`), which holds `write_mutex`, `read_mutex` and
  `read_count`. Large writes run in a separate `async_write_handler` thread,
  which reports progress to the naming server.
- **Client** (`src/client.c`). It connects to the naming server, sends a
  greeting, and starts a listener thread (`listen_to_ns`) that stores every
  address, not-found or unknown-command reply in one shared buffer
  (`latest_IP_and_things_recieved_from_the_ns`). The main loop sends each
  typed command, sleeps about a second, copies that buffer, and for READ,
  WRITE, INFO and STREAM connects to the storage node it names.
- `src/trie.c` is an unused copy of
  a trie; naming.c does not include it. The `*_test.c` files are test
  drivers.

## Modules

| Module | Models |
|---|---|
| `AccessGate` | Abstract per-path read/write gate of spec §4.5: readers and at most one writer, never both. |
| `FileAccess` | The storage node's access control: every handler that touches a `FileAccessControl`, step by step. |
| `MCFileAccess` | Model values for threads and paths. |
| `NamingIndex` | The naming server's trie, registry, cache and the READ/CREATE/DELETE handlers, plus the disks of the storage nodes as far as the naming server changes them. |
| `MCNamingIndex` | Three nodes, three descriptors, paths as byte sequences. |
| `AsyncWrite` | The write notification pipeline for one path: the storage node's sync and async write handlers, the control connection, and the naming server's message loop that relays notices and mirrors the file to backups. |
| `MCAsyncWrite` | A primary with two backups and three writes. |
| `ClientSession` | One client's main loop and listener thread, the two TCP streams to and from the naming server, and the naming server's `handle_client` for that client. |
| `MCClientSession` | Two nodes and two paths, one of them held by a node. |

### FileAccess

State:
- `pc[t]`: where thread `t` is inside its handler.
- `path[t]`.
- `controls`: which paths have a table entry.
- `wLock[p]`, `rLock[p]`: the holder of each mutex, or `NoThread`.
- `readCount[p]`.
- `chunks[t]`: async chunks written.
- `notices[t]`: notifications sent to the naming server.
- `crashed`: a NULL `FileAccessControl` was dereferenced.

Threads are the client connections (`Threads`) and the naming-command thread
(`Ctl`). Each action is one mutex operation, or the code between two of them:
- `ReadTry..ReadRelease` is `send_file_content`.
- `WriteTry/WriteSync/WriteClose` is sync `receive_file_content`.
- `AsyncOpen/AsyncChunk` is `async_write_handler`.
- `FetchTry..FetchSend` and `StoreTry..StoreWrite` are FETCH and STORE,
  including the detached `async_file_write`.
- `StreamOpen/StreamDone` is `send_audio_file`, which takes no lock.
- `CtlDelete/CtlDeleteCheck/CtlStop` are the naming commands.

Mutexes are modelled as glibc's default mutex: a blocking lock waits until
the mutex is free, a trylock fails at once, and unlock does not check the
owner. That last point matters, because the last reader unlocks the
`write_mutex` the first reader locked, and the async thread unlocks the
client thread's lock.

`FileAccess` refines `AccessGate`:
- `GateReaders` maps the readers that are between their two `read_mutex`
  sections with the gate held.
- `GateWriter` maps the writer holding `write_mutex` for its write. After
  the unlock, the `fclose` of a sync write (`w_close`) is outside the writer.
  The command thread is also the writer once DELETE's check step has
  removed the file: it keeps `write_mutex` from then on (storage.c:517).
- `GateRefinement` (`Gate!Spec`) is checked as a temporal property. FETCH,
  STORE and STREAM do not pass the gate and are not mapped.
  `ReadsFailFast` covers them, and it also covers the `fclose` window.

### NamingIndex

Paths are sequences of byte tokens, so a byte prefix in the C trie is
`IsPrefix`, and `d/f2` extends `d/f` just as it does in the trie.

The trie is three variables:
- `endp`: the end-of-path keys.
- `deleted`: keys whose `is_deleted` is set.
- `owner`: the server pointer of each key, as a registry position.

An intermediate trie node exists exactly when some key extends it. The
recursive `WalkClear` follows `search_path`'s loop, which gives up at any
deleted node on the way.

The registry is `count`, `addr`, `down`, `sockfd`, `pathList`, `backup` and
`bufferBack` (`buffer_back`). The cache is a sequence of
`[path, idx]` records. `disk[n]` is what node `n` holds, and `conn[n]` is the
descriptor of its open control connection. `openFds` are the descriptors in
use: the OS hands a closed number to the next connection.

Actions:
- `Register` is `storage_server_thread` up to its message loop. It is either
  `ReRegister` (a known ip/port: revive with `search_path_two`, then
  `parse_and_store_files`; `socket_fd` is not updated) or `NewRegister`
  (`realloc`, backup choice, the backup snapshot at the third node, then
  `parse_and_store_files`).
- `Disconnect` is the STOP / recv-error branch.
- `Read`, `Create` and `Delete` are the client handlers, each one step,
  including their `cache_insert` and `remove_paths_from_cache`.
- The copies `perform_copy_between_servers` makes (`CopyShadows`) and the
  commands sent by descriptor (`Receivers`) change `disk`.

Modelling choices that come from the code:
- Eviction may pick any entry: `last_accessed` has one-second resolution.
- The backup choice ranges over every pair that `rand()` can produce.
- CREATE formats `File: <path>` (or `Directory: <path>`) into a buffer and
  parses it, so the path is inserted for the parent's position, with its
  shadows. This happens whether or not any node managed to create the path.
- A storage node's `fopen`/`mkdir` for CREATE may fail, and its DELETE may
  answer busy (`\E made/ok \in SUBSET ...`). The failure is only printed.

### AsyncWrite

File contents are `[w, k]`: the first `k` chunks of write `w`. `disk[n]`
is what node `n` holds. Storage side:
- `task` is the async task holding the gate.
- `sclose` are the sync writers that have unlocked but not yet run `fclose`.
- `next` is the next client WRITE.
- `alive` says whether the process runs.

The control connection `ctl` is an ordered, reliable sequence of messages.
`sentLog` is a history variable that records everything the node sent.
Naming-server side, `nsFlag` and `nsWriter` are `is_async_write_in_progress`
and `async_writer_socket`, and `out` holds the notices it has relayed.

Actions:
- `WriteAsync` and `WriteSync` are the two branches of
  `receive_file_content`, including the `pthread_create` and `fopen` failure
  paths.
- `SyncClose` is the `fclose` that follows the unlock.
- `AsyncOpen`, `AsyncChunk` (`fwrite` and PROGRESS), `AsyncFlush` and
  `AsyncClose` are `async_write_handler`.
- `Crash` stops the process. What it sent is still delivered, and buffered
  data is lost.
- `NsRecv` is one `recv` of the message loop. It may read several messages at
  once, because nothing delimits them, and then acts on the first only. That
  message's `%s` path runs into the next message, so `path_exists` fails.
- `Mirror` is `perform_copy_between_servers` to each valid backup: a FETCH
  of the primary's current file, then a STORE.
- `NsDisconnect` is the end-of-stream branch.

### ClientSession

State:
- `cpc`: the main loop is at the prompt, waiting out its sleep after a
  lookup (`cur` is the request), or has exited.
- `toNs`, `fromNs`: the bytes in flight on each stream, as sequences of
  requests and replies. A `recv` or `read` takes the first `j` of them.
- `latest`: the listener's shared buffer, the replies of its last read.
- `where[p]`: the node the naming server resolves `p` to, or `NoNode`. The
  resolution itself is NamingIndex's; here only its answer matters.
- `nsLog`, `contacts`: history variables, every reply sent and every storage
  node the client connected to. Requests and replies carry a request id and
  path that are not on the wire.

Actions:
- `Send` is one turn of `send_request_to_ns` up to the `sleep`: LIST,
  CREATE and DELETE go straight back to the prompt. Its two `strstr` checks
  look at the request buffer, so they never fire.
- `Decide` is the rest of the turn: copy `latest`, give up on "Unknown
  command" or "File not found", else connect to the first address.
- `ListenerRecv` is one `read` of `listen_to_ns`.
- `NsHandle` is one `recv` of `handle_client`. With more than one request in
  the buffer the first's path runs into the next one, so it is not found,
  and the rest are lost. `Handle` sends the reply of each command, or none:
  a found DELETE and a successful CREATE send nothing to the client.
- `Idle` stutters when nothing is in flight and the user may type no more.

## Runs

The cfgs fix the constants through `MCFileAccess`, `MCNamingIndex`,
`MCAsyncWrite` and `MCClientSession`.
Passing runs also have a mutant per property in `PROJECT.json`: a plausible
bug in the mapped code, for which TLC finds that property violated.

| Run | Checks | Result |
|---|---|---|
| `FileAccess.cfg` | `TypeOK`, `GateRefinement`, `AsyncGateReleased` with two threads, two paths, a one-entry table, two chunks, all five client operations and DELETE/STOP. | passes, about 59,000 states |
| `FileAccessLockLeak.cfg` | `MutexesReleased` (liveness): every locked mutex is eventually unlocked unless the process died. One client thread (so readers cannot keep the gate busy by overlapping) and the command thread, READ, FETCH, STORE and DELETE on one path. | violated: TLC's trace shows a successful DELETE that never unlocks `write_mutex` (storage.c:517), then a STORE whose `pthread_create` fails and keeps `read_mutex` (1063). The same run also reaches a failed FETCH send that keeps `read_mutex` (1239) and the READ/DELETE lock-order deadlock (506). |
| `FileAccessFailFast.cfg` | `ReadsFailFast` (spec §4.5, §6): nobody reads a file while another thread modifies it, and a READ past its trylock never blocks on a writer's `write_mutex`. READ, WRITE and STREAM. | violated: STREAM takes no lock (storage.c:1307). Without STREAM: a READ blocks on a sync writer that slipped in after the undone trylock (1347), or reads while the writer's `fclose` is pending (1486) |
| `NamingIndex.cfg` | `TypeOK` and `DeleteHides` (spec §4.4, §8 scenario D). After DELETE p, `path_exists` finds neither p nor its shadows, however p was located: a cache hit on a down or aliased position, or a shadow. Two files, READ and DELETE, n1 may reconnect, cache of one. | passes, about 204,000 states |
| `NamingIndexCreate.cfg` | `TypeOK` and `CreateResolves` (spec §4.4). A CREATE of an absent path whose parent is found leaves that path resolvable, even when the parent was found only through the cache or a backup shadow after a disconnect soft-deleted it. READ and CREATE of `d/g` under `d`, each node connecting once, cache of two. | passes, about 162,000 states |
| `NamingIndexSubtree.cfg` | `DeleteOnlyItsTree`. | violated: DELETE d/f hides d/f2 (naming.c:313) |
| `NamingIndexResolve.cfg` | `ResolutionSound` (action property, spec §7): a READ or a DELETE reaches the live node that holds the path, and the cache records the position the path resolved to. | violated: a re-registered node keeps its closed `socket_fd`, so DELETE is written to a descriptor nobody reads (naming.c:2084). Also reachable: the cache records an aliased position (1793), a re-registration revives deleted paths and READ sends the client to a node without the file (1502), and `insert_path` marks a disconnected node up and READ sends the client to it (307, 1808). |
| `AsyncWrite.cfg` | `TypeOK`, `FinalNoticeOnce` (an async task sends one final notice and nothing after it, never WRITE_SUCCESS), `TaskEndsNotified` (a started task ends with its notice unless the node dies). Async, sync and async writes with all failure paths, crashes and merged `recv`s. | passes, about 14,500 states |
| `AsyncWriteConverge.cfg` | `BackupsConverge` (spec §5): once the node is quiet, the backups hold the primary's file. | violated: the naming server mirrors on PROGRESS (before `fflush`) and WRITE_SUCCESS (before `fclose`), never on ASYNC_WRITE_SUCCESS, and a merged `recv` skips the copy (naming.c:1626) |
| `AsyncWriteReported.cfg` | `WritesReported` (liveness, spec §4.5, §7): every accepted write ends with one notice to the naming server unless the node dies. | violated: a sync write whose `fopen` fails (storage.c:1467) and an async write whose `pthread_create` fails (1443) unlock without a notice |
| `ClientSession.cfg` | `TypeOK` and `AddressesFromNs` (the client connects only to a node the naming server named), with up to three commands among READ, WRITE, DELETE, CREATE_F and an unknown one. | passes, about 52,000 states |
| `ClientSessionStale.cfg` | `ContactsNamedNode` (spec §7): the client connects, for a path, to a node the naming server named for that path. | violated: an answer later than the client's sleep is read by the next request (client.c:319) |

`PROJECT.json` (`findings`) explains each violation, and `hazards` lists what
in the code is hard to test, with the property that covers it.

## Bounds

FileAccess:
- Two threads are the fewest that can interleave, and with the command thread
  there are three actors, enough for the reader/DELETE deadlock.
- Two paths and `MaxFiles = 1` make the table fill up, so the NULL-entry
  paths happen.
- Two chunks give an async write a progress step between open and finish.
- The lock-leak run uses one client thread and one path. One reader and the
  command thread are enough for every leak and for the deadlock. A second
  client thread would let two readers take turns holding `write_mutex`
  forever, which is writer starvation, not a lost unlock.

NamingIndex:
- Three nodes are the fewest for which backups exist (`REPLICATION_FACTOR`
  is 3).
- Three descriptors let a reconnection reuse a closed number while the other
  nodes hold theirs.
- In the READ/DELETE runs, node n1 may connect twice, which is enough for
  re-registration and descriptor aliasing. The other nodes connect once.
- `d/f` and `d/f2` share a byte prefix that is not a path prefix.
- The CREATE run creates `d/g`, whose bytes do not extend `d/f`. A created
  `d/f2` under a deleted `d/f` is unresolvable, which is the byte-prefix
  defect `NamingIndexSubtree.cfg` reports. Avoiding it lets `CreateResolves`
  test parent resolution and shadows. Each node connects once, which keeps
  the run within minutes. Its three registrations still make the backup
  snapshot and disconnects happen.
- Cache sizes of 1 and 2 make eviction happen in both passing runs.

AsyncWrite:
- Two chunks give an async write a PROGRESS before its last flush.
- Three writes (async, sync, async) let a write begin while a sync writer's
  `fclose` is still pending.
- Two backups are what the registry assigns once three nodes exist.

ClientSession:
- Three requests are enough for one reply to be late for its request and
  read by the next, and for two requests to share one `recv`.
- Two paths, one held by a node, give both an address and a not-found reply.
- Two nodes let CREATE place a file on either.

The two naming runs are split by command because READ, CREATE and DELETE
together with three paths do not finish within minutes.

## Fairness

`FileAccess` assumes weak fairness on every step of a request already in
progress, and on DELETE's second step. The OS schedules runnable threads, so
a thread inside a handler eventually runs. New requests are never forced,
because clients may stay silent. `AsyncGateReleased` and `MutexesReleased`
rely on this: a thread that can run does, so a mutex stays locked forever
only when nobody will unlock it or everyone who would is blocked.

`NamingIndex` checks only safety, so it assumes no fairness.

`AsyncWrite` assumes weak fairness on every storage step of a write in
progress, on `SyncClose`, and on the naming server's `NsRecv` and
`NsDisconnect`. These threads are runnable whenever their action is enabled.
New writes and crashes are never forced. `TaskEndsNotified`,
`WritesReported` and `BackupsConverge` rely on this fairness. `Terminated` is the stutter after
both processes have stopped, so the runs check deadlock.

`ClientSession` checks only safety, so it assumes no fairness. `Idle` is the
stutter once nothing is in flight and the user types no more.

`CHECK_DEADLOCK FALSE` is set in the FileAccess runs because the storage node
really can stop: threads hang in the deadlock, or the process dies on a NULL
entry. The NamingIndex and ClientSession runs check deadlock.

## What is not modelled

- trie.c and the test programs (see `PROJECT.json`, components).
- The client's connections to storage nodes: a contact is recorded where
  `connect_and_read_from_ss` and the other helpers would run. So a client
  blocked in their `read` on a storage node that never answers (one hung in
  the FileAccess deadlock, say) is not modelled, and no property says that
  a lookup returns to the prompt. Also WRITE's
  sync prompt, STREAM's `.mp3` and `mpv` checks, and the client's LIST and
  COPY.
- COPY, LIST and STOP of the naming server.
- Which process receives a relayed notice. The naming server addresses it
  by a number that is the storage node's own descriptor. `out` records
  notices by write id.
- The directory case of `perform_copy_between_servers`, and the STORE at a
  backup being itself asynchronous (`Mirror` applies the copy at once).
- INFO at the storage node: one `stat` and a reply, with no lock and no
  state the model tracks. File contents in FileAccess (AsyncWrite has them).
- Interleaving inside a naming-server handler. Each handler is one atomic
  step, so the unlocked check-then-act in CREATE, the data races on the trie,
  `realloc` moving the registry under other threads, and the double `close`
  of a storage socket are listed as hazards without a property.
- Socket framing, logging and process start-up.
