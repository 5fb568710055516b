----------------------------- MODULE FileAccess -----------------------------
(***************************************************************************)
(* The storage node's per-file access control (src/storage.c).             *)
(*                                                                         *)
(* Every path has a FileAccessControl record, created on first use by      *)
(* get_file_access in a fixed table of MAX_FILES entries, holding two      *)
(* pthread mutexes (write_mutex, read_mutex) and read_count.  The handlers *)
(* that touch it run in one thread per client connection (handle_client)   *)
(* and in the single thread that reads commands from the naming server     *)
(* (naming_server_communication_thread, here Ctl):                         *)
(*   READ   send_file_content     trylock/unlock write, then reader count  *)
(*   WRITE  receive_file_content  trylock write, sync write or async task  *)
(*   FETCH  handle_client FETCH   reader count only (replication source)   *)
(*   STORE  handle_client STORE   reader count, then an unlocked write     *)
(*   STREAM send_audio_file       no lock at all                           *)
(*   DELETE naming command        trylock write, then read_mutex           *)
(* A thread's position inside its handler is pc[t]; each step is one mutex *)
(* operation or one block of code between two of them.  File contents are  *)
(* abstracted away: what matters is which thread reads or modifies the     *)
(* file while which mutex is held.                                         *)
(***************************************************************************)
EXTENDS Naturals, FiniteSets

CONSTANTS
    Threads,     \* client-connection threads of handle_client_thread
    Ctl,         \* the naming-server command thread
    NoThread,    \* "mutex unlocked"
    Paths,       \* file paths requested
    MaxFiles,    \* MAX_FILES, capacity of file_access_controls
    NChunks,     \* chunks of an async write: data_size / CHUNK_SIZE, rounded up
    ClientOps,   \* requests clients issue, a subset of ClientRequests
    CtlOps       \* commands the naming server issues, a subset of {"DELETE", "STOP"}

ClientRequests == {"READ", "WRITE", "FETCH", "STORE", "STREAM"}

ASSUME /\ Ctl \notin Threads /\ NoThread \notin Threads \cup {Ctl}
       /\ MaxFiles \in Nat /\ NChunks \in Nat \ {0}
       /\ ClientOps \subseteq ClientRequests /\ CtlOps \subseteq {"DELETE", "STOP"}

Actors == Threads \cup {Ctl}

VARIABLES
    pc,          \* pc[t]: where thread t is in its handler
    path,        \* path[t]: the path of t's current request
    controls,    \* paths that own an entry of file_access_controls
    wLock,       \* wLock[p]: holder of write_mutex of p, or NoThread
    rLock,       \* rLock[p]: holder of read_mutex of p, or NoThread
    readCount,   \* readCount[p]: read_count of p
    chunks,      \* chunks[t]: bytes_written of t's async task, in chunks
    notices,     \* notices[t]: terminal notices sent upstream for t's write
    crashed      \* the storage process died (NULL FileAccessControl dereferenced)

vars == <<pc, path, controls, wLock, rLock, readCount, chunks, notices, crashed>>

PCs == {"idle",
        "r_unlock_w", "r_lock_r", "r_lock_w", "r_unlock_r", "r_serve",
        "w_sync", "w_close", "a_open", "a_chunk",
        "f_lock", "f_send", "s_lock", "s_spawn", "s_write",
        "m_serve", "d_lock_r", "dead"}

TypeOK ==
    /\ pc \in [Actors -> PCs]
    /\ path \in [Actors -> Paths]
    /\ controls \subseteq Paths /\ Cardinality(controls) <= MaxFiles
    /\ wLock \in [Paths -> Actors \cup {NoThread}]
    /\ rLock \in [Paths -> Actors \cup {NoThread}]
    /\ readCount \in [Paths -> Nat]
    /\ chunks \in [Threads -> 0..NChunks]
    /\ notices \in [Threads -> 0..2]
    /\ crashed \in BOOLEAN

Init ==
    /\ pc = [t \in Actors |-> "idle"]
    /\ path \in [Actors -> Paths]
    /\ controls = {}
    /\ wLock = [p \in Paths |-> NoThread]
    /\ rLock = [p \in Paths |-> NoThread]
    /\ readCount = [p \in Paths |-> 0]
    /\ chunks = [t \in Threads |-> 0]
    /\ notices = [t \in Threads |-> 0]
    /\ crashed = FALSE

-----------------------------------------------------------------------------
(* get_file_access: the entry of p exists or a free slot remains.          *)
HasAccess(p) == p \in controls \/ Cardinality(controls) < MaxFiles

GetFileAccess(p) ==
    controls' = IF HasAccess(p) THEN controls \cup {p} ELSE controls

Goto(t, l) == pc' = [pc EXCEPT ![t] = l]

SetLock(lk, p, t) == [lk EXCEPT ![p] = t]

-----------------------------------------------------------------------------
(* READ: send_file_content.  Either no entry (error reply), or write_mutex *)
(* is busy (fail fast), or the trylock succeeds and t holds write_mutex.   *)
ReadTry(t, p) ==
    /\ pc[t] = "idle"
    /\ path' = [path EXCEPT ![t] = p]
    /\ GetFileAccess(p)
    /\ \/ /\ ~HasAccess(p) \/ wLock[p] # NoThread
          /\ UNCHANGED <<pc, wLock>>
       \/ /\ HasAccess(p) /\ wLock[p] = NoThread
          /\ wLock' = SetLock(wLock, p, t)
          /\ Goto(t, "r_unlock_w")
    /\ UNCHANGED <<rLock, readCount, chunks, notices, crashed>>

(* The trylock is undone at once "for proper read control".                *)
ReadUnlockW(t) ==
    /\ pc[t] = "r_unlock_w"
    /\ wLock' = SetLock(wLock, path[t], NoThread)
    /\ Goto(t, "r_lock_r")
    /\ UNCHANGED <<path, controls, rLock, readCount, chunks, notices, crashed>>

(* Mutant: the first reader does not lock write_mutex.                     *)
ReadLockRNoGate(t) ==
    LET p == path[t] IN
    /\ pc[t] = "r_lock_r"
    /\ rLock[p] = NoThread
    /\ rLock' = SetLock(rLock, p, t)
    /\ readCount' = [readCount EXCEPT ![p] = @ + 1]
    /\ Goto(t, "r_unlock_r")
    /\ UNCHANGED <<path, controls, wLock, chunks, notices, crashed>>

(* lock(read_mutex); read_count++; the first reader goes on to lock        *)
(* write_mutex while still holding read_mutex.                             *)
ReadLockR(t) ==
    LET p == path[t] IN
    /\ pc[t] = "r_lock_r"
    /\ rLock[p] = NoThread
    /\ rLock' = SetLock(rLock, p, t)
    /\ readCount' = [readCount EXCEPT ![p] = @ + 1]
    /\ Goto(t, IF readCount[p] + 1 = 1 THEN "r_lock_w" ELSE "r_unlock_r")
    /\ UNCHANGED <<path, controls, wLock, chunks, notices, crashed>>

(* Blocking lock(write_mutex) by the first reader.                         *)
ReadLockW(t) ==
    /\ pc[t] = "r_lock_w"
    /\ wLock[path[t]] = NoThread
    /\ wLock' = SetLock(wLock, path[t], t)
    /\ Goto(t, "r_unlock_r")
    /\ UNCHANGED <<path, controls, rLock, readCount, chunks, notices, crashed>>

ReadUnlockR(t) ==
    /\ pc[t] = "r_unlock_r"
    /\ rLock' = SetLock(rLock, path[t], NoThread)
    /\ Goto(t, "r_serve")
    /\ UNCHANGED <<path, controls, wLock, readCount, chunks, notices, crashed>>

(* After serving (or failing to open or to send) the reader takes          *)
(* read_mutex, decrements read_count and, if it was the last reader,       *)
(* unlocks write_mutex, whichever reader locked it: glibc's default mutex  *)
(* does not check the owner on unlock.                                     *)
ReadRelease(t) ==
    LET p == path[t] IN
    /\ pc[t] = "r_serve"
    /\ rLock[p] = NoThread
    /\ readCount' = [readCount EXCEPT ![p] = @ - 1]
    /\ wLock' = IF readCount[p] - 1 = 0 THEN SetLock(wLock, p, NoThread) ELSE wLock
    /\ Goto(t, "idle")
    /\ UNCHANGED <<path, controls, rLock, chunks, notices, crashed>>

-----------------------------------------------------------------------------
(* WRITE: receive_file_content.  mode is what process_command decided:     *)
(* "sync" for --SYNC or short data, "async" for data over ASYNC_THRESHOLD. *)
WriteTry(t, p, mode) ==
    /\ pc[t] = "idle"
    /\ path' = [path EXCEPT ![t] = p]
    /\ GetFileAccess(p)
    /\ notices' = [notices EXCEPT ![t] = 0]
    /\ chunks' = [chunks EXCEPT ![t] = 0]
    /\ \/ /\ ~HasAccess(p) \/ wLock[p] # NoThread      \* error or busy reply
          /\ UNCHANGED <<pc, wLock>>
       \/ /\ HasAccess(p) /\ wLock[p] = NoThread /\ mode = "sync"
          /\ wLock' = SetLock(wLock, p, t)
          /\ Goto(t, "w_sync")
       \/ /\ HasAccess(p) /\ wLock[p] = NoThread /\ mode = "async"
          /\ \/ /\ wLock' = SetLock(wLock, p, t)      \* task thread created
                /\ Goto(t, "a_open")
             \/ /\ UNCHANGED <<pc, wLock>>             \* pthread_create failed: unlock
    /\ UNCHANGED <<rLock, readCount, crashed>>

(* fopen "w" truncates the file; fputs only fills the stdio buffer.  On    *)
(* success the client is answered, WRITE_SUCCESS goes to the naming        *)
(* server, write_mutex is unlocked, and only then fclose flushes the data. *)
WriteSync(t) ==
    /\ pc[t] = "w_sync"
    /\ wLock' = SetLock(wLock, path[t], NoThread)
    /\ \/ /\ Goto(t, "idle")                            \* fopen failed
          /\ UNCHANGED notices
       \/ /\ Goto(t, "w_close")
          /\ notices' = [notices EXCEPT ![t] = @ + 1]
    /\ UNCHANGED <<path, controls, rLock, readCount, chunks, crashed>>

WriteClose(t) ==
    /\ pc[t] = "w_close"
    /\ Goto(t, "idle")
    /\ UNCHANGED <<path, controls, wLock, rLock, readCount, chunks, notices, crashed>>

(* async_write_handler: fopen, then one ASYNC_WRITE_PROGRESS per chunk,    *)
(* then ASYNC_WRITE_SUCCESS and unlock; on fopen failure ASYNC_WRITE_FAIL  *)
(* and unlock.                                                             *)
(* Mutant: the fopen-failure path of async_write_handler does not unlock. *)
AsyncOpenNoUnlock(t) ==
    /\ pc[t] = "a_open"
    /\ \/ /\ notices' = [notices EXCEPT ![t] = @ + 1]
          /\ Goto(t, "idle")
          /\ UNCHANGED wLock
       \/ /\ Goto(t, "a_chunk")
          /\ UNCHANGED <<wLock, notices>>
    /\ UNCHANGED <<path, controls, rLock, readCount, chunks, crashed>>

(* Mutant: the chunk loop runs while bytes_written <= data_size.           *)
AsyncChunkOffByOne(t) ==
    /\ pc[t] = "a_chunk"
    /\ \/ /\ chunks[t] <= NChunks
          /\ chunks' = [chunks EXCEPT ![t] = @ + 1]
          /\ UNCHANGED <<pc, wLock, notices>>
       \/ /\ chunks[t] = NChunks
          /\ notices' = [notices EXCEPT ![t] = @ + 1]
          /\ wLock' = SetLock(wLock, path[t], NoThread)
          /\ Goto(t, "idle")
          /\ UNCHANGED chunks
    /\ UNCHANGED <<path, controls, rLock, readCount, crashed>>

AsyncOpen(t) ==
    /\ pc[t] = "a_open"
    /\ \/ /\ wLock' = SetLock(wLock, path[t], NoThread)
          /\ notices' = [notices EXCEPT ![t] = @ + 1]
          /\ Goto(t, "idle")
       \/ /\ Goto(t, "a_chunk")
          /\ UNCHANGED <<wLock, notices>>
    /\ UNCHANGED <<path, controls, rLock, readCount, chunks, crashed>>

AsyncChunk(t) ==
    /\ pc[t] = "a_chunk"
    /\ \/ /\ chunks[t] < NChunks
          /\ chunks' = [chunks EXCEPT ![t] = @ + 1]
          /\ UNCHANGED <<pc, wLock, notices>>
       \/ /\ chunks[t] = NChunks
          /\ notices' = [notices EXCEPT ![t] = @ + 1]
          /\ wLock' = SetLock(wLock, path[t], NoThread)
          /\ Goto(t, "idle")
          /\ UNCHANGED chunks
    /\ UNCHANGED <<path, controls, rLock, readCount, crashed>>

-----------------------------------------------------------------------------
(* FETCH: a peer (the naming server mirroring a write) pulls the file.     *)
(* stat/access/fopen failures answer an error and take no lock;            *)
(* get_file_access is not checked for NULL.                                *)
FetchTry(t, p) ==
    /\ pc[t] = "idle"
    /\ path' = [path EXCEPT ![t] = p]
    /\ \/ /\ UNCHANGED <<pc, controls, crashed>>       \* missing, directory, unopenable
       \/ /\ GetFileAccess(p)
          /\ IF HasAccess(p) THEN Goto(t, "f_lock") /\ UNCHANGED crashed
                             ELSE crashed' = TRUE /\ UNCHANGED pc
    /\ UNCHANGED <<wLock, rLock, readCount, chunks, notices>>

FetchLock(t) ==
    LET p == path[t] IN
    /\ pc[t] = "f_lock"
    /\ rLock[p] = NoThread
    /\ rLock' = SetLock(rLock, p, t)
    /\ readCount' = [readCount EXCEPT ![p] = @ + 1]
    /\ Goto(t, "f_send")
    /\ UNCHANGED <<path, controls, wLock, chunks, notices, crashed>>

(* The whole file is sent with read_mutex held.  A failed send returns     *)
(* from handle_client without undoing read_count++ or the lock.            *)
FetchSend(t) ==
    LET p == path[t] IN
    /\ pc[t] = "f_send"
    /\ \/ /\ readCount' = [readCount EXCEPT ![p] = @ - 1]
          /\ rLock' = SetLock(rLock, p, NoThread)
       \/ UNCHANGED <<readCount, rLock>>
    /\ Goto(t, "idle")
    /\ UNCHANGED <<path, controls, wLock, chunks, notices, crashed>>

-----------------------------------------------------------------------------
(* STORE: a peer pushes file contents (replication target).  "JUST" only   *)
(* creates a directory; otherwise the write runs in a detached             *)
(* async_file_write thread that takes no lock at all.                      *)
StoreTry(t, p) ==
    /\ pc[t] = "idle"
    /\ path' = [path EXCEPT ![t] = p]
    /\ \/ /\ UNCHANGED <<pc, controls, crashed>>       \* "JUST", or malloc failed
       \/ /\ GetFileAccess(p)
          /\ IF HasAccess(p) THEN Goto(t, "s_lock") /\ UNCHANGED crashed
                             ELSE crashed' = TRUE /\ UNCHANGED pc
    /\ UNCHANGED <<wLock, rLock, readCount, chunks, notices>>

StoreLock(t) ==
    LET p == path[t] IN
    /\ pc[t] = "s_lock"
    /\ rLock[p] = NoThread
    /\ rLock' = SetLock(rLock, p, t)
    /\ readCount' = [readCount EXCEPT ![p] = @ + 1]
    /\ Goto(t, "s_spawn")
    /\ UNCHANGED <<path, controls, wLock, chunks, notices, crashed>>

(* pthread_create of async_file_write: on failure handle_client returns    *)
(* with read_mutex held and read_count incremented.                        *)
StoreSpawn(t) ==
    LET p == path[t] IN
    /\ pc[t] = "s_spawn"
    /\ \/ /\ readCount' = [readCount EXCEPT ![p] = @ - 1]
          /\ rLock' = SetLock(rLock, p, NoThread)
          /\ Goto(t, "s_write")
       \/ /\ UNCHANGED <<readCount, rLock>>
          /\ Goto(t, "idle")
    /\ UNCHANGED <<path, controls, wLock, chunks, notices, crashed>>

StoreWrite(t) ==
    /\ pc[t] = "s_write"
    /\ Goto(t, "idle")
    /\ UNCHANGED <<path, controls, wLock, rLock, readCount, chunks, notices, crashed>>

-----------------------------------------------------------------------------
(* STREAM: process_command calls send_audio_file, which opens the file and *)
(* sends it in fread chunks, then sleeps, sends "EOF" and closes it,       *)
(* without get_file_access or any mutex.                                   *)
StreamOpen(t, p) ==
    /\ pc[t] = "idle"
    /\ path' = [path EXCEPT ![t] = p]
    /\ \/ UNCHANGED pc                                   \* fopen failed
       \/ Goto(t, "m_serve")
    /\ UNCHANGED <<controls, wLock, rLock, readCount, chunks, notices, crashed>>

StreamDone(t) ==
    /\ pc[t] = "m_serve"
    /\ Goto(t, "idle")
    /\ UNCHANGED <<path, controls, wLock, rLock, readCount, chunks, notices, crashed>>

-----------------------------------------------------------------------------
(* Naming-server commands on the control connection.  DELETE: NULL entry  *)
(* ends the thread (pthread_exit); busy write_mutex answers busy; else     *)
(* read_mutex is locked while write_mutex is held.                         *)
CtlDelete(p) ==
    /\ pc[Ctl] = "idle"
    /\ path' = [path EXCEPT ![Ctl] = p]
    /\ GetFileAccess(p)
    /\ \/ /\ ~HasAccess(p)
          /\ Goto(Ctl, "dead")
          /\ UNCHANGED wLock
       \/ /\ HasAccess(p) /\ wLock[p] # NoThread
          /\ UNCHANGED <<pc, wLock>>
       \/ /\ HasAccess(p) /\ wLock[p] = NoThread
          /\ wLock' = SetLock(wLock, p, Ctl)
          /\ Goto(Ctl, "d_lock_r")
    /\ UNCHANGED <<rLock, readCount, chunks, notices, crashed>>

(* With read_mutex: active readers unlock both and answer busy; otherwise  *)
(* read_mutex is unlocked and the file removed, write_mutex stays locked.  *)
CtlDeleteCheck ==
    LET p == path[Ctl] IN
    /\ pc[Ctl] = "d_lock_r"
    /\ rLock[p] = NoThread
    /\ wLock' = IF readCount[p] > 0 THEN SetLock(wLock, p, NoThread) ELSE wLock
    /\ Goto(Ctl, "idle")
    /\ UNCHANGED <<path, controls, rLock, readCount, chunks, notices, crashed>>

(* STOP: STOP_ACK is sent and the command thread leaves its loop.          *)
CtlStop ==
    /\ pc[Ctl] = "idle"
    /\ Goto(Ctl, "dead")
    /\ UNCHANGED <<path, controls, wLock, rLock, readCount, chunks, notices, crashed>>

-----------------------------------------------------------------------------
(* A request arriving on an idle connection, chosen by the environment.    *)
Request(t) ==
    \E p \in Paths :
        \/ "READ" \in ClientOps /\ ReadTry(t, p)
        \/ "WRITE" \in ClientOps /\ \E m \in {"sync", "async"} : WriteTry(t, p, m)
        \/ "FETCH" \in ClientOps /\ FetchTry(t, p)
        \/ "STORE" \in ClientOps /\ StoreTry(t, p)
        \/ "STREAM" \in ClientOps /\ StreamOpen(t, p)

Command ==
    \/ "DELETE" \in CtlOps /\ \E p \in Paths : CtlDelete(p)
    \/ "STOP" \in CtlOps /\ CtlStop

(* The steps of a request already being handled.                           *)
Step(t) ==
    \/ ReadUnlockW(t) \/ ReadLockR(t) \/ ReadLockW(t) \/ ReadUnlockR(t)
    \/ ReadRelease(t)
    \/ WriteSync(t) \/ WriteClose(t) \/ AsyncOpen(t) \/ AsyncChunk(t)
    \/ FetchLock(t) \/ FetchSend(t)
    \/ StoreLock(t) \/ StoreSpawn(t) \/ StoreWrite(t)
    \/ StreamDone(t)

Next ==
    /\ ~crashed
    /\ \/ \E t \in Threads : Request(t) \/ Step(t)
       \/ Command
       \/ CtlDeleteCheck

(* Threads are scheduled by the OS: a runnable step of a request in        *)
(* progress is eventually taken.  New requests are never forced.           *)
Fairness ==
    /\ \A t \in Threads : WF_vars(~crashed /\ Step(t))
    /\ WF_vars(~crashed /\ CtlDeleteCheck)

Spec == Init /\ [][Next]_vars /\ Fairness

-----------------------------------------------------------------------------
(* Thread sets by what they are doing to the file.                         *)
Serving(t)   == pc[t] = "r_serve"
GateWriting  == {"w_sync", "a_open", "a_chunk"}
Modifying    == GateWriting \cup {"w_close", "s_write"}
Reading      == {"r_serve", "f_send", "m_serve"}

(* An async write that holds write_mutex eventually releases it, unless    *)
(* the process died (async_write_handler's success and failure paths).     *)
AsyncGateReleased ==
    \A t \in Threads, p \in Paths :
        (wLock[p] = t /\ pc[t] \in {"a_open", "a_chunk"})
            ~> (wLock[p] # t \/ crashed)

(* Every locked mutex is eventually unlocked, unless the process died.    *)
(* A mutex nobody unlocks makes every later READ, WRITE, FETCH, STORE and  *)
(* DELETE of the path fail or block forever: DELETE's success path, a      *)
(* FETCH whose send fails, STORE's failed pthread_create, and a READ and a *)
(* DELETE that lock the two mutexes in opposite orders.                    *)
MutexesReleased ==
    \A p \in Paths :
        /\ wLock[p] # NoThread ~> (wLock[p] = NoThread \/ crashed)
        /\ rLock[p] # NoThread ~> (rLock[p] = NoThread \/ crashed)

(* Spec 4.5 and 6: a read proceeds at once or fails fast.  Nobody reads a  *)
(* file (READ, FETCH or STREAM) while another thread is modifying it, and  *)
(* a READ that passed its trylock never blocks on write_mutex held by a    *)
(* writer or DELETE (another reader's trylock-and-undo is only a moment).  *)
ReadsFailFast ==
    /\ \A r, w \in Threads :
          (pc[r] \in Reading /\ pc[w] \in Modifying) => path[r] # path[w]
    /\ \A t \in Threads :
          pc[t] = "r_lock_w" =>
              \/ wLock[path[t]] = NoThread
              \/ pc[wLock[path[t]]] = "r_unlock_w"

-----------------------------------------------------------------------------
(* Refinement: the READ, WRITE and DELETE paths implement AccessGate.  A   *)
(* reader reads from the moment it has released read_mutex with the gate  *)
(* held until it decrements read_count; a writer writes while it holds     *)
(* write_mutex for its write (fclose after the unlock, w_close, is outside *)
(* it); DELETE removes the file in its check step and, holding             *)
(* write_mutex from then on, is the path's writer for good.               *)
GateReaders == [p \in Paths |-> {t \in Threads : Serving(t) /\ path[t] = p}]

(* The command thread holds write_mutex of p past DELETE's check step:    *)
(* it found no reader and removed the file.                                *)
Removed(p) == wLock[p] = Ctl /\ ~(pc[Ctl] = "d_lock_r" /\ path[Ctl] = p)

GateWriter ==
    [p \in Paths |->
        IF \E t \in Threads : pc[t] \in GateWriting /\ path[t] = p
        THEN CHOOSE t \in Threads : pc[t] \in GateWriting /\ path[t] = p
        ELSE IF Removed(p) THEN Ctl ELSE NoThread]

Gate == INSTANCE AccessGate
            WITH Threads <- Actors, readers <- GateReaders, writer <- GateWriter

(* Every behaviour of the READ, WRITE and DELETE handlers is a behaviour   *)
(* of the abstract gate: no read begins during a write, and no write or   *)
(* removal begins during reads or another write, though the last reader   *)
(* unlocks a write_mutex another thread locked.                            *)
GateRefinement == Gate!Spec
=============================================================================
