----------------------------- MODULE AsyncWrite -----------------------------
(***************************************************************************)
(* The write notification pipeline between a storage node and the naming  *)
(* server, for one path.                                                   *)
(*                                                                         *)
(* Storage node (src/storage.c): receive_file_content writes synchronously *)
(* and sends WRITE_SUCCESS, or hands the data to async_write_handler,      *)
(* which flushes it chunk by chunk, sending ASYNC_WRITE_PROGRESS after     *)
(* each fwrite and ASYNC_WRITE_SUCCESS (or ASYNC_WRITE_FAIL) at the end.   *)
(* All go over the node's control connection (notify_naming_server), a    *)
(* TCP stream: ordered and reliable, but without message boundaries.      *)
(*                                                                         *)
(* Naming server (src/naming.c, storage_server_thread's message loop):     *)
(* each recv is parsed as one message; PROGRESS and WRITE_SUCCESS mirror   *)
(* the file to the owner's backups (perform_copy_between_servers: FETCH    *)
(* from the primary, STORE at the backup) and relay a notice by socket     *)
(* number; a closed connection with a write in progress relays a failure. *)
(*                                                                         *)
(* File contents are abstracted to [w, k]: the first k chunks of write w. *)
(* The per-file gate is modelled in FileAccess; here writes of the path    *)
(* are issued one at a time while the gate is free.                        *)
(***************************************************************************)
EXTENDS Naturals, Sequences, SequencesExt, FiniteSets

CONSTANTS
    Primary,        \* the node that owns the path
    Backups,        \* the owner's valid backup_ss entries (0, 1 or 2 nodes)
    NW,             \* number of client WRITEs of the path
    Mode,           \* Mode[w]: "sync" (--SYNC or short data) or "async"
    NChunks,        \* chunks of an async write (data_size / CHUNK_SIZE)
    PathIndexed     \* path_exists finds the path in the trie

ASSUME Primary \notin Backups /\ Cardinality(Backups) <= 2
ASSUME NW \in Nat /\ NChunks \in Nat \ {0} /\ PathIndexed \in BOOLEAN
ASSUME Mode \in [1 .. NW -> {"sync", "async"}]

None == 0
Writes == 1 .. NW
Nodes == {Primary} \cup Backups
Content == [w : 0 .. NW, k : 0 .. NChunks]
Complete(w) == [w |-> w, k |-> NChunks]

(* Storage-to-naming messages; ASYNC_WRITE_FAIL carries no id in the code, *)
(* w only names the write it ends.                                         *)
Msg == [type : {"PROGRESS", "SUCCESS", "FAIL", "WSUCCESS"}, w : Writes]
(* Naming-to-client notices, addressed by the number the message carried. *)
Notice == [type : {"ASYNC_WRITE_SUCCESS", "ASYNC_WRITE_FAIL", "WRITE_SUCCESS"},
           w : Writes \cup {None}]

VARIABLES
    disk,       \* disk[n]: what the file holds on node n
    task,       \* the write holding the gate: its step, id and chunks written
    sclose,     \* sync writes that have unlocked but not yet called fclose
    next,       \* the next client WRITE to arrive
    alive,      \* the storage process is running
    ctl,        \* bytes in flight on the control connection, as messages
    sentLog,    \* history: every message the node has sent
    nsFlag,     \* is_async_write_in_progress
    nsWriter,   \* async_writer_socket
    nsUp,       \* the naming server still reads this connection
    out         \* notices the naming server has sent

vars == <<disk, task, sclose, next, alive, ctl, sentLog, nsFlag, nsWriter, nsUp, out>>
storageVars == <<task, sclose, next, alive>>
nsVars == <<nsFlag, nsWriter, nsUp, out>>

Steps == {"idle", "open", "chunk", "flush"}

TypeOK ==
    /\ disk \in [Nodes -> Content]
    /\ task \in [pc : Steps, w : Writes \cup {None}, k : 0 .. NChunks]
    /\ sclose \subseteq Writes
    /\ next \in 1 .. NW + 1
    /\ alive \in BOOLEAN /\ nsUp \in BOOLEAN /\ nsFlag \in BOOLEAN
    /\ ctl \in Seq(Msg) /\ sentLog \in Seq(Msg)
    /\ nsWriter \in Writes \cup {None}
    /\ out \in Seq(Notice)

Init ==
    /\ disk = [n \in Nodes |-> Complete(0)]
    /\ task = [pc |-> "idle", w |-> None, k |-> 0]
    /\ sclose = {}
    /\ next = 1
    /\ alive = TRUE
    /\ ctl = <<>> /\ sentLog = <<>>
    /\ nsFlag = FALSE /\ nsWriter = None /\ nsUp = TRUE
    /\ out = <<>>

(* notify_naming_server: one send on the control connection.               *)
Notify(type, w) ==
    LET m == [type |-> type, w |-> w]
    IN /\ ctl' = Append(ctl, m)
       /\ sentLog' = Append(sentLog, m)

-----------------------------------------------------------------------------
(* Storage node.                                                           *)

(* receive_file_content, async branch, after a successful trylock of      *)
(* write_mutex: "Asynchronous write accepted" goes to the client, then     *)
(* pthread_create; if that fails the gate is unlocked and nobody is        *)
(* notified.                                                               *)
WriteAsync ==
    /\ alive /\ task.pc = "idle" /\ next <= NW /\ Mode[next] = "async"
    /\ next' = next + 1
    /\ \/ task' = [pc |-> "open", w |-> next, k |-> 0]
       \/ UNCHANGED task                                     \* pthread_create failed
    /\ UNCHANGED <<disk, sclose, alive, ctl, sentLog, nsVars>>

(* receive_file_content, sync branch: fopen "w" truncates, fputs only      *)
(* buffers, the client is answered, WRITE_SUCCESS is sent and write_mutex *)
(* unlocked; fclose comes after the unlock.  A failed fopen answers the    *)
(* client and unlocks.                                                     *)
WriteSync ==
    /\ alive /\ task.pc = "idle" /\ next <= NW /\ Mode[next] = "sync"
    /\ next' = next + 1
    /\ \/ /\ disk' = [disk EXCEPT ![Primary] = [w |-> next, k |-> 0]]
          /\ Notify("WSUCCESS", next)
          /\ sclose' = sclose \cup {next}
       \/ UNCHANGED <<disk, ctl, sentLog, sclose>>           \* fopen failed
    /\ UNCHANGED <<task, alive, nsVars>>

(* A sync writer's fclose flushes the whole of its data.                   *)
SyncClose ==
    /\ alive
    /\ \E w \in sclose :
         /\ disk' = [disk EXCEPT ![Primary] = Complete(w)]
         /\ sclose' = sclose \ {w}
    /\ UNCHANGED <<task, next, alive, ctl, sentLog, nsVars>>

(* Mutant: the fopen-failure path does not return and goes on writing.    *)
AsyncOpenNoReturn ==
    /\ alive /\ task.pc = "open"
    /\ \/ /\ disk' = [disk EXCEPT ![Primary] = [w |-> task.w, k |-> 0]]
          /\ task' = [task EXCEPT !.pc = "chunk"]
          /\ UNCHANGED <<ctl, sentLog>>
       \/ /\ Notify("FAIL", task.w)
          /\ task' = [task EXCEPT !.pc = "chunk"]
          /\ UNCHANGED disk
    /\ UNCHANGED <<sclose, next, alive, nsVars>>

(* Mutant: the fopen-failure path unlocks without notifying.               *)
AsyncOpenSilent ==
    /\ alive /\ task.pc = "open"
    /\ \/ /\ disk' = [disk EXCEPT ![Primary] = [w |-> task.w, k |-> 0]]
          /\ task' = [task EXCEPT !.pc = "chunk"]
       \/ /\ task' = [pc |-> "idle", w |-> None, k |-> 0]
          /\ UNCHANGED disk
    /\ UNCHANGED <<ctl, sentLog, sclose, next, alive, nsVars>>

(* async_write_handler: fopen "w" truncates the file; on failure           *)
(* ASYNC_WRITE_FAIL is sent and write_mutex unlocked.                      *)
AsyncOpen ==
    /\ alive /\ task.pc = "open"
    /\ \/ /\ disk' = [disk EXCEPT ![Primary] = [w |-> task.w, k |-> 0]]
          /\ task' = [task EXCEPT !.pc = "chunk"]
          /\ UNCHANGED <<ctl, sentLog>>
       \/ /\ Notify("FAIL", task.w)
          /\ task' = [pc |-> "idle", w |-> None, k |-> 0]
          /\ UNCHANGED disk
    /\ UNCHANGED <<sclose, next, alive, nsVars>>

(* Mutant: the loop runs while bytes_written <= data_size.                 *)
AsyncChunkPastEnd ==
    /\ alive /\ task.pc = "chunk" /\ task.k <= NChunks
    /\ task' = [task EXCEPT !.pc = "flush", !.k = @ + 1]
    /\ Notify("PROGRESS", task.w)
    /\ UNCHANGED <<disk, sclose, next, alive, nsVars>>

(* One loop iteration up to the sleep: fwrite into the stdio buffer, then  *)
(* ASYNC_WRITE_PROGRESS.                                                   *)
AsyncChunk ==
    /\ alive /\ task.pc = "chunk" /\ task.k < NChunks
    /\ task' = [task EXCEPT !.pc = "flush", !.k = @ + 1]
    /\ Notify("PROGRESS", task.w)
    /\ UNCHANGED <<disk, sclose, next, alive, nsVars>>

(* After sleep(2), fflush makes the chunk visible in the file.             *)
AsyncFlush ==
    /\ alive /\ task.pc = "flush"
    /\ disk' = [disk EXCEPT ![Primary] = [w |-> task.w, k |-> task.k]]
    /\ task' = [task EXCEPT !.pc = "chunk"]
    /\ UNCHANGED <<ctl, sentLog, sclose, next, alive, nsVars>>

(* The loop ends: fclose, ASYNC_WRITE_SUCCESS, unlock write_mutex.         *)
AsyncClose ==
    /\ alive /\ task.pc = "chunk" /\ task.k = NChunks
    /\ Notify("SUCCESS", task.w)
    /\ task' = [pc |-> "idle", w |-> None, k |-> 0]
    /\ UNCHANGED <<disk, sclose, next, alive, nsVars>>

(* The storage process dies (or is stopped): running threads end, what it *)
(* has sent is still delivered, buffered file data is lost, and the naming *)
(* server reads end-of-stream after the last byte.                         *)
Crash ==
    /\ alive
    /\ alive' = FALSE
    /\ UNCHANGED <<disk, task, sclose, next, ctl, sentLog, nsVars>>

-----------------------------------------------------------------------------
(* Naming server, storage_server_thread's loop.                            *)

(* perform_copy_between_servers from the owner to each valid backup:       *)
(* FETCH reads the primary's file as it is now, STORE writes it at the     *)
(* backup.  It fails (and is only logged) when the primary is not running  *)
(* or the parsed path is not a path of the trie.  With no valid backup the *)
(* branch for backup_ss[0] = -1 copies to storage_servers[-1], whose port *)
(* is garbage: no node receives it.                                        *)
Mirror(found) ==
    disk' = [n \in Nodes |-> IF n \in Backups /\ found /\ alive
                              THEN disk[Primary] ELSE disk[n]]

(* recv returns everything that has arrived, up to BUFFER_SIZE.  Messages  *)
(* carry no delimiter, so when j > 1 are read together only the first is   *)
(* acted on, and its %s path runs into the next message's text: path_exists *)
(* then finds nothing.                                                     *)
NsRecv ==
    /\ nsUp /\ ctl # <<>>
    /\ \E j \in 1 .. Len(ctl) :
         LET m == Head(ctl)
             found == PathIndexed /\ j = 1
             relay(t) == out' = Append(out, [type |-> t, w |-> m.w])
         IN /\ ctl' = SubSeq(ctl, j + 1, Len(ctl))
            /\ CASE m.type = "PROGRESS" ->
                      /\ nsFlag' = TRUE /\ nsWriter' = m.w
                      /\ Mirror(found)
                      /\ relay("ASYNC_WRITE_SUCCESS")
                 [] m.type = "SUCCESS" ->
                      /\ nsFlag' = FALSE
                      /\ relay("ASYNC_WRITE_SUCCESS")
                      /\ UNCHANGED <<disk, nsWriter>>
                 [] m.type = "WSUCCESS" ->
                      /\ Mirror(found)
                      /\ out' = Append(out, [type |-> "WRITE_SUCCESS", w |-> None])
                      /\ UNCHANGED <<nsFlag, nsWriter>>
                 [] m.type = "FAIL" ->                      \* no branch matches
                      UNCHANGED <<disk, nsFlag, nsWriter, out>>
    /\ UNCHANGED <<sentLog, nsUp, storageVars>>

(* recv returns 0: a write in progress is reported failed to the socket    *)
(* number of the last PROGRESS; the node is marked down.                   *)
NsDisconnect ==
    /\ nsUp /\ ~alive /\ ctl = <<>>
    /\ nsUp' = FALSE
    /\ IF nsFlag
       THEN /\ out' = Append(out, [type |-> "ASYNC_WRITE_FAIL", w |-> nsWriter])
            /\ nsFlag' = FALSE
       ELSE UNCHANGED <<out, nsFlag>>
    /\ UNCHANGED <<disk, nsWriter, ctl, sentLog, storageVars>>

(* Both processes have stopped.                                            *)
Terminated ==
    /\ ~alive /\ ~nsUp
    /\ UNCHANGED vars

Next ==
    \/ WriteAsync \/ WriteSync \/ SyncClose
    \/ AsyncOpen \/ AsyncChunk \/ AsyncFlush \/ AsyncClose
    \/ Crash
    \/ NsRecv \/ NsDisconnect
    \/ Terminated

(* The OS runs every thread that can run; clients and crashes are never   *)
(* forced.                                                                 *)
Fairness ==
    /\ WF_vars(SyncClose)
    /\ WF_vars(AsyncOpen) /\ WF_vars(AsyncChunk)
    /\ WF_vars(AsyncFlush) /\ WF_vars(AsyncClose)
    /\ WF_vars(NsRecv) /\ WF_vars(NsDisconnect)

Spec == Init /\ [][Next]_vars /\ Fairness

-----------------------------------------------------------------------------
(* Properties.                                                             *)

FinalTypes == {"SUCCESS", "FAIL"}
MsgsOf(w) == SelectSeq(sentLog, LAMBDA m : m.w = w)

(* Spec 3 and scenario E: an async write task notifies the naming server  *)
(* exactly once at its end, success or failure, never both, with nothing   *)
(* of it after that and never a WRITE_SUCCESS (async_write_handler's       *)
(* return paths).                                                          *)
FinalNoticeOnce ==
    \A w \in Writes :
        LET s == MsgsOf(w) IN
        /\ \A i \in 1 .. Len(s) : s[i].type \in FinalTypes => i = Len(s)
        /\ Mode[w] = "async" => \A i \in 1 .. Len(s) : s[i].type # "WSUCCESS"

(* Spec 4.5: an async write task that started ends with its notice to the *)
(* naming server, unless the storage process dies first.                   *)
TaskEndsNotified ==
    \A w \in Writes :
        (task.pc = "open" /\ task.w = w)
            ~> (\E i \in 1 .. Len(sentLog) :
                    sentLog[i].w = w /\ sentLog[i].type \in FinalTypes)
               \/ ~alive

(* Spec 4.5 and 7: every write the node accepted (past its trylock of     *)
(* write_mutex) ends with exactly one notice to the naming server, success *)
(* or failure, unless the storage process dies first.  This covers the     *)
(* sync path, where fopen may fail, and the async path before its task     *)
(* runs, where pthread_create may fail.                                    *)
WritesReported ==
    \A w \in Writes :
        next > w ~> (\E i \in 1 .. Len(sentLog) :
                        sentLog[i].w = w /\ sentLog[i].type \in FinalTypes \cup {"WSUCCESS"})
                    \/ ~alive

(* Nothing is being written or is in flight.                               *)
Quiet == alive /\ task.pc = "idle" /\ sclose = {} /\ ctl = <<>>

(* Spec 5: replication to backups is issued once the primary's write is   *)
(* complete, so once the node is quiet its backups hold what the primary  *)
(* holds.  The naming server copies on each PROGRESS, sent before the      *)
(* chunk is flushed, and on WRITE_SUCCESS, sent before fclose, but never   *)
(* on ASYNC_WRITE_SUCCESS.                                                 *)
BackupsConverge ==
    <>[](Quiet => \A b \in Backups : disk[b] = disk[Primary])
=============================================================================
