---------------------------- MODULE NamingIndex -----------------------------
(***************************************************************************)
(* The naming server's path index, node registry, result cache and backup *)
(* shadows (src/naming.c), driven by storage-node registrations and        *)
(* disconnects (storage_server_thread) and by the client commands that     *)
(* resolve and change the namespace (handle_client: READ/WRITE/INFO/STREAM *)
(* resolution, CREATE_F/CREATE_DIC, DELETE).                               *)
(*                                                                         *)
(* A path is a sequence of path bytes, so "byte prefix" is sequence        *)
(* prefix; the backup shadow of p is <<"Backup1">> \o p.  The trie is kept *)
(* as the set of end-of-path keys, the subset marked deleted, and the      *)
(* owner of each key; an intermediate node exists exactly when some        *)
(* end-of-path key extends it.  Registry entries are positions 0..count-1 *)
(* of storage_servers, as in the code, each naming the storage node that  *)
(* registered there and the socket descriptor stored at that time.        *)
(* disk[n] is the set of paths present on storage node n's filesystem.     *)
(***************************************************************************)
EXTENDS Naturals, Sequences, SequencesExt, FiniteSets, TLC

CONSTANTS
    Nodes,       \* storage node processes, identified by their address
    NoNode,      \* an unused registry position
    Paths,       \* client-visible paths, sequences of path bytes
    Disk0,       \* Disk0[n]: the files on node n when the system starts
    FDs,         \* socket descriptor numbers of the naming server process
    CacheSize,   \* CACHE_SIZE
    Commands,    \* client commands issued, a subset of {"READ", "CREATE", "DELETE"}
    MaxSessions  \* MaxSessions[n]: bound on the registrations of node n

ASSUME /\ Disk0 \in [Nodes -> SUBSET Paths]
       /\ -1 \notin FDs /\ CacheSize \in Nat \ {0}
       /\ Commands \subseteq {"READ", "CREATE", "DELETE"}
       /\ MaxSessions \in [Nodes -> Nat]

None == -1                       \* the code's -1 index, NULL server and closed fd
Slots == 0 .. Cardinality(Nodes) - 1
Shadow(tag, p) == <<tag>> \o p   \* strcat("Backup1", path)
Keys == Paths \cup {Shadow(t, p) : t \in {"Backup1", "Backup2"}, p \in Paths}

VARIABLES
    endp,        \* trie keys with is_end_of_path set
    deleted,     \* trie keys with is_deleted set
    owner,       \* owner[k]: registry position of the node's server pointer
    count,       \* server_count
    addr,        \* addr[i]: the storage node registered at position i
    down,        \* down[i]: is_server_down
    sockfd,      \* sockfd[i]: socket_fd
    pathList,    \* pathList[i]: path_list (as a set; it only ever grows)
    backup,      \* backup[i]: backup_ss, a pair of positions or None
    bufferBack,  \* buffer_back: paths of position 0 recorded while it was alone
    cache,       \* lru_cache entries in order, [path, idx]
    disk,        \* disk[n]: files on storage node n
    conn,        \* conn[n]: descriptor of n's control connection, or None
    openFds,     \* descriptors open in the naming server
    sessions     \* sessions[n]: control connections node n has opened (bounded)

vars == <<endp, deleted, owner, count, addr, down, sockfd, pathList, backup,
          bufferBack, cache, disk, conn, openFds, sessions>>

trieVars == <<endp, deleted, owner>>
regVars == <<count, addr, down, sockfd, pathList, backup, bufferBack>>

CacheEntry == [path : Keys, idx : Slots \cup {None}]

TypeOK ==
    /\ endp \subseteq Keys /\ deleted \subseteq endp
    /\ owner \in [Keys -> Slots \cup {None}]
    /\ count \in 0 .. Cardinality(Nodes)
    /\ addr \in [Slots -> Nodes \cup {NoNode}]
    /\ down \in [Slots -> BOOLEAN]
    /\ sockfd \in [Slots -> FDs \cup {None}]
    /\ pathList \in [Slots -> SUBSET Paths]
    /\ backup \in [Slots -> (Slots \cup {None}) \X (Slots \cup {None})]
    /\ bufferBack \subseteq Keys
    /\ cache \in Seq(CacheEntry) /\ Len(cache) <= CacheSize
    /\ disk \in [Nodes -> SUBSET Paths]
    /\ conn \in [Nodes -> FDs \cup {None}]
    /\ openFds \subseteq FDs
    /\ \A n \in Nodes : sessions[n] \in 0 .. MaxSessions[n]

Init ==
    /\ endp = {} /\ deleted = {}
    /\ owner = [k \in Keys |-> None]
    /\ count = 0
    /\ addr = [i \in Slots |-> NoNode]
    /\ down = [i \in Slots |-> FALSE]
    /\ sockfd = [i \in Slots |-> None]
    /\ pathList = [i \in Slots |-> {}]
    /\ backup = [i \in Slots |-> <<None, None>>]
    /\ bufferBack = {}
    /\ cache = <<>>
    /\ disk = Disk0
    /\ conn = [n \in Nodes |-> None]
    /\ openFds = {}
    /\ sessions = [n \in Nodes |-> 0]

-----------------------------------------------------------------------------
(* The trie.                                                               *)

(* The end-of-path keys at or below k: what mark_subtree_as_deleted and    *)
(* mark_subtree_as_revived reach.  Byte prefix, not path component.        *)
Subtree(k, E) == {e \in E : IsPrefix(k, e)}

(* search_path's loop: the crawler stands on the node of the first j bytes *)
(* of k and gives up if that node is marked deleted.  The root (j = 0) is  *)
(* never an end of path.                                                   *)
RECURSIVE WalkClear(_, _, _)
WalkClear(k, j, D) ==
    j >= Len(k) \/ (SubSeq(k, 1, j) \notin D /\ WalkClear(k, j + 1, D))

(* search_path(root, k, 0): the owner, or None when the walk fails, k is   *)
(* not an end of path, or the terminal is deleted or its server is down.   *)
SearchIn(k, E, D, O, dn) ==
    IF k \in E /\ WalkClear(k, 0, D) /\ k \notin D /\ ~dn[O[k]]
    THEN O[k] ELSE None

Search(k) == SearchIn(k, endp, deleted, owner, down)

(* search_path(root, k, 1) marks k's subtree when the walk reaches k.      *)
SoftDelete(k, D) ==
    IF k \in endp /\ WalkClear(k, 0, D) THEN D \cup Subtree(k, endp) ELSE D

(* path_exists: the path, then its Backup1 shadow, then its Backup2 one.   *)
PathExists(p) ==
    IF Search(p) # None THEN Search(p)
    ELSE IF Search(Shadow("Backup1", p)) # None THEN Search(Shadow("Backup1", p))
    ELSE Search(Shadow("Backup2", p))

(* Keys whose node points at position s: collect_paths_to_buffer, which    *)
(* writes every one of them, deleted or not, as a "File:" line.            *)
Owned(s, E, O) == {k \in E : O[k] = s}

-----------------------------------------------------------------------------
(* Insertions.  An insertion batch maps keys to the owner insert_path      *)
(* gives them; applying it sets end-of-path, clears is_deleted of exactly  *)
(* those keys, sets their owner, and (insert_path, create_trie_node)       *)
(* clears is_server_down of every owner it touches.                        *)
Valid(b, cnt) == b # None /\ b < cnt

(* parse_and_store_files(server i, L): each path for i, and, once there    *)
(* are more than two servers, a shadow for each valid backup.              *)
FilesBatch(L, i, bk, cnt) ==
    LET s1 == IF cnt > 2 /\ Valid(bk[1], cnt) THEN {Shadow("Backup1", p) : p \in L} ELSE {}
        s2 == IF cnt > 2 /\ Valid(bk[2], cnt) THEN {Shadow("Backup2", p) : p \in L} ELSE {}
    IN [k \in L \cup s1 \cup s2 |-> IF k \in L THEN i
                                     ELSE IF k \in s1 THEN bk[1] ELSE bk[2]]

(* parse_and_store_backup(server, L): the shadows only.                    *)
BackupBatch(L, bk, cnt) ==
    LET s1 == IF Valid(bk[1], cnt) THEN {Shadow("Backup1", p) : p \in L} ELSE {}
        s2 == IF Valid(bk[2], cnt) THEN {Shadow("Backup2", p) : p \in L} ELSE {}
    IN [k \in s1 \cup s2 |-> IF k \in s1 THEN bk[1] ELSE bk[2]]

(* The path a shadow key stands for.                                       *)
Unshadow(k) == IF k \in Paths THEN k ELSE Tail(k)

(* perform_copy_between_servers for every shadow of a batch (FETCH from   *)
(* the source node, STORE at the backup's node): the backup's node         *)
(* receives the file when the source has it and the backup's node is       *)
(* connected.  A failed copy is only logged.                               *)
CopyShadows(batch, src, D, A, C) ==
    [n \in Nodes |->
        D[n] \cup {Unshadow(k) : k \in {k \in DOMAIN batch \ Paths :
                      A[batch[k]] = n /\ C[n] # None /\ Unshadow(k) \in D[src]}}]

(* The trie and registry updates of a batch, on top of the deleted set D  *)
(* and down flags dn the handler has computed so far.                      *)
StoreBatch(b, D, dn) ==
    /\ endp' = endp \cup DOMAIN b
    /\ deleted' = D \ DOMAIN b
    /\ owner' = b @@ owner
    /\ down' = [s \in Slots |-> IF s \in Range(b) THEN FALSE ELSE dn[s]]

NoBatch == [k \in {} |-> None]

-----------------------------------------------------------------------------
(* The result cache.                                                       *)

(* cache_lookup: the index of the first entry for p, None on a miss.       *)
CacheLookup(p) ==
    LET j == SelectInSeq(cache, LAMBDA e : e.path = p)
    IN IF j = 0 THEN None ELSE cache[j].idx

(* Mutant: cache_insert appends while cache_size <= CACHE_SIZE.           *)
CacheInsertsOffByOne(p, f) ==
    LET e == [path |-> p, idx |-> f]
    IN IF Len(cache) <= CacheSize THEN {Append(cache, e)}
       ELSE {[cache EXCEPT ![v] = e] : v \in 1 .. CacheSize}

(* cache_insert: append while there is room, else overwrite the entry with *)
(* the oldest last_accessed.  time() has one-second resolution and ties go *)
(* to the lowest index, so depending on timing any entry can be the        *)
(* victim.                                                                 *)
CacheInserts(p, f) ==
    LET e == [path |-> p, idx |-> f]
    IN IF Len(cache) < CacheSize THEN {Append(cache, e)}
       ELSE {[cache EXCEPT ![v] = e] : v \in 1 .. CacheSize}

(* remove_paths_from_cache: drop every entry for a path, keeping order.   *)
CacheRemove(c, P) == SelectSeq(c, LAMBDA e : e.path \notin P)

(* The handlers' loop "for i < server_count: if socket_fd matches".        *)
FirstWithFd(fd, liveOnly) ==
    LET I == {i \in 0 .. count - 1 : sockfd[i] = fd /\ (liveOnly => ~down[i])}
    IN IF I = {} THEN None ELSE CHOOSE i \in I : \A j \in I : i <= j

(* send_command_to_storage writes to the socket_fd stored at position s;  *)
(* the node reading that descriptor now, if any, receives the command.     *)
Receivers(S) == {m \in Nodes : conn[m] # None /\ \E s \in S : sockfd[s] = conn[m]}

(* A position and its assigned backups.                                    *)
WithBackups(s) == {s} \cup ({backup[s][1], backup[s][2]} \ {None})

(* What rm -r of a path removes on a node: the path and what is inside it. *)
DirTree(p, S) == {q \in S : q = p \/ IsPrefix(p \o <<"/">>, q)}

-----------------------------------------------------------------------------
(* Storage-node registration (storage_server_thread up to its message     *)
(* loop): a node connects on a free descriptor and sends its file list,   *)
(* which is what is on its disk.                                           *)

(* A known address: mark it up, revive (search_path_two) every path of its *)
(* old path_list that is still in the trie, clearing the subtree's         *)
(* is_deleted and the down flag of whichever node owns the key; socket_fd  *)
(* is left as it was.  Then parse_and_store_files.                         *)
ReRegister(n) ==
    \E i \in 0 .. count - 1 :
        /\ addr[i] = n
        /\ LET rev == pathList[i] \cap endp
               D1 == deleted \ UNION {Subtree(p, endp) : p \in rev}
               dn1 == [s \in Slots |-> IF s = i \/ s \in {owner[p] : p \in rev}
                                       THEN FALSE ELSE down[s]]
               F == FilesBatch(disk[n], i, backup[i], count)
           IN /\ StoreBatch(F, D1, dn1)
              /\ pathList' = [pathList EXCEPT ![i] = @ \cup disk[n]]
              /\ bufferBack' = IF count = 1 THEN bufferBack \cup Owned(0, endp', owner')
                                            ELSE bufferBack
              /\ disk' = CopyShadows(F, n, disk, addr, conn')
              /\ UNCHANGED <<count, addr, sockfd, backup>>

(* rand() % (server_count - 1), drawn until the two differ.                *)
NewBackups(cnt) ==
    IF cnt < 3 THEN {<<None, None>>}
    ELSE {b \in (0 .. cnt - 2) \X (0 .. cnt - 2) : b[1] # b[2]}

(* A new address takes position server_count.  When that makes three,     *)
(* positions 0 and 1 get the fixed backups [1,2] and [0,2] and their       *)
(* snapshot is copied: position 0's from buffer_back, position 1's from   *)
(* the trie.  From three on, the new server draws two backups among the    *)
(* older positions, down or not.  Then parse_and_store_files.              *)
NewRegister(n, fd) ==
    /\ \A i \in 0 .. count - 1 : addr[i] # n
    /\ LET i == count
           cnt == count + 1
           snap == cnt >= 3 /\ backup[0][1] = None
           bk0 == IF snap THEN <<1, 2>> ELSE backup[0]
           bk1 == IF snap THEN <<0, 2>> ELSE backup[1]
           B0 == IF snap THEN BackupBatch(bufferBack, bk0, cnt) ELSE NoBatch
           B1 == IF snap THEN BackupBatch(Owned(1, endp, owner), bk1, cnt) ELSE NoBatch
       IN \E mine \in NewBackups(cnt) :
            LET F == FilesBatch(disk[n], i, mine, cnt)
            IN /\ StoreBatch(F @@ B1 @@ B0, deleted, [down EXCEPT ![i] = FALSE])
               /\ count' = cnt
               /\ addr' = [addr EXCEPT ![i] = n]
               /\ sockfd' = [sockfd EXCEPT ![i] = fd]
               /\ pathList' = [pathList EXCEPT ![i] = disk[n]]
               /\ backup' = [backup EXCEPT ![0] = bk0, ![1] = bk1, ![i] = mine]
               /\ bufferBack' = IF cnt = 1 THEN bufferBack \cup Owned(0, endp', owner')
                                          ELSE bufferBack
               /\ disk' = CopyShadows(F, n,
                             CopyShadows(B1, addr'[1],
                               CopyShadows(B0, addr'[0], disk, addr', conn'), addr', conn'),
                             addr', conn')

Register(n) ==
    /\ conn[n] = None
    /\ sessions[n] < MaxSessions[n]
    /\ sessions' = [sessions EXCEPT ![n] = @ + 1]
    /\ \E fd \in FDs \ openFds :
          /\ conn' = [conn EXCEPT ![n] = fd]
          /\ openFds' = openFds \cup {fd}
          /\ ReRegister(n) \/ NewRegister(n, fd)
    /\ UNCHANGED cache

(* The control connection ends (STOP, or recv fails): the position is      *)
(* marked down and, for every path of its path_list, the cache entry is    *)
(* dropped and search_path(.., 1) soft-deletes its subtree.                *)
Disconnect(n) ==
    /\ conn[n] # None
    /\ LET i == CHOOSE i \in 0 .. count - 1 : addr[i] = n
           hit == {p \in pathList[i] : p \in endp /\ WalkClear(p, 0, deleted)}
       IN /\ down' = [down EXCEPT ![i] = TRUE]
          /\ deleted' = deleted \cup UNION {Subtree(p, endp) : p \in hit}
          /\ cache' = CacheRemove(cache, pathList[i])
    /\ conn' = [conn EXCEPT ![n] = None]
    /\ openFds' = openFds \ {conn[n]}
    /\ UNCHANGED <<endp, owner, count, addr, sockfd, pathList, backup, bufferBack,
                   disk, sessions>>

-----------------------------------------------------------------------------
(* Client commands (handle_client).  Each handler is one step.            *)

(* READ, WRITE, INFO and STREAM resolve the same way.  On a cache miss,    *)
(* path_exists, then the first position with the same socket_fd that is   *)
(* not down becomes found and is cached.  On a hit whose position is down, *)
(* path_exists again.  A NULL tempo falls back to &storage_servers[found]. *)
(* The answer carries tempo's address, or "not found" when found is -1:   *)
(* ReadResolution(p) is <<hit, tempo, found>>.                            *)
ReadResolution(p) ==
    LET hit == CacheLookup(p)
        t0 == IF hit = None \/ down[hit] THEN PathExists(p) ELSE None
        found == IF hit # None THEN hit
                 ELSE IF t0 = None THEN None ELSE FirstWithFd(sockfd[t0], TRUE)
    IN <<hit, IF t0 = None THEN found ELSE t0, found>>

(* The position whose address READ sends, None for "not found".           *)
ReadAnswer(p) ==
    LET r == ReadResolution(p) IN IF r[3] = None THEN None ELSE r[2]

Read(p) ==
    LET r == ReadResolution(p)
    IN /\ cache' \in IF r[1] = None /\ r[2] # None THEN CacheInserts(p, r[3])
                     ELSE {cache}
       /\ UNCHANGED <<endp, deleted, owner, regVars, disk, conn, openFds, sessions>>

(* The parent directory: the path up to its last "/", or the path itself. *)
Parent(p) ==
    LET j == SelectLastInSeq(p, LAMBDA c : c = "/")
    IN IF j = 0 THEN p ELSE SubSeq(p, 1, j - 1)

(* Resolution used by CREATE and DELETE: cache, else path_exists and the  *)
(* first position with the same socket_fd (down or not), which is cached. *)
(* Gives <<real, found>>.                                                  *)
Locate(p) ==
    LET hit == CacheLookup(p)
        real == IF hit = None THEN PathExists(p) ELSE None
    IN <<real, IF hit # None THEN hit
               ELSE IF real = None THEN None ELSE FirstWithFd(sockfd[real], FALSE)>>

(* The position a command goes to: path_exists's server, else the cache's. *)
Target(loc) == IF loc[1] # None THEN loc[1] ELSE loc[2]

CacheLocated(p, loc) ==
    cache' \in IF CacheLookup(p) = None /\ loc[1] # None THEN CacheInserts(p, loc[2])
               ELSE {cache}

(* Mutant: parse_and_store_files inserts the path without its shadows.   *)
CreateNoShadows(p) ==
    LET self == Locate(p)
        par == Locate(Parent(p))
        target == Target(par)
    IN \/ /\ self[1] # None \/ self[2] # None
          /\ UNCHANGED <<cache, trieVars, regVars, disk>>
       \/ /\ self[1] = None /\ self[2] = None /\ par[2] = None
          /\ CacheLocated(Parent(p), par)
          /\ UNCHANGED <<trieVars, regVars, disk>>
       \/ /\ self[1] = None /\ self[2] = None /\ par[2] # None
          /\ CacheLocated(Parent(p), par)
          /\ LET F == [k \in {p} |-> target]
             IN /\ StoreBatch(F, deleted, down)
                /\ pathList' = [pathList EXCEPT ![target] = @ \cup {p}]
                /\ \E made \in SUBSET Receivers(WithBackups(target)) :
                     disk' = [m \in Nodes |-> IF m \in made THEN disk[m] \cup {p}
                                              ELSE disk[m]]
                /\ UNCHANGED <<count, addr, sockfd, backup, bufferBack>>
    /\ UNCHANGED <<conn, openFds, sessions>>

(* CREATE_F / CREATE_DIC.  An existing path is refused.  Otherwise the     *)
(* parent is located; the create command goes to its position and that    *)
(* position's backups, where handle_command's fopen or mkdir may fail (the *)
(* failure is only printed).  The handler then formats "File: p" (or       *)
(* "Directory: p") and parse_and_store_files inserts p for the parent's    *)
(* position, with its shadows and their copies, whether or not any node    *)
(* created it.                                                             *)
Create(p) ==
    LET self == Locate(p)
        par == Locate(Parent(p))
        target == Target(par)
    IN \/ /\ self[1] # None \/ self[2] # None                \* already exists
          /\ UNCHANGED <<cache, trieVars, regVars, disk>>
       \/ /\ self[1] = None /\ self[2] = None /\ par[2] = None \* Directory Not Found
          /\ CacheLocated(Parent(p), par)
          /\ UNCHANGED <<trieVars, regVars, disk>>
       \/ /\ self[1] = None /\ self[2] = None /\ par[2] # None
          /\ CacheLocated(Parent(p), par)
          /\ LET F == FilesBatch({p}, target, backup[target], count)
             IN /\ StoreBatch(F, deleted, down)
                /\ pathList' = [pathList EXCEPT ![target] = @ \cup {p}]
                /\ \E made \in SUBSET Receivers(WithBackups(target)) :
                     disk' = CopyShadows(F, addr[target],
                                [m \in Nodes |-> IF m \in made THEN disk[m] \cup {p}
                                                 ELSE disk[m]], addr, conn)
                /\ UNCHANGED <<count, addr, sockfd, backup, bufferBack>>
    /\ UNCHANGED <<conn, openFds, sessions>>

(* Mutant: DELETE soft-deletes the primary path but not its shadows.     *)
DeleteNoShadows(p) ==
    LET loc == Locate(p)
        target == Target(loc)
        D1 == IF target = None THEN deleted ELSE SoftDelete(p, deleted)
    IN /\ \E c \in IF CacheLookup(p) = None /\ loc[1] # None
                   THEN CacheInserts(p, loc[2]) ELSE {cache} :
            cache' = CacheRemove(c, {p})
       /\ deleted' = D1
       /\ \E ok \in SUBSET (IF target = None THEN {} ELSE Receivers(WithBackups(target))) :
            disk' = [m \in Nodes |-> IF m \in ok THEN disk[m] \ DirTree(p, disk[m])
                                     ELSE disk[m]]
       /\ UNCHANGED <<endp, owner, regVars, conn, openFds, sessions>>

(* DELETE: locate the path, send DELETE to its position and backups (each *)
(* receiving node removes it, or answers busy and keeps it), soft-delete   *)
(* the path and the shadow of each assigned backup, and drop the cache     *)
(* entry.                                                                  *)
Delete(p) ==
    LET loc == Locate(p)
        target == Target(loc)
        tags == {t \in {1, 2} : target # None /\ backup[target][t] # None}
        D1 == IF target = None THEN deleted ELSE SoftDelete(p, deleted)
        D2 == IF 1 \in tags THEN SoftDelete(Shadow("Backup1", p), D1) ELSE D1
        D3 == IF 2 \in tags THEN SoftDelete(Shadow("Backup2", p), D2) ELSE D2
    IN /\ \E c \in IF CacheLookup(p) = None /\ loc[1] # None
                   THEN CacheInserts(p, loc[2]) ELSE {cache} :
            cache' = CacheRemove(c, {p})
       /\ deleted' = D3
       /\ \E ok \in SUBSET (IF target = None THEN {} ELSE Receivers(WithBackups(target))) :
            disk' = [m \in Nodes |-> IF m \in ok THEN disk[m] \ DirTree(p, disk[m])
                                     ELSE disk[m]]
       /\ UNCHANGED <<endp, owner, regVars, conn, openFds, sessions>>

-----------------------------------------------------------------------------
Next ==
    \/ \E n \in Nodes : Register(n) \/ Disconnect(n)
    \/ \E p \in Paths :
          \/ "READ" \in Commands /\ Read(p)
          \/ "CREATE" \in Commands /\ Create(p)
          \/ "DELETE" \in Commands /\ Delete(p)

Spec == Init /\ [][Next]_vars

(* ======================================================================= *)
(* Properties the runs expect to hold.                                      *)
(* Spec 4.4 and 8 (scenario D): after DELETE p, path_exists finds neither  *)
(* p nor either of its shadows, however p was located (cache hit on a      *)
(* down or aliased position, or a shadow) and whichever backups inserted   *)
(* the shadows.  DELETE soft-deletes the shadows through the backup_ss of  *)
(* the position it located, not of the positions that own them.           *)
DeleteHides ==
    [][\A p \in Paths : Delete(p) => PathExists(p)' = None]_vars

(* Spec 4.4: CREATE of an absent path whose parent is found leaves the      *)
(* path resolvable.  The parent may be found only through the cache or a  *)
(* backup shadow, after a disconnect soft-deleted the primary entry, so   *)
(* the new key can sit under a deleted trie node; it must then resolve    *)
(* through the shadows parse_and_store_files inserts beside it.           *)
CreateResolves ==
    [][\A p \in Paths :
         (Create(p) /\ Locate(p) = <<None, None>> /\ Locate(Parent(p))[2] # None)
            => PathExists(p)' # None]_vars

(* ======================================================================= *)
(* Properties the runs expect TLC to refute.                               *)

(* Spec 4.1 / 4.4: DELETE p soft-deletes p and, p being a directory, what  *)
(* is inside it.  Any other path that resolved before still resolves       *)
(* after the DELETE, however its bytes compare with p's.                   *)
DeleteOnlyItsTree ==
    [][\A p \in Paths :
         Delete(p) =>
            \A q \in Paths :
               (q # p /\ ~IsPrefix(p \o <<"/">>, q) /\ Search(q) # None)
                   => SearchIn(q, endp', deleted', owner', down') # None]_vars

(* Spec 4.3, 7 and 9: resolution sends a client, or a command, to the     *)
(* available node the path resolves to.  Three handler behaviours are      *)
(* stated together: every cache entry records the position the path        *)
(* resolved to; a READ answers with a node whose control connection is     *)
(* open and that holds the file; and DELETE's command reaches the node at  *)
(* the position it located.  The handlers map a server to an index, and   *)
(* send_command_to_storage writes to a node, by its stored socket_fd,      *)
(* which a re-registered node keeps from its closed connection and the     *)
(* operating system hands to the next connection.  insert_path and         *)
(* search_path_two clear is_server_down of whatever server owns the key    *)
(* they touch, and a re-registering node revives every path of its old     *)
(* path_list, those deleted since included.                                *)
ResolutionSound ==
    [][/\ \A e \in ToSet(cache') \ ToSet(cache) : e.idx = PathExists(e.path)
       /\ \A p \in Paths :
            (Read(p) /\ ReadAnswer(p) # None) =>
                LET n == addr[ReadAnswer(p)] IN conn[n] # None /\ p \in disk[n]
       /\ \A p \in Paths :
            LET s == Target(Locate(p)) IN
            (Delete(p) /\ s # None /\ conn[addr[s]] # None) =>
                addr[s] \in Receivers(WithBackups(s))]_vars
====
