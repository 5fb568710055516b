--------------------------- MODULE ClientSession ---------------------------
(***************************************************************************)
(* One interactive client (src/client.c) and the naming-server thread that *)
(* serves it (handle_client in src/naming.c).                              *)
(*                                                                         *)
(* The client's main loop sends "<command> <path>" and, for a lookup       *)
(* (READ, WRITE, INFO, STREAM or a command it does not know), sleeps and   *)
(* then reads latest_IP_and_things_recieved_from_the_ns, which a listener *)
(* thread overwrites with every reply that starts "IP", "File not found"  *)
(* or "Unknown command".  Nothing ties a reply to its request.  Both      *)
(* directions are TCP streams without delimiters: one read may return     *)
(* several messages, and each side parses only the first.                 *)
(*                                                                         *)
(* The naming server's index is abstracted to where[p], the node a path    *)
(* resolves to (NamingIndex models the resolution itself).  Replies carry  *)
(* the id and path of the request they answer as history fields that are  *)
(* not on the wire.                                                        *)
(***************************************************************************)
EXTENDS Naturals, Sequences, SequencesExt

CONSTANTS
    Nodes,      \* storage nodes
    Paths,      \* paths the user may type
    NoNode,     \* where[p] for a path the index does not hold
    Where0,     \* the index when the session starts
    Commands,   \* commands the user may type
    MaxReq      \* requests per session

Lookups == {"READ", "WRITE", "INFO", "STREAM"}
(* Commands after which the main loop goes straight back to the prompt.   *)
NoWait == {"LIST", "CREATE_DIC", "CREATE_F", "DELETE", "COPY"}

ASSUME Where0 \in [Paths -> Nodes \cup {NoNode}] /\ MaxReq \in Nat

Ids == 0 .. MaxReq
Request == [id : Ids, cmd : Commands \cup {"HELLO"}, path : Paths]
(* IP: "IP: <ip> Port: <port>"; NOTFOUND: "File not found in any storage  *)
(* server"; UNKNOWN: "Unknown command"; TEXT: any other reply, printed.    *)
Reply == [id : Ids, path : Paths, kind : {"IP", "NOTFOUND", "UNKNOWN", "TEXT"},
          node : Nodes \cup {NoNode}]
Contact == [id : Ids, cmd : Commands, path : Paths, node : Nodes \cup {NoNode}]

VARIABLES
    cpc,        \* the main loop: at the prompt, waiting on a lookup, or done
    cur,        \* the lookup it waits on
    nextId,     \* requests sent so far + 1
    toNs,       \* request bytes in flight to the naming server
    fromNs,     \* reply bytes in flight to the client
    latest,     \* latest_IP_and_things_recieved_from_the_ns, as its replies
    where,      \* the naming server's index
    nsLog,      \* history: every reply the naming server sent
    contacts    \* history: every storage node the client connected to

vars == <<cpc, cur, nextId, toNs, fromNs, latest, where, nsLog, contacts>>

TypeOK ==
    /\ cpc \in {"prompt", "wait", "done"}
    /\ cur \in Request
    /\ nextId \in 1 .. MaxReq + 1
    /\ toNs \in Seq(Request) /\ fromNs \in Seq(Reply)
    /\ latest \in Seq(Reply)
    /\ latest # <<>> => Head(latest).kind \in {"IP", "NOTFOUND", "UNKNOWN"}
    /\ where \in [Paths -> Nodes \cup {NoNode}]
    /\ nsLog \in Seq(Reply) /\ contacts \in Seq(Contact)

Hello == [id |-> 0, cmd |-> "HELLO", path |-> CHOOSE p \in Paths : TRUE]

(* send_request_to_ns sends "CLIENT CONNECTING TO NAMING SERVER ..." before *)
(* its loop; latest starts empty.                                          *)
Init ==
    /\ cpc = "prompt" /\ cur = Hello /\ nextId = 1
    /\ toNs = <<Hello>> /\ fromNs = <<>> /\ latest = <<>>
    /\ where = Where0
    /\ nsLog = <<>> /\ contacts = <<>>

-----------------------------------------------------------------------------
(* Client.                                                                 *)

(* The main loop reads a command and a path (CREATE_* also a name, joined  *)
(* into the path) and sends them.  Its checks of buffer for "Unknown       *)
(* command" and "File not found" look at the request it has just written,  *)
(* so they never hold.                                                     *)
Send(c, p) ==
    LET req == [id |-> nextId, cmd |-> c, path |-> p] IN
    /\ cpc = "prompt" /\ nextId <= MaxReq
    /\ toNs' = Append(toNs, req)
    /\ nextId' = nextId + 1
    /\ IF c \in NoWait THEN UNCHANGED <<cpc, cur>>
                       ELSE cpc' = "wait" /\ cur' = req
    /\ UNCHANGED <<fromNs, latest, where, nsLog, contacts>>

(* "EXIT": running = false and the loop ends.                              *)
Exit ==
    /\ cpc = "prompt"
    /\ cpc' = "done"
    /\ UNCHANGED <<cur, nextId, toNs, fromNs, latest, where, nsLog, contacts>>

(* Mutant: the "File not found" check is missing.                         *)
DecideNoNotFoundCheck ==
    /\ cpc = "wait"
    /\ cpc' = "prompt"
    /\ IF /\ latest # <<>>
          /\ Head(latest).kind # "UNKNOWN"
          /\ cur.cmd \in Lookups
       THEN contacts' = Append(contacts, [id |-> cur.id, cmd |-> cur.cmd,
                                          path |-> cur.path, node |-> Head(latest).node])
       ELSE UNCHANGED contacts
    /\ UNCHANGED <<cur, nextId, toNs, fromNs, latest, where, nsLog>>

(* After sleep(1) the loop copies latest.  Empty: nothing happens.  It     *)
(* starts "Unknown command" or contains "File not found": back to the      *)
(* prompt.  Otherwise sscanf takes the first "IP: .. Port: .." and READ,   *)
(* WRITE, INFO and STREAM connect to that node; any other command prints   *)
(* "Wrong input command".                                                  *)
Decide ==
    /\ cpc = "wait"
    /\ cpc' = "prompt"
    /\ IF /\ latest # <<>>
          /\ Head(latest).kind # "UNKNOWN"
          /\ \A i \in 1 .. Len(latest) : latest[i].kind # "NOTFOUND"
          /\ cur.cmd \in Lookups
       THEN contacts' = Append(contacts, [id |-> cur.id, cmd |-> cur.cmd,
                                          path |-> cur.path, node |-> Head(latest).node])
       ELSE UNCHANGED contacts
    /\ UNCHANGED <<cur, nextId, toNs, fromNs, latest, where, nsLog>>

(* Mutant: every buffer becomes latest, printed replies included.         *)
ListenerRecvAnyText ==
    /\ cpc # "done" /\ fromNs # <<>>
    /\ \E j \in 1 .. Len(fromNs) :
         /\ fromNs' = SubSeq(fromNs, j + 1, Len(fromNs))
         /\ latest' = SubSeq(fromNs, 1, j)
    /\ UNCHANGED <<cpc, cur, nextId, toNs, where, nsLog, contacts>>

(* listen_to_ns: one read returns the first j replies in flight.  If the   *)
(* buffer starts "IP", "File not found" or "Unknown command" it becomes    *)
(* latest whole; anything else is printed.                                 *)
ListenerRecv ==
    /\ cpc # "done" /\ fromNs # <<>>
    /\ \E j \in 1 .. Len(fromNs) :
         LET buf == SubSeq(fromNs, 1, j) IN
         /\ fromNs' = SubSeq(fromNs, j + 1, Len(fromNs))
         /\ IF Head(buf).kind \in {"IP", "NOTFOUND", "UNKNOWN"}
            THEN latest' = buf ELSE UNCHANGED latest
    /\ UNCHANGED <<cpc, cur, nextId, toNs, where, nsLog, contacts>>

-----------------------------------------------------------------------------
(* Naming server, handle_client.                                           *)

ReplyOf(r, kind, n) == [id |-> r.id, path |-> r.path, kind |-> kind, node |-> n]

(* The handler for one parsed request: the reply it sends, or <<>>, and   *)
(* its effect on the index.  ok: the path parsed is the one typed.         *)
(*  READ/WRITE/INFO/STREAM: the resolved node's address or not found.     *)
(*  DELETE: a found path is removed silently; otherwise not found.         *)
(*  CREATE_F: an existing path is refused with a printed message; else the *)
(*  parent's node creates it silently, or "Directory Not Found".           *)
(*  Anything else: "Unknown command".                                      *)
Handle(r, ok) ==
    LET n == IF ok THEN where[r.path] ELSE NoNode
        send(m) == /\ fromNs' = fromNs \o m /\ nsLog' = nsLog \o m
    IN CASE r.cmd = "HELLO" -> send(<<>>) /\ UNCHANGED where
         [] r.cmd \in Lookups ->
              /\ send(IF n # NoNode THEN <<ReplyOf(r, "IP", n)>>
                      ELSE <<ReplyOf(r, "NOTFOUND", NoNode)>>)
              /\ UNCHANGED where
         [] r.cmd = "DELETE" ->
              IF n # NoNode
              THEN send(<<>>) /\ where' = [where EXCEPT ![r.path] = NoNode]
              ELSE send(<<ReplyOf(r, "NOTFOUND", NoNode)>>) /\ UNCHANGED where
         [] r.cmd = "CREATE_F" ->
              IF n # NoNode
              THEN send(<<ReplyOf(r, "TEXT", NoNode)>>) /\ UNCHANGED where
              ELSE \/ send(<<ReplyOf(r, "TEXT", NoNode)>>) /\ UNCHANGED where
                   \/ /\ send(<<>>)
                      /\ \E m \in Nodes :
                           where' = IF ok THEN [where EXCEPT ![r.path] = m] ELSE where
         [] OTHER -> send(<<ReplyOf(r, "UNKNOWN", NoNode)>>) /\ UNCHANGED where

(* recv returns the first j requests in flight.  sscanf "%s %s" reads the  *)
(* first command, and its path runs into the next request's text, so with *)
(* j > 1 the path is one the index does not hold; the rest is lost.  The   *)
(* greeting is skipped with "continue".                                    *)
NsHandle ==
    /\ toNs # <<>>
    /\ \E j \in 1 .. Len(toNs) :
         /\ toNs' = SubSeq(toNs, j + 1, Len(toNs))
         /\ Handle(Head(toNs), j = 1)
    /\ UNCHANGED <<cpc, cur, nextId, latest, contacts>>

(* Nothing is in flight (or nobody is left to read it): both processes    *)
(* wait for the user, who may never type again.                            *)
Idle ==
    /\ toNs = <<>> /\ (fromNs = <<>> \/ cpc = "done")
    /\ UNCHANGED vars

Next ==
    \/ \E c \in Commands, p \in Paths : Send(c, p)
    \/ Exit \/ Decide \/ ListenerRecv \/ NsHandle
    \/ Idle

Spec == Init /\ [][Next]_vars

-----------------------------------------------------------------------------
(* Properties.                                                             *)

(* The client connects only to storage nodes whose address the naming      *)
(* server sent, for some request of the session: Decide acts on a buffer   *)
(* only after its "Unknown command" and "File not found" checks, which     *)
(* keep sscanf from leaving ss_ip unset.                                   *)
AddressesFromNs ==
    \A i \in 1 .. Len(contacts) :
        \E k \in 1 .. Len(nsLog) :
            nsLog[k].kind = "IP" /\ nsLog[k].node = contacts[i].node

(* Spec 7: the client reaches a storage node the naming server named for  *)
(* the path it asked about.  The main loop reads whatever reply arrived    *)
(* last, after a fixed sleep, and nothing ties that reply to the request.  *)
ContactsNamedNode ==
    \A i \in 1 .. Len(contacts) :
        \E k \in 1 .. Len(nsLog) :
            /\ nsLog[k].kind = "IP" /\ nsLog[k].path = contacts[i].path
            /\ nsLog[k].node = contacts[i].node
=============================================================================
