----------------------------- MODULE AccessGate -----------------------------
(***************************************************************************)
(* What the storage node's per-file access controller promises (spec      *)
(* 4.5): per path the state is Idle, Reading(n) or Writing, and Reading   *)
(* and Writing never overlap.  A reader begins only while nobody writes;  *)
(* a writer begins only while nobody reads or writes.                     *)
(***************************************************************************)
CONSTANTS Threads, NoThread, Paths

VARIABLES
    readers,   \* readers[p]: threads currently reading p
    writer     \* writer[p]: the thread writing p, or NoThread

vars == <<readers, writer>>

Init ==
    /\ readers = [p \in Paths |-> {}]
    /\ writer = [p \in Paths |-> NoThread]

BeginRead(t, p) ==
    /\ writer[p] = NoThread
    /\ t \notin readers[p]
    /\ readers' = [readers EXCEPT ![p] = @ \cup {t}]
    /\ UNCHANGED writer

EndRead(t, p) ==
    /\ t \in readers[p]
    /\ readers' = [readers EXCEPT ![p] = @ \ {t}]
    /\ UNCHANGED writer

BeginWrite(t, p) ==
    /\ writer[p] = NoThread
    /\ readers[p] = {}
    /\ writer' = [writer EXCEPT ![p] = t]
    /\ UNCHANGED readers

EndWrite(t, p) ==
    /\ writer[p] = t
    /\ writer' = [writer EXCEPT ![p] = NoThread]
    /\ UNCHANGED readers

Next ==
    \E t \in Threads, p \in Paths :
        BeginRead(t, p) \/ EndRead(t, p) \/ BeginWrite(t, p) \/ EndWrite(t, p)

Spec == Init /\ [][Next]_vars
=============================================================================
