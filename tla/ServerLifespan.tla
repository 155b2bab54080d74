-------------------------- MODULE ServerLifespan --------------------------
(***************************************************************************)
(* Several server processes started in exec mode with one                  *)
(* state_store_dir: server/single_process_lock.py, the lifespan of         *)
(* server/main.py that takes and releases the lock, and the one thing the  *)
(* store's collector does to the lock file, which lies in its directory.   *)
(*                                                                         *)
(* A file is its inode: a process that opened the lock file keeps the      *)
(* inode although the path is unlinked.  flock is on the inode.            *)
(***************************************************************************)
EXTENDS Integers, FiniteSets

CONSTANTS
    Servers,     \* processes
    Inodes       \* bound: lock files ever created, positive numbers

VARIABLES
    phase,       \* where each process is in its lifespan
    opened,      \* inode of the lock file it has open, 0 for none
    locked,      \* the processes whose flock is on the inode they opened
    path,        \* inode at the lock's path, 0 when there is no file
    made,        \* inodes created so far
    old          \* the file at the path was written longer ago than the ttl

vars == <<phase, opened, locked, path, made, old>>

Phases == {"down", "opening", "starting", "up", "closing", "released"}

TypeOK ==
    /\ phase \in [Servers -> Phases]
    /\ opened \in [Servers -> Inodes \cup {0}]
    /\ locked \subseteq Servers
    /\ path \in made \cup {0} /\ made \subseteq Inodes
    /\ old \in BOOLEAN

Init ==
    /\ phase = [s \in Servers |-> "down"]
    /\ opened = [s \in Servers |-> 0]
    /\ locked = {} /\ path = 0 /\ made = {} /\ old = FALSE

Goes(s, from, to) == phase[s] = from /\ phase' = [phase EXCEPT ![s] = to]

\* acquire() opens the file, which creates it when there is none.
Open(s) ==
    /\ Goes(s, "down", "opening")
    /\ IF path # 0
       THEN opened' = [opened EXCEPT ![s] = path] /\ UNCHANGED <<path, made, old>>
       ELSE \E n \in Inodes \ made :
              /\ made' = made \cup {n} /\ path' = n /\ old' = FALSE
              /\ opened' = [opened EXCEPT ![s] = n]
    /\ UNCHANGED locked

\* flock(LOCK_EX | LOCK_NB), then the pid is written into the file; when the
\* inode is locked the start fails.
Lock(s) ==
    /\ IF \E o \in locked : opened[o] = opened[s]
       THEN /\ Goes(s, "opening", "down")
            /\ opened' = [opened EXCEPT ![s] = 0]
            /\ UNCHANGED <<locked, old>>
       ELSE /\ Goes(s, "opening", "starting")
            /\ locked' = locked \cup {s}
            /\ old' = (old /\ opened[s] # path)
            /\ UNCHANGED opened
    /\ UNCHANGED <<path, made>>

\* The store is read from the directory, the registry, the limiter and the
\* worker pool are built, the collector's task starts.
Serve(s) == Goes(s, "starting", "up") /\ UNCHANGED <<opened, locked, path, made, old>>

\* The lock file is never in the store's index: the collector's sweep unlinks
\* it like any file older than the time to live.
Sweep(s) ==
    /\ phase[s] = "up" /\ path # 0 /\ old
    /\ path' = 0 /\ old' = FALSE
    /\ UNCHANGED <<phase, opened, locked, made>>

TtlPasses ==
    /\ path # 0 /\ ~old
    /\ old' = TRUE
    /\ UNCHANGED <<phase, opened, locked, path, made>>

\* The lifespan ends, or its start failed after the lock was taken: the
\* collector is cancelled and the pool is emptied.
Close(s) ==
    /\ Goes(s, "up", "closing") \/ Goes(s, "starting", "closing")
    /\ UNCHANGED <<opened, locked, path, made, old>>

\* release() unlocks and closes the file it holds ...
Unlock(s) ==
    /\ Goes(s, "closing", "released")
    /\ locked' = locked \ {s}
    /\ opened' = [opened EXCEPT ![s] = 0]
    /\ UNCHANGED <<path, made, old>>

\* ... and then unlinks whatever is at the path.
Unlink(s) ==
    /\ Goes(s, "released", "down")
    /\ path' = 0 /\ old' = FALSE
    /\ UNCHANGED <<opened, locked, made>>

\* A killed process leaves its lock to the kernel and its file behind.
Kill(s) ==
    /\ phase[s] # "down"
    /\ phase' = [phase EXCEPT ![s] = "down"]
    /\ locked' = locked \ {s}
    /\ opened' = [opened EXCEPT ![s] = 0]
    /\ UNCHANGED <<path, made, old>>

Next ==
    \/ \E s \in Servers : \/ Open(s) \/ Lock(s) \/ Serve(s) \/ Sweep(s)
                          \/ Close(s) \/ Unlock(s) \/ Unlink(s) \/ Kill(s)
    \/ TtlPasses

Spec == Init /\ [][Next]_vars

\* The lock is there to prevent two server processes from sharing one state
\* store: two are never up at a time.
OneServer == \A s, o \in Servers : phase[s] = "up" /\ phase[o] = "up" => s = o
============================================================================
