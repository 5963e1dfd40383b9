----------------------------- MODULE ProcessLock -----------------------------
(***************************************************************************)
(* The runtime mode locks (app/config/process_lock.py): a process that runs*)
(* a mode in a workspace holds an operating system lock on the mode's lock *)
(* file, and removes the file when it gives the lock back.  The launcher   *)
(* takes the locks of three modes, one inside the other; the bot's and the *)
(* worker's own commands take one each.                                    *)
(*                                                                         *)
(* A lock is on the file a handle is open on, not on the path: when the    *)
(* path is removed and created again, the old file lives on while it is    *)
(* open.  POSIX removes the path of an open file, Windows refuses to.      *)
(***************************************************************************)
EXTENDS Naturals, Sequences

CONSTANTS
    Processes,
    Modes,
    Program,         \* the modes each process takes, outermost first
    Files,           \* files that can exist
    UnlinkOpenFails, \* the platform refuses to remove the path of an open file
    None

ASSUME ProcessLockAssumption ==
    /\ Program \in [Processes -> Seq(Modes)]
    /\ \A p \in Processes :
         /\ Len(Program[p]) > 0
         /\ \A i, k \in 1 .. Len(Program[p]) : Program[p][i] = Program[p][k] => i = k
    /\ UnlinkOpenFails \in BOOLEAN
    /\ None \notin Files \cup Processes

VARIABLES
    pc,     \* where each process is
    level,  \* how many of its modes it has entered
    path,   \* the file at the path of each mode's lock, or None
    handle, \* the file each process has open for each mode, or None
    holder  \* the process whose lock is on a file, or None

vars == <<pc, level, path, handle, holder>>

PCs == {"idle", "open", "lock", "running", "unlock", "close", "unlink"}

\* The mode being acquired, and the innermost one entered
Acquiring(p) == Program[p][level[p] + 1]
Innermost(p) == Program[p][level[p]]

Open(f)  == \E p \in Processes, m \in Modes : handle[p][m] = f
Linked(f) == \E m \in Modes : path[m] = f

Init ==
    /\ pc = [p \in Processes |-> "idle"]
    /\ level = [p \in Processes |-> 0]
    /\ path = [m \in Modes |-> None]
    /\ handle = [p \in Processes |-> [m \in Modes |-> None]]
    /\ holder = [f \in Files |-> None]

Start(p) ==
    /\ pc[p] = "idle"
    /\ pc' = [pc EXCEPT ![p] = "open"]
    /\ UNCHANGED <<level, path, handle, holder>>

\* open("a+b") opens the file at the path, or creates one there.
OpenFile(p) ==
    LET m == Acquiring(p)
    IN  /\ pc[p] = "open"
        /\ \E f \in Files :
             /\ IF path[m] = None THEN ~Open(f) /\ ~Linked(f) ELSE f = path[m]
             /\ path' = [path EXCEPT ![m] = f]
             /\ handle' = [handle EXCEPT ![p][m] = f]
        /\ pc' = [pc EXCEPT ![p] = "lock"]
        /\ UNCHANGED <<level, holder>>

Unwind(p, depth) == [pc EXCEPT ![p] = IF depth = 0 THEN "idle" ELSE "unlock"]

\* Mutant of LockTaken: the refusal of the system is suppressed.
LockTakenAnyway(p) ==
    LET f == handle[p][Acquiring(p)]
    IN  /\ pc[p] = "lock"
        /\ holder' = [holder EXCEPT ![f] = p]
        /\ level' = [level EXCEPT ![p] = @ + 1]
        /\ pc' = [pc EXCEPT ![p] = IF level[p] + 1 = Len(Program[p]) THEN "running" ELSE "open"]
        /\ UNCHANGED <<path, handle>>

LockTaken(p) ==
    LET f == handle[p][Acquiring(p)]
    IN  /\ pc[p] = "lock"
        /\ holder[f] = None
        /\ holder' = [holder EXCEPT ![f] = p]
        /\ level' = [level EXCEPT ![p] = @ + 1]
        /\ pc' = [pc EXCEPT ![p] = IF level[p] + 1 = Len(Program[p]) THEN "running" ELSE "open"]
        /\ UNCHANGED <<path, handle>>

\* Mutant of LockRefused: the outer locks are forgotten, not released.
LockRefusedForgetful(p) ==
    /\ pc[p] = "lock"
    /\ holder[handle[p][Acquiring(p)]] # None
    /\ handle' = [handle EXCEPT ![p][Acquiring(p)] = None]
    /\ pc' = [pc EXCEPT ![p] = "idle"]
    /\ level' = [level EXCEPT ![p] = 0]
    /\ UNCHANGED <<path, holder>>

\* Mutant of LockRefused: the refused mode is left like one that was entered.
LockRefusedInside(p) ==
    /\ pc[p] = "lock"
    /\ holder[handle[p][Acquiring(p)]] # None
    /\ handle' = [handle EXCEPT ![p][Acquiring(p)] = None]
    /\ level' = [level EXCEPT ![p] = @ - 1]
    /\ pc' = [pc EXCEPT ![p] = "unlock"]
    /\ UNCHANGED <<path, holder>>

\* The handle is closed, and the error leaves the modes entered so far.
LockRefused(p) ==
    /\ pc[p] = "lock"
    /\ holder[handle[p][Acquiring(p)]] # None
    /\ handle' = [handle EXCEPT ![p][Acquiring(p)] = None]
    /\ pc' = Unwind(p, level[p])
    /\ UNCHANGED <<level, path, holder>>

Finish(p) ==
    /\ pc[p] = "running"
    /\ pc' = [pc EXCEPT ![p] = "unlock"]
    /\ UNCHANGED <<level, path, handle, holder>>

\* release: unlock, close, and only then unlink
Unlock(p) ==
    /\ pc[p] = "unlock"
    /\ holder' = [holder EXCEPT ![handle[p][Innermost(p)]] = None]
    /\ pc' = [pc EXCEPT ![p] = "close"]
    /\ UNCHANGED <<level, path, handle>>

Close(p) ==
    /\ pc[p] = "close"
    /\ handle' = [handle EXCEPT ![p][Innermost(p)] = None]
    /\ pc' = [pc EXCEPT ![p] = "unlink"]
    /\ UNCHANGED <<level, path, holder>>

\* By path: whatever file is there now.
Unlink(p) ==
    LET m == Innermost(p)
    IN  /\ pc[p] = "unlink"
        /\ path' = IF UnlinkOpenFails /\ path[m] # None /\ Open(path[m])
                   THEN path
                   ELSE [path EXCEPT ![m] = None]
        /\ level' = [level EXCEPT ![p] = @ - 1]
        /\ pc' = Unwind(p, level[p] - 1)
        /\ UNCHANGED <<handle, holder>>

\* The system closes the handles of a process that dies; the files stay.
Kill(p) ==
    /\ pc[p] # "idle"
    /\ pc' = [pc EXCEPT ![p] = "idle"]
    /\ level' = [level EXCEPT ![p] = 0]
    /\ handle' = [handle EXCEPT ![p] = [m \in Modes |-> None]]
    /\ holder' = [f \in Files |-> IF holder[f] = p THEN None ELSE holder[f]]
    /\ UNCHANGED path

Next ==
    \E p \in Processes :
        \/ Start(p) \/ OpenFile(p) \/ LockTaken(p) \/ LockRefused(p)
        \/ Finish(p) \/ Unlock(p) \/ Close(p) \/ Unlink(p) \/ Kill(p)

Spec == Init /\ [][Next]_vars

-----------------------------------------------------------------------------
TypeOK ==
    /\ pc \in [Processes -> PCs]
    /\ level \in [Processes -> Nat]
    /\ path \in [Modes -> Files \cup {None}]
    /\ handle \in [Processes -> [Modes -> Files \cup {None}]]
    /\ holder \in [Files -> Processes \cup {None}]

\* Process p is inside the with block of its i-th mode.
Inside(p, i) == i <= level[p] /\ (pc[p] \in {"close", "unlink"} => i < level[p])

\* Two processes are never inside the same mode ("Raised when a runtime mode is
\* already active in the same workspace", the purpose of acquire).
ModeExclusive ==
    \A p, q \in Processes :
        \A i \in 1 .. Len(Program[p]), k \in 1 .. Len(Program[q]) :
            Inside(p, i) /\ Inside(q, k) /\ Program[p][i] = Program[q][k] => p = q

\* A process that was refused or killed at any point of the three nested locks
\* keeps none of them (__exit__ of the outer locks): every lock on a file
\* belongs to a process that is inside one of its modes.
LocksOwned ==
    \A f \in Files : holder[f] # None =>
        \E i \in 1 .. Len(Program[holder[f]]) :
            /\ Inside(holder[f], i)
            /\ handle[holder[f]][Program[holder[f]][i]] = f
=============================================================================
