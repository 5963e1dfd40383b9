--------------------------- MODULE ProcessLockProofs ---------------------------
(***************************************************************************)
(* The mode locks, for any processes, modes and files: what a process that *)
(* is refused or dies leaves behind, on every platform, and that no mode   *)
(* runs twice where an open file cannot be removed.                        *)
(***************************************************************************)
EXTENDS ProcessLock, TLAPS

\* The number of modes that process p passes through
Depth(p) == Len(Program[p])

\* Where a process is says how many modes it has entered.
LevelInv ==
    \A p \in Processes :
        /\ level[p] \in 0 .. Depth(p)
        /\ pc[p] = "idle" => level[p] = 0
        /\ pc[p] \in {"open", "lock"} => level[p] < Depth(p)
        /\ pc[p] \in {"running", "unlock", "close", "unlink"} => level[p] > 0
        /\ pc[p] = "lock" => handle[p][Acquiring(p)] # None

\* A process that is inside a mode has its file open and locked.
InsideLocked ==
    \A p \in Processes : \A i \in 1 .. Depth(p) :
        Inside(p, i) => /\ handle[p][Program[p][i]] # None
                        /\ holder[handle[p][Program[p][i]]] = p

\* No file is open or at a path for two modes.
Used(f, m) == path[m] = f \/ \E p \in Processes : handle[p][m] = f

FilesApart == \A f \in Files, m, n \in Modes : Used(f, m) /\ Used(f, n) => m = n

\* An open file is the one at the path of its mode.
OpenLinked == \A p \in Processes, m \in Modes : handle[p][m] # None => path[m] = handle[p][m]

-----------------------------------------------------------------------------
\* The modes of a program are modes, and different ones.
LEMMA ProgramModes ==
  ASSUME NEW p \in Processes
  PROVE  /\ Depth(p) \in Nat \ {0}
         /\ \A i \in 1 .. Depth(p) : Program[p][i] \in Modes
         /\ \A i, k \in 1 .. Depth(p) : Program[p][i] = Program[p][k] => i = k
BY ProcessLockAssumption DEF Depth

\* The modes a process acquires and leaves are of its program.
LEMMA AcquiringMode ==
  ASSUME LevelInv, NEW p \in Processes, pc[p] \in {"open", "lock"}
  PROVE  /\ level[p] + 1 \in 1 .. Depth(p)
         /\ Acquiring(p) \in Modes
         /\ \A i \in 1 .. Depth(p) : Program[p][i] = Acquiring(p) => i = level[p] + 1
<1>1. level[p] + 1 \in 1 .. Depth(p)
  BY ProgramModes DEF LevelInv
<1> QED BY <1>1, ProgramModes DEF Acquiring

LEMMA InnermostMode ==
  ASSUME LevelInv, NEW p \in Processes, pc[p] \in {"running", "unlock", "close", "unlink"}
  PROVE  /\ level[p] \in 1 .. Depth(p)
         /\ Innermost(p) \in Modes
         /\ \A i \in 1 .. Depth(p) : Program[p][i] = Innermost(p) => i = level[p]
<1>1. level[p] \in 1 .. Depth(p)
  BY ProgramModes DEF LevelInv
<1> QED BY <1>1, ProgramModes DEF Innermost

-----------------------------------------------------------------------------
(* What holds on every platform.                                           *)

LocksInv == TypeOK /\ LevelInv /\ InsideLocked /\ FilesApart /\ LocksOwned

LEMMA LocksInit == Init => LocksInv
<1> SUFFICES ASSUME Init PROVE LocksInv
  OBVIOUS
<1>1. TypeOK
  BY DEF Init, TypeOK, PCs
<1>2. LevelInv
  <2> SUFFICES ASSUME NEW p \in Processes
               PROVE  pc[p] = "idle" /\ level[p] = 0 /\ 0 \in 0 .. Depth(p)
    BY DEF LevelInv
  <2> QED BY ProgramModes DEF Init
<1>3. InsideLocked
  BY ProgramModes DEF Init, InsideLocked, Inside
<1>4. FilesApart
  BY ProcessLockAssumption DEF Init, FilesApart, Used
<1>5. LocksOwned
  BY DEF Init, LocksOwned
<1> QED BY <1>1, <1>2, <1>3, <1>4, <1>5 DEF LocksInv

\* The step of each action, from the state it starts in.
LEMMA TypeStep ==
  ASSUME LocksInv, NEW p \in Processes,
         Start(p) \/ OpenFile(p) \/ LockTaken(p) \/ LockRefused(p)
         \/ Finish(p) \/ Unlock(p) \/ Close(p) \/ Unlink(p) \/ Kill(p)
  PROVE  TypeOK'
<1> USE DEF LocksInv, TypeOK, PCs
<1>1. CASE Start(p)
  BY <1>1 DEF Start
<1>2. CASE OpenFile(p)
  <2>1. Acquiring(p) \in Modes
    BY <1>2, AcquiringMode DEF OpenFile
  <2> QED BY <1>2, <2>1 DEF OpenFile
<1>3. CASE LockTaken(p)
  <2>1. Acquiring(p) \in Modes
    BY <1>3, AcquiringMode DEF LockTaken
  <2> DEFINE next == IF level[p] + 1 = Len(Program[p]) THEN "running" ELSE "open"
  <2>2. next \in PCs /\ pc' = [pc EXCEPT ![p] = next]
    BY <1>3 DEF LockTaken
  <2> HIDE DEF next
  <2>3. level' \in [Processes -> Nat] /\ holder' \in [Files -> Processes \cup {None}]
    <3>1. level' = [level EXCEPT ![p] = level[p] + 1]
      BY <1>3 DEF LockTaken
    <3>2. PICK f : holder' = [holder EXCEPT ![f] = p]
      BY <1>3 DEF LockTaken
    <3>3. level' \in [Processes -> Nat]
      BY <3>1
    <3>4. holder' \in [Files -> Processes \cup {None}]
      BY <3>2
    <3> QED BY <3>3, <3>4
  <2>4. path' = path /\ handle' = handle
    BY <1>3 DEF LockTaken
  <2> QED BY <2>2, <2>3, <2>4
<1>4. CASE LockRefused(p)
  <2>1. Acquiring(p) \in Modes
    BY <1>4, AcquiringMode DEF LockRefused
  <2> QED BY <1>4, <2>1 DEF LockRefused, Unwind
<1>5. CASE Finish(p)
  BY <1>5 DEF Finish
<1>6. CASE Unlock(p)
  BY <1>6 DEF Unlock
<1>7. CASE Close(p)
  <2>1. Innermost(p) \in Modes
    BY <1>7, InnermostMode DEF Close
  <2> QED BY <1>7, <2>1 DEF Close
<1>8. CASE Unlink(p)
  <2>1. Innermost(p) \in Modes /\ level[p] \in 1 .. Depth(p)
    BY <1>8, InnermostMode DEF Unlink
  <2>2. path' \in [Modes -> Files \cup {None}]
    BY <1>8, <2>1 DEF Unlink
  <2>3. level[p] - 1 \in Nat
    BY <2>1
  <2> QED BY <1>8, <2>2, <2>3 DEF Unlink, Unwind
<1>9. CASE Kill(p)
  BY <1>9 DEF Kill
<1> QED BY <1>1, <1>2, <1>3, <1>4, <1>5, <1>6, <1>7, <1>8, <1>9

LEMMA LevelStep ==
  ASSUME LocksInv, NEW p \in Processes,
         Start(p) \/ OpenFile(p) \/ LockTaken(p) \/ LockRefused(p)
         \/ Finish(p) \/ Unlock(p) \/ Close(p) \/ Unlink(p) \/ Kill(p)
  PROVE  LevelInv'
<1> USE DEF LocksInv, TypeOK
<1> DEFINE Placed(q) == /\ level[q] \in 0 .. Depth(q)
                        /\ pc[q] = "idle" => level[q] = 0
                        /\ pc[q] \in {"open", "lock"} => level[q] < Depth(q)
                        /\ pc[q] \in {"running", "unlock", "close", "unlink"} => level[q] > 0
                        /\ pc[q] = "lock" => handle[q][Acquiring(q)] # None
<1>1. \A q \in Processes \ {p} : Placed(q)'
  <2> SUFFICES ASSUME NEW q \in Processes, q # p PROVE Placed(q)'
    OBVIOUS
  <2>1. Placed(q)
    BY DEF LevelInv
  <2>2. pc'[q] = pc[q] /\ level'[q] = level[q] /\ handle'[q] = handle[q]
    BY DEF Start, OpenFile, LockTaken, LockRefused, Finish, Unlock, Close, Unlink, Kill, Unwind
  <2> QED BY <2>1, <2>2 DEF Acquiring
<1>2. Placed(p)'
  <2>0. Placed(p) /\ Depth(p) \in Nat \ {0}
    BY ProgramModes DEF LevelInv
  <2>1. CASE Start(p)
    BY <2>0, <2>1 DEF Start
  <2>2. CASE OpenFile(p)
    <3>1. Acquiring(p) \in Modes /\ level' = level
      BY <2>2, AcquiringMode DEF OpenFile
    <3>2. PICK f \in Files : handle' = [handle EXCEPT ![p][Acquiring(p)] = f]
      BY <2>2 DEF OpenFile
    <3>3. handle'[p][Acquiring(p)] # None /\ Acquiring(p)' = Acquiring(p)
      BY <3>1, <3>2, ProcessLockAssumption DEF Acquiring
    <3>4. pc'[p] = "lock" /\ pc[p] = "open"
      BY <2>2 DEF OpenFile
    <3> QED BY <2>0, <3>1, <3>3, <3>4
  <2>3. CASE LockTaken(p)
    <3>1. pc[p] = "lock" /\ level'[p] = level[p] + 1
      BY <2>3 DEF LockTaken
    <3>2. IF level[p] + 1 = Depth(p) THEN pc'[p] = "running" ELSE pc'[p] = "open"
      BY <2>3 DEF LockTaken, Depth
    <3>3. level[p] < Depth(p) /\ level[p] \in Nat
      BY <2>0, <3>1
    <3>4. level'[p] \in 0 .. Depth(p) /\ level'[p] > 0
      BY <2>0, <3>1, <3>3
    <3>5. CASE pc'[p] = "running"
      BY <3>4, <3>5
    <3>6. CASE pc'[p] = "open" /\ level[p] + 1 # Depth(p)
      <4>1. level'[p] < Depth(p)
        BY <2>0, <3>1, <3>3, <3>6
      <4> QED BY <3>4, <3>6, <4>1
    <3> QED BY <3>2, <3>5, <3>6
  <2>4. CASE LockRefused(p)
    <3>1. level' = level /\ pc'[p] = (IF level[p] = 0 THEN "idle" ELSE "unlock")
      BY <2>4 DEF LockRefused, Unwind
    <3> QED BY <2>0, <3>1
  <2>5. CASE Finish(p)
    BY <2>0, <2>5 DEF Finish
  <2>6. CASE Unlock(p)
    BY <2>0, <2>6 DEF Unlock
  <2>7. CASE Close(p)
    BY <2>0, <2>7 DEF Close
  <2>8. CASE Unlink(p)
    <3>1. pc[p] = "unlink" /\ level'[p] = level[p] - 1
      BY <2>8 DEF Unlink
    <3>2. pc'[p] = (IF level[p] - 1 = 0 THEN "idle" ELSE "unlock")
      BY <2>8 DEF Unlink, Unwind
    <3>3. level[p] - 1 \in 0 .. Depth(p) /\ level[p] - 1 < Depth(p)
      BY <2>0, <3>1
    <3> QED BY <2>0, <3>1, <3>2, <3>3
  <2>9. CASE Kill(p)
    <3>1. pc'[p] = "idle" /\ level'[p] = 0
      BY <2>9 DEF Kill
    <3> QED BY <2>0, <3>1
  <2> QED BY <2>1, <2>2, <2>3, <2>4, <2>5, <2>6, <2>7, <2>8, <2>9
<1> QED BY <1>1, <1>2 DEF LevelInv

LEMMA ApartStep ==
  ASSUME LocksInv, NEW p \in Processes,
         Start(p) \/ OpenFile(p) \/ LockTaken(p) \/ LockRefused(p)
         \/ Finish(p) \/ Unlock(p) \/ Close(p) \/ Unlink(p) \/ Kill(p)
  PROVE  FilesApart'
<1> USE DEF LocksInv, TypeOK
<1>1. CASE OpenFile(p)
  <2> DEFINE m == Acquiring(p)
  <2>1. m \in Modes
    BY <1>1, AcquiringMode DEF OpenFile
  <2>2. PICK g \in Files : /\ IF path[m] = None THEN ~Open(g) /\ ~Linked(g) ELSE g = path[m]
                           /\ path' = [path EXCEPT ![m] = g]
                           /\ handle' = [handle EXCEPT ![p][m] = g]
    BY <1>1 DEF OpenFile
  <2>3. \A n \in Modes : Used(g, n) => n = m
    <3>1. CASE path[m] = None
      BY <2>2, <3>1 DEF Open, Linked, Used
    <3>2. CASE path[m] # None
      BY <2>1, <2>2, <3>2 DEF FilesApart, Used
    <3> QED BY <3>1, <3>2
  <2> HIDE DEF m
  <2>4. \A f \in Files, n \in Modes : Used(f, n)' => Used(f, n) \/ (f = g /\ n = m)
    BY <2>1, <2>2 DEF Used
  <2> QED BY <2>3, <2>4 DEF FilesApart
<1>2. CASE ~OpenFile(p)
  <2>1. \A f \in Files, n \in Modes : Used(f, n)' => Used(f, n)
    <3> SUFFICES ASSUME NEW f \in Files, NEW n \in Modes, Used(f, n)' PROVE Used(f, n)
      OBVIOUS
    <3>1. path'[n] \in {path[n], None}
      BY <1>2 DEF Start, LockTaken, LockRefused, Finish, Unlock, Close, Unlink, Kill
    <3>2. \A q \in Processes : handle'[q][n] \in {handle[q][n], None}
      <4>1. CASE LockRefused(p) \/ Close(p)
        <5>1. PICK m : handle' = [handle EXCEPT ![p][m] = None]
          BY <4>1 DEF LockRefused, Close
        <5> QED BY <5>1
      <4>2. CASE Kill(p)
        BY <4>2 DEF Kill
      <4>3. CASE Start(p) \/ LockTaken(p) \/ Finish(p) \/ Unlock(p) \/ Unlink(p)
        BY <4>3 DEF Start, LockTaken, Finish, Unlock, Unlink
      <4> QED BY <1>2, <4>1, <4>2, <4>3
    <3> QED BY <3>1, <3>2, ProcessLockAssumption DEF Used
  <2> QED BY <2>1 DEF FilesApart
<1> QED BY <1>1, <1>2

\* What an action of p leaves alone of another process.
LEMMA OthersKeep ==
  ASSUME NEW p \in Processes, NEW q \in Processes, q # p, TypeOK,
         Start(p) \/ OpenFile(p) \/ LockTaken(p) \/ LockRefused(p)
         \/ Finish(p) \/ Unlock(p) \/ Close(p) \/ Unlink(p) \/ Kill(p)
  PROVE  pc'[q] = pc[q] /\ level'[q] = level[q] /\ handle'[q] = handle[q]
BY DEF TypeOK, Start, OpenFile, LockTaken, LockRefused, Finish, Unlock, Close, Unlink, Kill, Unwind

\* The file that a process inside a mode has locked.
LEMMA LockedFile ==
  ASSUME LocksInv, NEW p \in Processes, NEW i \in 1 .. Depth(p), Inside(p, i)
  PROVE  /\ handle[p][Program[p][i]] \in Files
         /\ holder[handle[p][Program[p][i]]] = p
BY ProgramModes DEF LocksInv, TypeOK, InsideLocked

LEMMA InsideStep ==
  ASSUME LocksInv, NEW p \in Processes,
         Start(p) \/ OpenFile(p) \/ LockTaken(p) \/ LockRefused(p)
         \/ Finish(p) \/ Unlock(p) \/ Close(p) \/ Unlink(p) \/ Kill(p)
  PROVE  InsideLocked'
<1> USE ProcessLockAssumption
<1> SUFFICES ASSUME NEW q \in Processes, NEW i \in 1 .. Depth(q), Inside(q, i)'
             PROVE  /\ handle'[q][Program[q][i]] # None
                    /\ holder'[handle'[q][Program[q][i]]] = q
  BY DEF InsideLocked, Depth
<1> DEFINE n == Program[q][i]
           f == handle[q][n]
<1>0. TypeOK /\ LevelInv /\ n \in Modes /\ i \in Nat \ {0} /\ Depth(q) \in Nat
  BY ProgramModes DEF LocksInv
<1>1. CASE q # p
  <2>1. pc'[q] = pc[q] /\ level'[q] = level[q] /\ handle'[q] = handle[q]
    BY <1>0, <1>1, OthersKeep
  <2>2. f \in Files /\ holder[f] = q
    BY <2>1, LockedFile DEF Inside
  <2>3. holder'[f] = q
    <3>1. CASE LockTaken(p)
      BY <1>0, <1>1, <2>2, <3>1 DEF LockTaken, TypeOK
    <3>2. CASE Unlock(p)
      <4>1. level[p] \in 1 .. Depth(p) /\ Inside(p, level[p])
        BY <1>0, <3>2, InnermostMode DEF Unlock, Inside
      <4>2. holder[handle[p][Innermost(p)]] = p
        BY <4>1, LockedFile DEF Innermost
      <4> QED BY <1>0, <1>1, <2>2, <3>2, <4>2 DEF Unlock, TypeOK
    <3>3. CASE Kill(p)
      BY <1>1, <2>2, <3>3 DEF Kill
    <3>4. CASE ~LockTaken(p) /\ ~Unlock(p) /\ ~Kill(p)
      BY <2>2, <3>4 DEF Start, OpenFile, LockRefused, Finish, Close, Unlink
    <3> QED BY <3>1, <3>2, <3>3, <3>4
  <2> QED BY <2>1, <2>2, <2>3
<1>2. CASE q = p
  <2>0. level[p] \in Nat
    BY <1>0 DEF TypeOK
  <2>1. CASE Start(p)
    <3>1. level'[p] = 0
      BY <1>0, <2>1 DEF Start, LevelInv
    <3> QED BY <1>0, <1>2, <3>1 DEF Inside
  <2>2. CASE OpenFile(p)
    <3>1. level' = level /\ pc[p] = "open" /\ holder' = holder
      BY <2>2 DEF OpenFile
    <3>2. Inside(p, i) /\ i # level[p] + 1
      BY <1>0, <1>2, <2>0, <3>1 DEF Inside
    <3>3. Acquiring(p) \in Modes /\ n # Acquiring(p)
      BY <1>0, <1>2, <3>1, <3>2, AcquiringMode
    <3>4. PICK g : handle' = [handle EXCEPT ![p][Acquiring(p)] = g]
      BY <2>2 DEF OpenFile
    <3>5. handle'[p][n] = f
      BY <1>0, <1>2, <3>3, <3>4 DEF TypeOK
    <3> QED BY <1>2, <3>1, <3>2, <3>5, LockedFile
  <2>3. CASE LockTaken(p)
    <3> DEFINE g == handle[p][Acquiring(p)]
    <3>1. /\ pc[p] = "lock" /\ holder[g] = None
          /\ level'[p] = level[p] + 1 /\ handle' = handle
          /\ holder' = [holder EXCEPT ![g] = p]
      BY <1>0, <2>3 DEF LockTaken, TypeOK
    <3>2. g \in Files
      BY <1>0, <3>1, AcquiringMode DEF LevelInv, TypeOK
    <3>3. CASE i = level[p] + 1
      BY <1>0, <1>2, <3>1, <3>2, <3>3 DEF Acquiring, TypeOK
    <3>4. CASE i # level[p] + 1
      <4>1. Inside(p, i)
        BY <1>0, <1>2, <2>0, <3>1, <3>4 DEF Inside
      <4>2. f \in Files /\ holder[f] = p
        BY <1>2, <4>1, LockedFile
      <4> QED BY <1>0, <1>2, <3>1, <4>2 DEF TypeOK
    <3> QED BY <3>3, <3>4
  <2>4. CASE LockRefused(p)
    <3>1. level' = level /\ pc[p] = "lock" /\ holder' = holder
      BY <2>4 DEF LockRefused
    <3>2. Inside(p, i) /\ i # level[p] + 1
      BY <1>0, <1>2, <2>0, <3>1 DEF Inside
    <3>3. Acquiring(p) \in Modes /\ n # Acquiring(p)
      BY <1>0, <1>2, <3>1, <3>2, AcquiringMode
    <3>4. handle'[p][n] = f
      BY <1>0, <1>2, <2>4, <3>3 DEF LockRefused, TypeOK
    <3> QED BY <1>2, <3>1, <3>2, <3>4, LockedFile
  <2>5. CASE Finish(p)
    <3>1. Inside(p, i) /\ handle' = handle /\ holder' = holder
      BY <1>2, <2>5 DEF Finish, Inside
    <3> QED BY <1>2, <3>1, LockedFile
  <2>6. CASE Unlock(p)
    <3> DEFINE g == handle[p][Innermost(p)]
    <3>1. /\ pc[p] = "unlock" /\ pc'[p] = "close"
          /\ level' = level /\ handle' = handle
          /\ holder' = [holder EXCEPT ![g] = None]
      BY <1>0, <2>6 DEF Unlock, TypeOK
    <3>2. i < level[p] /\ Inside(p, i)
      BY <1>2, <3>1 DEF Inside
    <3>3. f \in Files /\ holder[f] = p
      BY <1>2, <3>2, LockedFile
    <3>4. Innermost(p) \in Modes /\ n # Innermost(p)
      BY <1>0, <1>2, <2>0, <3>1, <3>2, InnermostMode
    <3>5. g # f
      BY <1>0, <1>2, <3>3, <3>4 DEF LocksInv, FilesApart, Used
    <3> QED BY <1>0, <1>2, <3>1, <3>3, <3>5 DEF TypeOK
  <2>7. CASE Close(p)
    <3>1. pc[p] = "close" /\ pc'[p] = "unlink" /\ level' = level /\ holder' = holder
      BY <1>0, <2>7 DEF Close, TypeOK
    <3>2. i < level[p] /\ Inside(p, i)
      BY <1>2, <3>1 DEF Inside
    <3>3. Innermost(p) \in Modes /\ n # Innermost(p)
      BY <1>0, <1>2, <2>0, <3>1, <3>2, InnermostMode
    <3>4. handle'[p][n] = f
      BY <1>0, <1>2, <2>7, <3>3 DEF Close, TypeOK
    <3> QED BY <1>2, <3>1, <3>2, <3>4, LockedFile
  <2>8. CASE Unlink(p)
    <3>1. pc[p] = "unlink" /\ level'[p] = level[p] - 1 /\ handle' = handle /\ holder' = holder
      BY <1>0, <2>8 DEF Unlink, TypeOK
    <3>2. Inside(p, i)
      BY <1>0, <1>2, <2>0, <3>1 DEF Inside
    <3> QED BY <1>2, <3>1, <3>2, LockedFile
  <2>9. CASE Kill(p)
    <3>1. level'[p] = 0
      BY <1>0, <2>9 DEF Kill, TypeOK
    <3> QED BY <1>0, <1>2, <3>1 DEF Inside
  <2> QED BY <2>1, <2>2, <2>3, <2>4, <2>5, <2>6, <2>7, <2>8, <2>9
<1> QED BY <1>1, <1>2

LEMMA OwnedStep ==
  ASSUME LocksInv, NEW p \in Processes,
         Start(p) \/ OpenFile(p) \/ LockTaken(p) \/ LockRefused(p)
         \/ Finish(p) \/ Unlock(p) \/ Close(p) \/ Unlink(p) \/ Kill(p)
  PROVE  LocksOwned'
<1> USE ProcessLockAssumption
<1> DEFINE Owner(q, f) == \E i \in 1 .. Depth(q) : Inside(q, i) /\ handle[q][Program[q][i]] = f
<1>0. TypeOK /\ LevelInv /\ LocksOwned /\ TypeOK'
  BY TypeStep DEF LocksInv
<1> SUFFICES ASSUME NEW f \in Files, NEW q \in Processes, holder'[f] = q PROVE Owner(q, f)'
  <2> SUFFICES ASSUME NEW f \in Files, holder'[f] # None
               PROVE  \E i \in 1 .. Len(Program[holder'[f]]) :
                        /\ Inside(holder[f], i)'
                        /\ handle'[holder'[f]][Program[holder'[f]][i]] = f
    BY DEF LocksOwned
  <2>1. PICK q \in Processes : holder'[f] = q
    BY <1>0 DEF TypeOK
  <2>2. Owner(q, f)'
    BY <2>1
  <2> QED BY <2>1, <2>2 DEF Depth, Inside
<1>1. CASE holder'[f] # holder[f]
  <2>1. LockTaken(p)
    BY <1>0, <1>1 DEF TypeOK, Start, OpenFile, LockRefused, Finish, Unlock, Close, Unlink, Kill
  <2>2. /\ pc[p] = "lock" /\ handle' = handle /\ level'[p] = level[p] + 1
        /\ holder'[f] = p /\ f = handle[p][Acquiring(p)]
        /\ pc'[p] \in {"running", "open"}
    BY <1>0, <1>1, <2>1 DEF LockTaken, TypeOK
  <2>3. level[p] + 1 \in 1 .. Depth(p)
    BY <1>0, <2>2, AcquiringMode
  <2> QED BY <2>2, <2>3 DEF Inside, Acquiring, Depth
<1>2. CASE holder'[f] = holder[f]
  <2>2. PICK i \in 1 .. Depth(q) : Inside(q, i) /\ handle[q][Program[q][i]] = f
    BY <1>0, <1>2 DEF LocksOwned, Depth
  <2> DEFINE n == Program[q][i]
  <2>3. n \in Modes /\ i \in Nat \ {0} /\ Depth(q) \in Nat
    BY ProgramModes
  <2> SUFFICES Inside(q, i)' /\ handle'[q][n] = f
    BY <2>3 DEF Depth
  <2>4. CASE q # p
    BY <1>0, <2>2, <2>4, OthersKeep DEF Inside
  <2>5. CASE q = p
    <3>0. level[p] \in Nat
      BY <1>0 DEF TypeOK
    <3>1. CASE Start(p)
      BY <1>0, <2>2, <2>5, <3>1 DEF Start, Inside, TypeOK
    <3>2. CASE OpenFile(p)
      <4>1. pc[p] = "open" /\ pc'[p] = "lock" /\ level' = level
        BY <1>0, <3>2 DEF OpenFile, TypeOK
      <4>2. Acquiring(p) \in Modes /\ n # Acquiring(p)
        BY <1>0, <2>2, <2>3, <2>5, <3>0, <4>1, AcquiringMode DEF Inside
      <4>3. PICK g : handle' = [handle EXCEPT ![p][Acquiring(p)] = g]
        BY <3>2 DEF OpenFile
      <4> QED BY <1>0, <2>2, <2>3, <2>5, <4>1, <4>2, <4>3 DEF Inside, TypeOK
    <3>3. CASE LockTaken(p)
      <4>1. level'[p] = level[p] + 1 /\ handle' = handle /\ pc'[p] \in {"running", "open"}
        BY <1>0, <3>3 DEF LockTaken, TypeOK
      <4> QED BY <2>2, <2>3, <2>5, <3>0, <4>1 DEF Inside
    <3>4. CASE LockRefused(p)
      <4>1. pc[p] = "lock" /\ pc'[p] \in {"idle", "unlock"} /\ level' = level
        BY <1>0, <3>4 DEF LockRefused, Unwind, TypeOK
      <4>2. Acquiring(p) \in Modes /\ n # Acquiring(p)
        BY <1>0, <2>2, <2>3, <2>5, <3>0, <4>1, AcquiringMode DEF Inside
      <4> QED BY <1>0, <2>2, <2>3, <2>5, <3>4, <4>1, <4>2 DEF LockRefused, Inside, TypeOK
    <3>5. CASE Finish(p)
      BY <1>0, <2>2, <2>5, <3>5 DEF Finish, Inside, TypeOK
    <3>6. CASE Unlock(p)
      <4>1. /\ pc[p] = "unlock" /\ pc'[p] = "close" /\ level' = level /\ handle' = handle
            /\ holder' = [holder EXCEPT ![handle[p][Innermost(p)]] = None]
        BY <1>0, <3>6 DEF Unlock, TypeOK
      <4>2. i # level[p]
        <5> SUFFICES ASSUME i = level[p] PROVE FALSE
          OBVIOUS
        <5>1. f = handle[p][Innermost(p)]
          BY <2>2, <2>5 DEF Innermost
        <5> QED BY <1>0, <5>1, <4>1 DEF TypeOK
      <4> QED BY <2>2, <2>3, <2>5, <3>0, <4>1, <4>2 DEF Inside
    <3>7. CASE Close(p)
      <4>1. pc[p] = "close" /\ pc'[p] = "unlink" /\ level' = level
        BY <1>0, <3>7 DEF Close, TypeOK
      <4>2. i < level[p]
        BY <2>2, <2>5, <4>1 DEF Inside
      <4>3. Innermost(p) \in Modes /\ n # Innermost(p)
        BY <1>0, <2>3, <2>5, <3>0, <4>1, <4>2, InnermostMode
      <4> QED BY <1>0, <2>2, <2>3, <2>5, <3>7, <4>1, <4>2, <4>3 DEF Close, Inside, TypeOK
    <3>8. CASE Unlink(p)
      <4>1. /\ pc[p] = "unlink" /\ pc'[p] \in {"idle", "unlock"}
            /\ level'[p] = level[p] - 1 /\ handle' = handle
        BY <1>0, <3>8 DEF Unlink, Unwind, TypeOK
      <4> QED BY <2>2, <2>3, <2>5, <3>0, <4>1 DEF Inside
    <3>9. CASE Kill(p)
      BY <1>2, <2>5, <3>9 DEF Kill
    <3> QED BY <3>1, <3>2, <3>3, <3>4, <3>5, <3>6, <3>7, <3>8, <3>9
  <2> QED BY <2>4, <2>5
<1> QED BY <1>1, <1>2

LEMMA LocksStep == LocksInv /\ [Next]_vars => LocksInv'
<1> SUFFICES ASSUME LocksInv, [Next]_vars PROVE LocksInv'
  OBVIOUS
<1>1. CASE Next
  BY <1>1, TypeStep, LevelStep, InsideStep, ApartStep, OwnedStep DEF Next, LocksInv
<1>2. CASE UNCHANGED vars
  BY <1>2 DEF vars, LocksInv, TypeOK, LevelInv, Acquiring, InsideLocked, Inside, FilesApart, Used, LocksOwned
<1> QED BY <1>1, <1>2

THEOREM LocksInvariance == Spec => []LocksInv
<1>1. Init => LocksInv
  BY LocksInit
<1>2. LocksInv /\ [Next]_vars => LocksInv'
  BY LocksStep
<1> QED BY <1>1, <1>2, PTL DEF Spec

\* The variables keep their types, on every platform (RuntimeModeLock).
THEOREM TypeCorrect == Spec => []TypeOK
<1>1. LocksInv => TypeOK
  BY DEF LocksInv
<1> QED BY <1>1, LocksInvariance, PTL

\* A lock on a file always belongs to a process that is inside a mode with that
\* file, however many processes were refused or killed half-way (__exit__).
THEOREM NoLockLeftBehind == Spec => []LocksOwned
<1>1. LocksInv => LocksOwned
  BY DEF LocksInv
<1> QED BY <1>1, LocksInvariance, PTL

-----------------------------------------------------------------------------
(* What holds where an open file cannot be removed.                        *)

LEMMA LinkedStep ==
  ASSUME UnlinkOpenFails, LocksInv, OpenLinked, NEW p \in Processes,
         Start(p) \/ OpenFile(p) \/ LockTaken(p) \/ LockRefused(p)
         \/ Finish(p) \/ Unlock(p) \/ Close(p) \/ Unlink(p) \/ Kill(p)
  PROVE  OpenLinked'
<1> USE ProcessLockAssumption
<1>0. TypeOK /\ LevelInv
  BY DEF LocksInv
<1> SUFFICES ASSUME NEW q \in Processes, NEW n \in Modes, handle'[q][n] # None
             PROVE  path'[n] = handle'[q][n]
  BY DEF OpenLinked
<1>1. CASE OpenFile(p)
  <2> DEFINE m == Acquiring(p)
  <2>1. m \in Modes
    BY <1>0, <1>1, AcquiringMode DEF OpenFile
  <2>2. PICK g \in Files : /\ IF path[m] = None THEN ~Open(g) /\ ~Linked(g) ELSE g = path[m]
                           /\ path' = [path EXCEPT ![m] = g]
                           /\ handle' = [handle EXCEPT ![p][m] = g]
    BY <1>1 DEF OpenFile
  <2> HIDE DEF m
  <2>3. CASE n # m
    BY <1>0, <2>1, <2>2, <2>3 DEF OpenLinked, TypeOK
  <2>4. CASE n = m /\ q = p
    BY <1>0, <2>1, <2>2, <2>4 DEF TypeOK
  <2>5. CASE n = m /\ q # p
    <3>1. handle[q][m] = handle'[q][m]
      BY <1>0, <2>2, <2>5 DEF TypeOK
    <3>2. path[m] = handle[q][m] /\ path[m] # None
      BY <2>1, <2>5, <3>1 DEF OpenLinked
    <3> QED BY <1>0, <2>1, <2>2, <2>5, <3>1, <3>2 DEF TypeOK
  <2> QED BY <2>3, <2>4, <2>5
<1>2. CASE Unlink(p)
  <2>1. handle' = handle
    BY <1>2 DEF Unlink
  <2>2. path[n] = handle[q][n] /\ path[n] # None /\ Open(path[n])
    BY <2>1 DEF OpenLinked, Open
  <2>3. path'[n] = path[n]
    BY <1>0, <1>2, <2>2 DEF Unlink, TypeOK
  <2> QED BY <2>1, <2>2, <2>3
<1>3. CASE LockRefused(p) \/ Close(p)
  <2>1. PICK m : handle' = [handle EXCEPT ![p][m] = None]
    BY <1>3 DEF LockRefused, Close
  <2>2. handle'[q][n] = handle[q][n]
    BY <1>0, <2>1 DEF TypeOK
  <2>3. path' = path
    BY <1>3 DEF LockRefused, Close
  <2> QED BY <2>2, <2>3 DEF OpenLinked
<1>4. CASE Kill(p)
  BY <1>0, <1>4 DEF Kill, OpenLinked, TypeOK
<1>5. CASE Start(p) \/ LockTaken(p) \/ Finish(p) \/ Unlock(p)
  BY <1>5 DEF Start, LockTaken, Finish, Unlock, OpenLinked
<1> QED BY <1>1, <1>2, <1>3, <1>4, <1>5

\* Where an open file cannot be removed, no mode runs in two processes, for any
\* number of processes and modes and any nesting of them.
THEOREM ModeRunsOnce ==
  ASSUME UnlinkOpenFails
  PROVE  Spec => []ModeExclusive
<1>1. Init => OpenLinked
  BY DEF Init, OpenLinked
<1>2. LocksInv /\ OpenLinked /\ [Next]_vars => OpenLinked'
  <2> SUFFICES ASSUME LocksInv, OpenLinked, [Next]_vars PROVE OpenLinked'
    OBVIOUS
  <2>1. CASE Next
    BY <2>1, LinkedStep DEF Next
  <2>2. CASE UNCHANGED vars
    BY <2>2 DEF vars, OpenLinked
  <2> QED BY <2>1, <2>2
<1>3. LocksInv /\ OpenLinked => ModeExclusive
  <2> SUFFICES ASSUME LocksInv, OpenLinked, NEW p \in Processes, NEW q \in Processes,
                      NEW i \in 1 .. Depth(p), NEW k \in 1 .. Depth(q),
                      Inside(p, i), Inside(q, k), Program[p][i] = Program[q][k]
               PROVE  p = q
    BY DEF ModeExclusive, Depth
  <2> DEFINE m == Program[p][i]
  <2>1. m \in Modes
    BY ProgramModes
  <2>2. handle[p][m] = path[m] /\ handle[q][m] = path[m]
    BY <2>1, LockedFile, ProcessLockAssumption DEF OpenLinked
  <2> QED BY <2>2, LockedFile
<1> QED BY <1>1, <1>2, <1>3, LocksInvariance, PTL DEF Spec
=============================================================================
