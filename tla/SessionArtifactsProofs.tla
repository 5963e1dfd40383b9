------------------------ MODULE SessionArtifactsProofs ------------------------
(***************************************************************************)
(* The session file and the runtime string, for any keys, any number of    *)
(* dials and any number of interruptions: the refresh is one dial's, no    *)
(* copy is left behind, a login that fails puts back what it parked, and   *)
(* the session of the file is not lost to a login that ends or fails.      *)
(***************************************************************************)
EXTENDS SessionArtifacts, TLAPS

\* A login that has ended knows nothing; one that has signed in has a key.
LoginKnows ==
    /\ step = "idle" => parked = {} /\ ~forced
    /\ step = "park" => parked = {}
    /\ step \in {"save", "discard"} => mine \in Keys

TypeInv == TypeOK /\ LoginKnows

\* A copy is of an artifact that the login has parked.
CopiesParked == ~interrupted => \A a \in Artifacts \ parked : backup[a] = "missing"

\* The login's client has the key of the session file.
ClientOfFile ==
    step \in {"connect", "login", "save", "discard"} =>
        mine = disk["session"] /\ mine # "missing"

\* The session that a forced login found is still in the file, then parked,
\* and put back unless its copy was removed.
FoundSessionSafe ==
    forced /\ before # "missing" =>
        /\ step = "park" => disk["session"] = before
        /\ step \in LoginSteps \ {"idle", "park"} => "session" \in parked
        /\ step \in LoginSteps \ {"idle", "park", "restore"} => backup["session"] = before
        /\ step = "restore" => backup["session"] \in {before, "missing"}

LoginInv == CopiesParked /\ ClientOfFile /\ FoundSessionSafe

-----------------------------------------------------------------------------
(* What the steps do to the files *)

LEMMA NamesOfArtifacts == "session" \in Artifacts /\ "runtime" \in Artifacts
BY DEF Artifacts

LEMMA NothingTyped == Nothing \in Content
BY DEF Nothing, Content, Session, NoKey, Artifacts

\* To create a client makes a missing session file a blank one.
LEMMA CreatedTyped ==
  ASSUME disk \in Content
  PROVE  /\ Created \in Content
         /\ Created["session"] \in Session \ {"missing"}
         /\ Created["session"] # disk["session"] =>
              disk["session"] = "missing" /\ Created["session"] = "blank"
         /\ Created["runtime"] = disk["runtime"]
BY DEF Created, Content, Session, NoKey, Artifacts

\* A write of the string that was cut off leaves the session file alone.
LEMMA CutOffTyped ==
  ASSUME NEW d \in Content, NEW e \in CutOff(d)
  PROVE  e \in Content /\ e["session"] = d["session"]
BY DEF CutOff, Content, Session, NoKey, Artifacts

LEMMA StringTyped ==
  ASSUME disk \in Content, NEW k \in Keys
  PROVE  /\ [disk EXCEPT !["runtime"] = k] \in Content
         /\ [disk EXCEPT !["runtime"] = k]["session"] = disk["session"]
BY ArtifactsAssumption DEF Content, Session, NoKey, Artifacts

LEMMA RemovedTyped ==
  ASSUME NEW files \in Content, NEW gone
  PROVE  /\ Removed(files, gone) \in Content
         /\ \A a \in Artifacts :
              Removed(files, gone)[a] = IF a \in gone THEN "missing" ELSE files[a]
BY DEF Removed, Content, Session, NoKey, Artifacts

LEMMA ReplacedTyped ==
  ASSUME NEW files \in Content, NEW by \in Content, NEW done
  PROVE  /\ Replaced(files, by, done) \in Content
         /\ \A a \in Artifacts :
              Replaced(files, by, done)[a] = IF a \in done THEN by[a] ELSE files[a]
BY DEF Replaced, Content, Session, NoKey, Artifacts

\* Half-way the place of an artifact that is done is not emptied again.
LEMMA HalfWayParts ==
  ASSUME NEW S \in SUBSET Artifacts, NEW h \in HalfWay(S)
  PROVE  h[1] \subseteq S /\ h[2] \subseteq S
BY DEF HalfWay, Artifacts

LEMMA HalfDoneTyped ==
  ASSUME disk \in Content, backup \in Content, parked \subseteq Artifacts,
         NEW files \in HalfDone
  PROVE  files[1] \in Content /\ files[2] \in Content
<1>1. CASE files \in PartlyParked
  <2>1. PICK h \in HalfWay(Existing) :
          files = <<Removed(disk, h[1]), Replaced(Removed(backup, h[2]), disk, h[1])>>
    BY <1>1 DEF PartlyParked
  <2> QED BY <2>1, RemovedTyped, ReplacedTyped
<1>2. CASE files \in PartlyRemoved
  BY <1>2, RemovedTyped DEF PartlyRemoved
<1>3. CASE files \in PartlySaved
  BY <1>3, CutOffTyped DEF PartlySaved
<1>4. CASE files \in PartlyDiscarded
  BY <1>4, RemovedTyped DEF PartlyDiscarded
<1>5. CASE files \in PartlyRestored
  <2>1. PICK h \in HalfWay(parked) :
          files = <<Replaced(Removed(disk, h[2]), backup, h[1]), Removed(backup, h[1])>>
    BY <1>5 DEF PartlyRestored
  <2> QED BY <2>1, RemovedTyped, ReplacedTyped
<1>6. CASE files = <<disk, backup>>
  BY <1>6
<1> QED BY <1>1, <1>2, <1>3, <1>4, <1>5, <1>6 DEF HalfDone

\* The login's steps that fail, and how far each can have come.
FailStep == LoginFails \/ ConnectFails \/ RemoveFails \/ SaveFails \/ DiscardFails

LEMMA FailsHalfDone ==
  ASSUME FailStep
  PROVE  /\ step \in {"open", "connect", "login", "save", "discard"}
         /\ Fail(HalfDone)
<1>1. CASE LoginFails \/ ConnectFails
  BY <1>1 DEF LoginFails, ConnectFails, Fail, Leaves
<1>2. CASE RemoveFails
  BY <1>2 DEF RemoveFails, FirstRefusal, HalfDone
<1>3. CASE SaveFails
  BY <1>3 DEF SaveFails, FirstRefusal, HalfDone
<1>4. CASE DiscardFails
  BY <1>4 DEF DiscardFails, FirstRefusal, HalfDone
<1> QED BY <1>1, <1>2, <1>3, <1>4 DEF FailStep

\* A step that ends half-way leaves typed artifacts.
LEMMA LeavesTyped ==
  ASSUME TypeOK, Leaves(HalfDone)
  PROVE  disk' \in Content /\ backup' \in Content /\ interrupts' \in 0 .. MaxInterrupts
BY HalfDoneTyped, ArtifactsAssumption DEF TypeOK, Leaves

\* A dial leaves the login and its copies alone; all it does to the session
\* file is to create a blank one.
DialLeaves ==
    /\ UNCHANGED <<backup, telegram, login>>
    /\ disk'["session"] # disk["session"] =>
         disk["session"] = "missing" /\ disk'["session"] = "blank"

LEMMA DialKeepsLogin ==
  ASSUME TypeOK, NEW c \in Connectors, DialStep(c)
  PROVE  DialLeaves
<1>1. CASE Dial(c) \/ ReadAgain(c) \/ FindString(c) \/ RefreshBusy(c) \/ StopWaiting(c)
  BY <1>1 DEF Dial, ReadAgain, ReadString, FindString, RefreshBusy, StopWaiting, DialLeaves
<1>2. CASE OpenSession(c)
  BY <1>2, CreatedTyped DEF OpenSession, DialLeaves, TypeOK
<1>3. CASE Exported(c)
  BY <1>3, StringTyped DEF Exported, DialLeaves, TypeOK
<1>4. CASE ExportFails(c) \/ Connects(c) \/ Refused(c) \/ Unreachable(c) \/ Disconnects(c)
  BY <1>4 DEF ExportFails, Connects, Refused, Unreachable, Disconnects, DialLeaves
<1>5. CASE Crash(c)
  BY <1>5, CutOffTyped DEF Crash, DialLeaves, TypeOK
<1> QED BY <1>1, <1>2, <1>3, <1>4, <1>5 DEF DialStep, Prepares, Answered, Refreshes

-----------------------------------------------------------------------------
(* Types *)

LEMMA TypeInit == Init => TypeInv
<1> SUFFICES ASSUME Init PROVE TypeInv
  OBVIOUS
<1>1. disk \in Content
  <2>1. disk = [a \in Artifacts |-> disk[a]] /\ \A a \in Artifacts : disk[a] \in {"missing", OldKey}
    BY DEF Init
  <2>2. "missing" \in Session /\ OldKey \in Session /\ OldKey \notin NoKey
    BY ArtifactsAssumption DEF Session, NoKey
  <2>3. [a \in Artifacts |-> disk[a]] \in Content
    BY <2>1, <2>2 DEF Content, Session, NoKey, Artifacts
  <2> QED BY <2>1, <2>3
<1>2. LoginKnows
  BY DEF Init, LoginKnows
<1>3. backup \in Content /\ before \in Session /\ mine \in Session /\ step \in LoginSteps
  BY NothingTyped DEF Init, Session, LoginSteps
<1>4. /\ pc \in [Connectors -> DialSteps]
      /\ held \in [Connectors -> Session]
      /\ refreshed \in [Connectors -> BOOLEAN]
      /\ refresh_lock \in Connectors \cup {None}
  BY DEF Init, DialSteps, Session
<1>5. issued \subseteq Keys /\ authorized \subseteq issued /\ interrupts \in 0 .. MaxInterrupts
  BY ArtifactsAssumption DEF Init
<1> QED BY <1>1, <1>2, <1>3, <1>4, <1>5 DEF Init, TypeInv, TypeOK

\* What a login that has ended leaves is typed.
LEMMA OverTyped ==
  ASSUME Over
  PROVE  /\ LoginKnows'
         /\ step' \in LoginSteps /\ forced' \in BOOLEAN /\ parked' \subseteq Artifacts
         /\ restarted' \in BOOLEAN /\ mine' \in Session /\ before' \in Session
BY DEF Over, LoginKnows, LoginSteps, Session

LEMMA QuitsTyped ==
  ASSUME TypeOK, NEW c \in Connectors, Quits(c)
  PROVE  /\ pc' \in [Connectors -> DialSteps]
         /\ held' \in [Connectors -> Session]
         /\ refreshed' \in [Connectors -> BOOLEAN]
BY DEF TypeOK, Quits, Ends, Forgets, Goes, DialSteps, Session

LEMMA TakesTyped ==
  ASSUME TypeOK, NEW c \in Connectors, NEW content, Takes(c, content)
  PROVE  /\ pc' \in [Connectors -> DialSteps]
         /\ held' \in [Connectors -> Session]
         /\ refreshed' \in [Connectors -> BOOLEAN]
BY QuitsTyped DEF TypeOK, Takes, Goes, DialSteps, Session

LEMMA TypeLogin ==
  ASSUME TypeInv, LoginStep
  PROVE  TypeInv'
<1> USE DEF TypeInv, TypeOK, LoginSteps
<1>1. CASE BeginReauthorization
  BY <1>1 DEF BeginReauthorization, LoginKnows, telegram, dials, Content
<1>2. CASE BeginLogin
  BY <1>2 DEF BeginLogin, LoginKnows, telegram, dials
<1>3. CASE Park
  BY <1>3, RemovedTyped, ReplacedTyped DEF Park, Existing, LoginKnows, telegram, dials
<1>4. CASE FailStep
  <2>1. Fail(HalfDone)
    BY <1>4, FailsHalfDone
  <2>2. disk' \in Content /\ backup' \in Content /\ interrupts' \in 0 .. MaxInterrupts
    BY <2>1, LeavesTyped DEF Fail
  <2> QED BY <2>1, <2>2 DEF Fail, LoginKnows, telegram, dials, Session
<1>5. CASE CreateClient
  BY <1>5, CreatedTyped DEF CreateClient, LoginKnows, telegram, dials
<1>6. CASE Restore
  BY <1>6, OverTyped, RemovedTyped, ReplacedTyped DEF Restore, Restored, WithoutParked,
     telegram, dials
<1>7. CASE RemoveRevoked
  BY <1>7, NothingTyped DEF RemoveRevoked, FirstRefusal, LoginKnows, telegram, dials
<1>8. CASE ReuseSession
  BY <1>8 DEF ReuseSession, LoginKnows, telegram, dials
<1>9. CASE AskForCode
  BY <1>9 DEF AskForCode, LoginKnows, telegram, dials
<1>10. CASE SignIn
  <2>1. PICK k \in IF mine \in Keys THEN {mine} ELSE Keys \ issued :
          /\ mine' = k
          /\ disk' = [disk EXCEPT !["session"] = k]
          /\ issued' = issued \cup {k}
          /\ authorized' = authorized \cup {k}
    BY <1>10 DEF SignIn
  <2>2. k \in Keys
    OBVIOUS
  <2>3. disk' \in Content
    BY <2>1, <2>2, ArtifactsAssumption DEF Content, Session, NoKey
  <2> QED BY <1>10, <2>1, <2>2, <2>3 DEF SignIn, LoginKnows, dials, Session
<1>11. CASE SaveString
  BY <1>11, StringTyped DEF SaveString, LoginKnows, telegram, dials
<1>12. CASE Discard
  BY <1>12, OverTyped, RemovedTyped DEF Discard, WithoutParked, telegram, dials
<1>13. CASE InterruptLogin
  BY <1>13, LeavesTyped, OverTyped DEF InterruptLogin, telegram, dials
<1> QED BY <1>1, <1>2, <1>3, <1>4, <1>5, <1>6, <1>7, <1>8, <1>9, <1>10, <1>11, <1>12, <1>13
  DEF LoginStep, FailStep

LEMMA TypeDial ==
  ASSUME TypeInv, NEW c \in Connectors, DialStep(c)
  PROVE  TypeInv'
<1> USE DEF TypeInv, TypeOK
<1>1. UNCHANGED <<backup, telegram, login>>
  BY DialKeepsLogin DEF DialLeaves
<1>2. LoginKnows'
  BY <1>1 DEF LoginKnows, login
<1>3. disk' \in Content
  BY CreatedTyped, StringTyped, CutOffTyped DEF DialStep, Prepares, Answered, Refreshes, Dial,
     ReadAgain, ReadString, OpenSession, FindString, RefreshBusy, StopWaiting, Exported, ExportFails,
     Connects, Refused, Unreachable, Disconnects, Crash
<1>4. /\ pc' \in [Connectors -> DialSteps]
      /\ held' \in [Connectors -> Session]
      /\ refreshed' \in [Connectors -> BOOLEAN]
  <2>1. CASE Dial(c) \/ ReadAgain(c) \/ FindString(c) \/ StopWaiting(c)
    BY <2>1, TakesTyped, QuitsTyped DEF Dial, ReadAgain, ReadString, FindString, StopWaiting,
       Goes, DialSteps
  <2>2. CASE OpenSession(c)
    BY <2>2, CreatedTyped DEF OpenSession, Goes, DialSteps
  <2>3. CASE Exported(c) \/ Connects(c) \/ RefreshBusy(c)
    BY <2>3 DEF Exported, Connects, RefreshBusy, Ends, Forgets, Goes, DialSteps, Session
  <2>4. CASE ExportFails(c) \/ Refused(c) \/ Unreachable(c) \/ Disconnects(c) \/ Crash(c)
    BY <2>4, QuitsTyped DEF ExportFails, Refused, Unreachable, Disconnects, Crash, Forgets, Goes,
       DialSteps, Session
  <2> QED BY <2>1, <2>2, <2>3, <2>4 DEF DialStep, Prepares, Answered, Refreshes
<1>5. refresh_lock' \in Connectors \cup {None} /\ interrupts' \in 0 .. MaxInterrupts
  BY ArtifactsAssumption DEF DialStep, Prepares, Answered, Refreshes, Dial,
     ReadAgain, ReadString, OpenSession, FindString, RefreshBusy, StopWaiting, Exported, ExportFails,
     Connects, Refused, Unreachable, Disconnects, Crash
<1> QED BY <1>1, <1>2, <1>3, <1>4, <1>5 DEF telegram, login

LEMMA TypeNext ==
  ASSUME TypeInv, [Next]_vars
  PROVE  TypeInv'
<1>1. CASE NetChanges
  BY <1>1 DEF NetChanges, TypeInv, TypeOK, LoginKnows, login, dials
<1>2. ASSUME NEW k \in Keys, Revoke(k) PROVE TypeInv'
  BY <1>2 DEF Revoke, TypeInv, TypeOK, LoginKnows, login, dials
<1>3. CASE UNCHANGED vars
  BY <1>3 DEF vars, telegram, login, dials, TypeInv, TypeOK, LoginKnows
<1> QED BY <1>1, <1>2, <1>3, TypeLogin, TypeDial DEF Next

\* The variables keep their types: half a string is never a session file, and
\* a string is never made of a file without a key (auth/service.py:142).
THEOREM TypeCorrect == Spec => []TypeOK
<1>1. TypeInv => TypeOK
  BY DEF TypeInv
<1> QED BY <1>1, TypeInit, TypeNext, PTL DEF Spec

-----------------------------------------------------------------------------
(* The refresh *)

LEMMA RefreshInit == Init => RefreshExclusive
BY ArtifactsAssumption DEF Init, RefreshExclusive, Exporting

\* A dial whose step leaves the exporting dials and the lock alone.
LEMMA RefreshNext ==
  ASSUME TypeOK, RefreshExclusive, [Next]_vars
  PROVE  RefreshExclusive'
<1> USE ArtifactsAssumption DEF TypeOK, RefreshExclusive, Exporting
<1>1. CASE UNCHANGED dials
  BY <1>1 DEF dials
<1>2. ASSUME NEW c \in Connectors, OpenSession(c) PROVE RefreshExclusive'
  BY <1>2 DEF OpenSession, At, Goes
<1>3. ASSUME NEW c \in Connectors, Exported(c) PROVE RefreshExclusive'
  BY <1>3 DEF Exported, At, Goes
<1>4. ASSUME NEW c \in Connectors, ExportFails(c) PROVE RefreshExclusive'
  BY <1>4 DEF ExportFails, Quits, Ends, Goes
<1>5. ASSUME NEW c \in Connectors, Crash(c) PROVE RefreshExclusive'
  BY <1>5 DEF Crash, Quits, Ends, Goes
<1>6. ASSUME NEW c \in Connectors,
             Dial(c) \/ ReadAgain(c) \/ FindString(c) \/ StopWaiting(c) \/ RefreshBusy(c)
      PROVE  RefreshExclusive'
  BY <1>6 DEF Dial, ReadAgain, ReadString, FindString, StopWaiting, RefreshBusy, Takes, At, Quits,
     Ends, Goes
<1>7. ASSUME NEW c \in Connectors,
             Connects(c) \/ Refused(c) \/ Unreachable(c) \/ Disconnects(c)
      PROVE  RefreshExclusive'
  BY <1>7 DEF Connects, Refused, Unreachable, Disconnects, At, Quits, Ends, Goes
<1>8. LoginStep \/ NetChanges \/ (\E k \in Keys : Revoke(k)) \/ UNCHANGED vars => UNCHANGED dials
  BY DEF LoginStep, NetChanges, Revoke, vars, BeginReauthorization, BeginLogin, Park,
     CreateClient, RemoveRevoked, ReuseSession, AskForCode, SignIn, SaveString, Discard,
     LoginFails, ConnectFails, RemoveFails, SaveFails, DiscardFails, Fail, Restore,
     InterruptLogin
<1> QED BY <1>1, <1>2, <1>3, <1>4, <1>5, <1>6, <1>7, <1>8
  DEF Next, DialStep, Prepares, Answered, Refreshes

\* One dial at a time copies the session, and the lock is never left behind
\* (client.py:424).
THEOREM OneRefresh == Spec => []RefreshExclusive
<1>1. TypeInv => TypeOK
  BY DEF TypeInv
<1> QED BY <1>1, TypeInit, TypeNext, RefreshInit, RefreshNext, PTL DEF Spec

-----------------------------------------------------------------------------
(* The login *)

LEMMA LoginInit == Init => LoginInv
BY DEF Init, LoginInv, CopiesParked, ClientOfFile, FoundSessionSafe, Nothing, Artifacts

\* A login that has ended, with what it put back or gave up.
LEMMA LoginOver ==
  ASSUME Over, \/ interrupted'
               \/ \A a \in Artifacts : backup'[a] = "missing"
  PROVE  LoginInv'
BY DEF Over, LoginInv, CopiesParked, ClientOfFile, FoundSessionSafe

LEMMA LoginEnds ==
  ASSUME TypeInv, LoginInv, Restore \/ Discard
  PROVE  LoginInv'
<1>1. Over /\ backup' = WithoutParked /\ interrupted' = interrupted
  BY DEF Restore, Discard
<1>2. interrupted \/ \A a \in Artifacts : backup'[a] = "missing"
  BY <1>1, RemovedTyped DEF WithoutParked, LoginInv, CopiesParked, TypeInv, TypeOK
<1> QED BY <1>1, <1>2, LoginOver

\* What a step half-way does to the copies: once parked, none is made, and that
\* of the session is at most removed.
LEMMA HalfDoneCopies ==
  ASSUME TypeOK, NEW files \in HalfDone, step # "park"
  PROVE  \A a \in Artifacts : files[2][a] \in {backup[a], "missing"}
<1> USE DEF TypeOK
<1>1. CASE files \in PartlyRemoved \/ files \in PartlySaved \/ files = <<disk, backup>>
  BY <1>1 DEF PartlyRemoved, PartlySaved
<1>2. CASE files \in PartlyDiscarded
  BY <1>2, RemovedTyped DEF PartlyDiscarded
<1>3. CASE files \in PartlyRestored
  <2>1. PICK h \in HalfWay(parked) : files[2] = Removed(backup, h[1])
    BY <1>3 DEF PartlyRestored
  <2> QED BY <2>1, RemovedTyped
<1> QED BY <1>1, <1>2, <1>3 DEF HalfDone

LEMMA LoginFailing ==
  ASSUME TypeInv, LoginInv, FailStep
  PROVE  LoginInv'
<1> USE NamesOfArtifacts DEF TypeInv, TypeOK, LoginInv
<1>1. /\ step \in {"open", "connect", "login", "save", "discard"}
      /\ step' = "restore"
      /\ UNCHANGED <<forced, parked, before, interrupted>>
      /\ \A a \in Artifacts : backup'[a] \in {backup[a], "missing"}
  BY FailsHalfDone, HalfDoneCopies DEF Fail, Leaves
<1>2. CopiesParked'
  BY <1>1 DEF CopiesParked
<1>3. FoundSessionSafe'
  BY <1>1 DEF FoundSessionSafe, LoginSteps
<1> QED BY <1>1, <1>2, <1>3 DEF ClientOfFile

LEMMA LoginParks ==
  ASSUME TypeInv, LoginInv, Park
  PROVE  LoginInv'
<1> USE NamesOfArtifacts DEF TypeInv, TypeOK, LoginInv
<1>1. /\ step = "park" /\ step' = "open" /\ parked = {}
      /\ parked' = Existing
      /\ UNCHANGED <<forced, before, interrupted>>
      /\ \A a \in Artifacts : backup'[a] = IF a \in Existing THEN disk[a] ELSE backup[a]
  BY ReplacedTyped DEF Park, LoginKnows
<1>2. CopiesParked'
  BY <1>1 DEF CopiesParked
<1>3. FoundSessionSafe'
  BY <1>1 DEF FoundSessionSafe, Existing, LoginSteps
<1> QED BY <1>1, <1>2, <1>3 DEF ClientOfFile

LEMMA LoginStepInv ==
  ASSUME TypeInv, LoginInv, LoginStep
  PROVE  LoginInv'
<1> USE DEF LoginInv
<1>1. CASE BeginReauthorization
  BY <1>1 DEF BeginReauthorization, TypeInv, LoginKnows, CopiesParked, ClientOfFile,
     FoundSessionSafe
<1>2. CASE BeginLogin
  BY <1>2 DEF BeginLogin, TypeInv, LoginKnows, CopiesParked, ClientOfFile, FoundSessionSafe
<1>3. CASE Park
  BY <1>3, LoginParks
<1>4. CASE CreateClient
  <2>1. /\ disk' = Created
        /\ mine' = Created["session"]
        /\ step = "open" /\ step' = "connect"
        /\ UNCHANGED <<backup, forced, parked, before, interrupted>>
    BY <1>4 DEF CreateClient
  <2> QED BY <2>1, CreatedTyped DEF TypeInv, TypeOK, CopiesParked, ClientOfFile,
     FoundSessionSafe, LoginSteps
<1>5. CASE Restore \/ Discard
  BY <1>5, LoginEnds
<1>6. CASE RemoveRevoked
  BY <1>6 DEF RemoveRevoked, FirstRefusal, CopiesParked, ClientOfFile, FoundSessionSafe,
     LoginSteps
<1>7. CASE ReuseSession
  BY <1>7 DEF ReuseSession, CopiesParked, ClientOfFile, FoundSessionSafe, LoginSteps
<1>8. CASE AskForCode
  BY <1>8 DEF AskForCode, CopiesParked, ClientOfFile, FoundSessionSafe, LoginSteps
<1>9. CASE SignIn
  <2>1. PICK k \in IF mine \in Keys THEN {mine} ELSE Keys \ issued :
          mine' = k /\ disk' = [disk EXCEPT !["session"] = k]
    BY <1>9 DEF SignIn
  <2>2. k \in Keys
    OBVIOUS
  <2>3. disk'["session"] = k /\ k # "missing"
    BY <2>1, <2>2, ArtifactsAssumption DEF TypeInv, TypeOK, Content, NoKey
  <2> QED BY <1>9, <2>1, <2>3 DEF SignIn, CopiesParked, ClientOfFile, FoundSessionSafe,
     LoginSteps
<1>10. CASE SaveString
  <2>1. disk'["session"] = disk["session"]
    BY <1>10, StringTyped DEF SaveString, TypeInv, TypeOK, LoginKnows
  <2> QED BY <1>10, <2>1 DEF SaveString, CopiesParked, ClientOfFile, FoundSessionSafe,
     LoginSteps
<1>11. CASE FailStep
  BY <1>11, LoginFailing
<1>12. CASE InterruptLogin
  <2>1. Over /\ interrupted' = (interrupted \/ parked # {} \/ step = "park")
    BY <1>12 DEF InterruptLogin
  <2>2. ASSUME ~interrupted' PROVE \A a \in Artifacts : backup'[a] = "missing"
    <3>1. ~interrupted /\ parked = {} /\ step # "park"
      BY <2>1, <2>2
    <3> QED BY <1>12, <3>1, HalfDoneCopies DEF InterruptLogin, Leaves, CopiesParked, TypeInv
  <2> QED BY <2>1, <2>2, LoginOver
<1> QED BY <1>1, <1>2, <1>3, <1>4, <1>5, <1>6, <1>7, <1>8, <1>9, <1>10, <1>11, <1>12
  DEF LoginStep, FailStep

LEMMA LoginNext ==
  ASSUME TypeInv, LoginInv, [Next]_vars
  PROVE  LoginInv'
<1> USE DEF LoginInv, CopiesParked, ClientOfFile, FoundSessionSafe
<1>1. CASE UNCHANGED <<disk, backup, login>>
  BY <1>1 DEF login
<1>2. ASSUME NEW c \in Connectors, DialStep(c) PROVE LoginInv'
  BY <1>2, DialKeepsLogin DEF DialLeaves, login, TypeInv
<1>3. NetChanges \/ (\E k \in Keys : Revoke(k)) \/ UNCHANGED vars
      => UNCHANGED <<disk, backup, login>>
  BY DEF NetChanges, Revoke, vars
<1> QED BY <1>1, <1>2, <1>3, LoginStepInv DEF Next

LEMMA Invariants == Spec => [](TypeInv /\ LoginInv)
BY TypeInit, TypeNext, LoginInit, LoginNext, PTL DEF Spec

\* Between logins no parked copy is left, unless one was cut off
\* (auth/service.py:144).
THEOREM CopiesDiscarded == Spec => []NoBackupLeft
<1>1. TypeInv /\ LoginInv => NoBackupLeft
  BY DEF TypeInv, TypeOK, LoginKnows, LoginInv, CopiesParked, NoBackupLeft, Nothing, Content,
     Artifacts
<1> QED BY <1>1, Invariants, PTL

\* A forced login that fails, even after its sign-in, leaves a start of the
\* launcher the session it found in the file, unless it had discarded the copy
\* (auth/service.py:146, 304).
THEOREM FailedLoginHarmless == Spec => FailureHarmless
<1>1. TypeInv /\ LoginInv /\ [Next]_vars =>
        [/\ forced /\ step = "restore" /\ step' = "idle" /\ interrupts' = interrupts
         /\ before \in authorized
         /\ backup["session"] # "missing"
         => Confirmed(disk', authorized)]_vars
  <2> SUFFICES ASSUME TypeInv, LoginInv, Next,
                      forced, step = "restore", step' = "idle", interrupts' = interrupts,
                      before \in authorized,
                      backup["session"] # "missing"
               PROVE  Confirmed(disk', authorized)
    OBVIOUS
  <2>1. Restore
    <3>1. ~InterruptLogin
      BY DEF InterruptLogin, Leaves, TypeInv, TypeOK
    <3>2. ~NetChanges /\ ~\E k \in Keys : Revoke(k)
      BY DEF NetChanges, Revoke, login
    <3>3. ~\E c \in Connectors : DialStep(c)
      BY DialKeepsLogin DEF DialLeaves, login, TypeInv
    <3>4. ~FailStep
      BY FailsHalfDone
    <3> QED BY <3>1, <3>2, <3>3, <3>4 DEF Next, LoginStep, FailStep, BeginReauthorization,
       BeginLogin, Park, CreateClient, RemoveRevoked, FirstRefusal, ReuseSession, AskForCode,
       SignIn, SaveString, Discard
  <2>2. before # "missing"
    BY ArtifactsAssumption DEF TypeInv, TypeOK, NoKey
  <2>3. "session" \in parked /\ backup["session"] = before
    BY <2>2 DEF LoginInv, FoundSessionSafe, LoginSteps
  <2>4. disk'["session"] = before
    BY <2>1, <2>3, ReplacedTyped, NamesOfArtifacts DEF Restore, Restored, TypeInv, TypeOK
  <2> QED BY <2>2, <2>4 DEF Confirmed
<1> QED BY <1>1, Invariants, PTL DEF Spec, FailureHarmless

-----------------------------------------------------------------------------
(* The session of the file *)

Keeps(kept, d, b) ==
    kept \cap authorized' # {} => {d["session"], b["session"]} \cap authorized' # {}

SessionKept == Keeps(ToKeep, disk', backup')

\* However far a step has come, the session it has to keep is in one of its
\* two places.
LEMMA KeptHalfDone ==
  ASSUME TypeInv, LoginInv, ~interrupted, ~OwnRefused, UNCHANGED authorized,
         "missing" \notin authorized,
         NEW files \in HalfDone
  PROVE  Keeps(ToKeep, files[1], files[2])
<1> USE NamesOfArtifacts DEF Keeps, TypeInv, TypeOK, LoginInv
<1>1. CASE step = "park"
  <2>1. PICK h \in HalfWay(Existing) :
          files = <<Removed(disk, h[1]), Replaced(Removed(backup, h[2]), disk, h[1])>>
    BY <1>1 DEF HalfDone, FirstRefusal, PartlyParked
  <2>2. IF "session" \in h[1]
        THEN files[2]["session"] = disk["session"]
        ELSE files[1]["session"] = disk["session"]
    BY <2>1, RemovedTyped, ReplacedTyped
  <2>3. backup["session"] = "missing"
    BY <1>1 DEF LoginKnows, CopiesParked
  <2> QED BY <1>1, <2>2, <2>3 DEF ToKeep
<1>2. CASE FirstRefusal
  BY <1>2 DEF FirstRefusal, OwnRefused
<1>3. CASE step = "save"
  <2>1. files[1] \in CutOff(disk) /\ files[2] = backup
    BY <1>3 DEF HalfDone, FirstRefusal, PartlySaved
  <2> QED BY <1>3, <2>1, CutOffTyped DEF ToKeep
<1>4. CASE step = "discard"
  <2>1. files[1] = disk
    BY <1>4 DEF HalfDone, FirstRefusal, PartlyDiscarded
  <2>2. disk["session"] \in authorized
    BY <1>4 DEF ClientOfFile, OwnRefused, LoginKnows
  <2> QED BY <2>1, <2>2
<1>5. CASE step = "restore"
  <2>1. PICK h \in HalfWay(parked) :
          files = <<Replaced(Removed(disk, h[2]), backup, h[1]), Removed(backup, h[1])>>
    BY <1>5 DEF HalfDone, FirstRefusal, PartlyRestored
  <2>2. IF "session" \in h[1]
        THEN files[1]["session"] = backup["session"]
        ELSE files[2]["session"] = backup["session"]
    BY <2>1, RemovedTyped, ReplacedTyped
  <2>3. CASE "session" \in parked
    BY <1>5, <2>2, <2>3 DEF ToKeep
  <2>4. CASE "session" \notin parked
    <3>1. "session" \notin h[1] /\ "session" \notin h[2]
      BY <2>4, HalfWayParts
    <3>2. files[1]["session"] = disk["session"]
      BY <2>1, <3>1, RemovedTyped, ReplacedTyped
    <3> QED BY <1>5, <2>2, <2>4, <3>1, <3>2 DEF ToKeep
  <2> QED BY <2>3, <2>4
<1>6. CASE files = <<disk, backup>>
  BY <1>6 DEF ToKeep
<1> QED BY <1>1, <1>2, <1>3, <1>4, <1>5, <1>6 DEF HalfDone

LEMMA KeptByLogin ==
  ASSUME TypeInv, LoginInv, LoginStep, ~interrupted, ~OwnRefused
  PROVE  SessionKept
<1> USE NamesOfArtifacts DEF SessionKept, Keeps, TypeInv, TypeOK, LoginInv
<1>0. "missing" \notin authorized' /\ "blank" \notin authorized'
  BY TypeLogin, ArtifactsAssumption DEF NoKey
<1>1. CASE UNCHANGED <<disk, backup>>
  BY <1>1 DEF ToKeep
<1>2. CASE Park
  <2>1. backup["session"] = "missing"
    BY <1>2 DEF Park, LoginKnows, CopiesParked
  <2>2. disk["session"] # "missing" => backup'["session"] = disk["session"]
    BY <1>2, ReplacedTyped DEF Park, Existing
  <2> QED BY <1>0, <1>2, <2>1, <2>2 DEF Park, ToKeep
<1>3. CASE CreateClient
  BY <1>0, <1>3, CreatedTyped DEF CreateClient, ToKeep
<1>4. CASE FailStep \/ InterruptLogin
  <2>1. UNCHANGED authorized
    BY <1>4, FailsHalfDone DEF Fail, InterruptLogin, telegram
  <2>2. \/ UNCHANGED <<disk, backup>>
        \/ \E files \in HalfDone : disk' = files[1] /\ backup' = files[2]
    BY <1>4, FailsHalfDone DEF Fail, InterruptLogin, Leaves
  <2> QED BY <1>0, <1>1, <2>1, <2>2, KeptHalfDone
<1>5. CASE Restore
  <2>1. step = "restore" /\ disk' = Restored /\ backup' = WithoutParked
    BY <1>5 DEF Restore
  <2>2. disk'["session"] = IF "session" \in parked THEN backup["session"] ELSE disk["session"]
    BY <2>1, ReplacedTyped DEF Restored
  <2>3. "session" \notin parked => backup'["session"] = backup["session"]
    BY <2>1, RemovedTyped DEF WithoutParked
  <2> QED BY <2>1, <2>2, <2>3 DEF ToKeep
<1>6. CASE RemoveRevoked
  BY <1>6 DEF RemoveRevoked, FirstRefusal, OwnRefused
<1>7. CASE SignIn
  <2>1. PICK k \in Keys : /\ disk' = [disk EXCEPT !["session"] = k]
                          /\ authorized' = authorized \cup {k}
    BY <1>7 DEF SignIn
  <2>2. disk'["session"] = k
    BY <2>1 DEF Content
  <2> QED BY <2>1, <2>2
<1>8. CASE SaveString
  <2>1. disk'["session"] = disk["session"] /\ step = "save" /\ backup' = backup
    BY <1>8, StringTyped DEF SaveString, LoginKnows
  <2> QED BY <2>1 DEF ToKeep
<1>9. CASE Discard
  <2>1. disk["session"] = mine /\ mine \in authorized
    BY <1>9 DEF Discard, ClientOfFile, OwnRefused, LoginKnows
  <2> QED BY <1>9, <2>1 DEF Discard, telegram
<1> QED BY <1>1, <1>2, <1>3, <1>4, <1>5, <1>6, <1>7, <1>8, <1>9 DEF LoginStep, FailStep,
  BeginReauthorization, BeginLogin, ReuseSession, AskForCode

\* The session of the file, parked or not, is lost to no login that was not
\* cut off, as long as Telegram accepts it: a login that fails keeps what it
\* parked, one that ends what it signed in (auth/service.py:75, 92, 146, 304).
THEOREM SessionSurvives == Spec => LastSessionKept
<1>1. TypeInv /\ LoginInv /\ [Next]_vars =>
        [~interrupted /\ ~OwnRefused
         /\ ToKeep \cap authorized' # {}
         => {disk'["session"], backup'["session"]} \cap authorized' # {}]_vars
  <2> SUFFICES ASSUME TypeInv, LoginInv, Next, ~interrupted, ~OwnRefused
               PROVE  SessionKept
    BY DEF SessionKept, Keeps
  <2>1. CASE LoginStep
    BY <2>1, KeptByLogin
  <2>2. ASSUME NEW c \in Connectors, DialStep(c) PROVE SessionKept
    <3>1. "missing" \notin authorized
      BY ArtifactsAssumption DEF TypeInv, TypeOK, NoKey
    <3> QED BY <2>2, <3>1, DialKeepsLogin DEF DialLeaves, telegram, TypeInv, SessionKept, Keeps,
       ToKeep
  <2>3. CASE NetChanges \/ \E k \in Keys : Revoke(k)
    BY <2>3 DEF NetChanges, Revoke, SessionKept, Keeps, ToKeep
  <2> QED BY <2>1, <2>2, <2>3 DEF Next
<1> QED BY <1>1, Invariants, PTL DEF Spec, LastSessionKept
=============================================================================
