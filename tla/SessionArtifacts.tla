--------------------------- MODULE SessionArtifacts ---------------------------
(***************************************************************************)
(* The two files that keep the operator's Telegram session, and who reads  *)
(* and writes them: the login (auth/service.py), by the auth command with  *)
(* a forced re-authorization or by the launcher without; and the dials of  *)
(* the roles (telegram/client.py), which copy the session of the file into *)
(* the runtime string when that is missing or refused.                     *)
(*                                                                         *)
(* A session is the key in it; Telegram says which keys are authorized. A  *)
(* step ends at an await, or where the death of the process would show.    *)
(***************************************************************************)
EXTENDS Naturals

CONSTANTS
    Keys,          \* authorization keys
    OldKey,        \* the key of the sessions there are at first
    Connectors,    \* the roles' dials, in processes that hold a runtime mode
    None,          \* no connector
    MaxInterrupts  \* bound: processes that end, and steps that fail, half-way

Artifacts == {"session", "runtime"}

\* A file is missing, or has no authorized key (a new session file), or no
\* text (an interrupted write), or half a text, or a key.
NoKey == {"missing", "blank", "empty", "torn"}

ASSUME ArtifactsAssumption ==
    /\ OldKey \in Keys
    /\ Keys \cap NoKey = {}
    /\ None \notin Connectors
    /\ MaxInterrupts \in Nat

VARIABLES
    disk,          \* what each artifact has
    backup,        \* what its parked copy has (.preauth.bak)
    issued,        \* the keys Telegram has given so far
    authorized,    \* those it accepts
    net,           \* whether Telegram can be reached
    step,          \* where the login is
    forced,        \* whether it is a forced re-authorization
    parked,        \* the artifacts it parked
    restarted,     \* whether it removed a revoked session and began again
    mine,          \* the key of the login's client
    before,        \* history: the session file when a forced login began
    interrupted,   \* history: a login was cut off with artifacts parked
    pc,            \* where each dial is
    held,          \* the key of each dial's client
    refreshed,     \* whether each dial had the string rebuilt
    refresh_lock,  \* the dial with the lock telegram-runtime-session, or None
    interrupts     \* steps that ended half-way so far

login == <<step, forced, parked, restarted, mine, before, interrupted>>
dials == <<pc, held, refreshed, refresh_lock>>
telegram == <<issued, authorized, net>>
vars == <<disk, backup, telegram, login, dials, interrupts>>

LoginSteps ==
    {"idle", "park", "open", "connect", "login", "save", "discard", "restore"}

DialSteps == {"idle", "read", "connect", "prepare", "refresh", "wait",
              "export", "rebuild", "connected"}

Exporting == {"export", "rebuild"}

\* A session file is never read as text, a string never made from no key.
Session == Keys \cup {"missing", "blank"}

Content == [session: Session, runtime: (Keys \cup NoKey) \ {"blank"}]

TypeOK ==
    /\ disk \in Content
    /\ backup \in Content
    /\ issued \subseteq Keys
    /\ authorized \subseteq issued
    /\ net \in {"up", "down"}
    /\ step \in LoginSteps
    /\ forced \in BOOLEAN
    /\ parked \subseteq Artifacts
    /\ restarted \in BOOLEAN
    /\ mine \in Session
    /\ before \in Session
    /\ interrupted \in BOOLEAN
    /\ pc \in [Connectors -> DialSteps]
    /\ held \in [Connectors -> Session]
    /\ refreshed \in [Connectors -> BOOLEAN]
    /\ refresh_lock \in Connectors \cup {None}
    /\ interrupts \in 0 .. MaxInterrupts

Nothing == [a \in Artifacts |-> "missing"]

Init ==
    /\ disk \in [Artifacts -> {"missing", OldKey}]
    /\ backup = Nothing
    /\ issued = {OldKey}
    /\ authorized \in SUBSET {OldKey}
    /\ net = "up"
    /\ step = "idle"
    /\ forced = FALSE
    /\ parked = {}
    /\ restarted = FALSE
    /\ mine = "missing"
    /\ before = "missing"
    /\ interrupted = FALSE
    /\ pc = [c \in Connectors |-> "idle"]
    /\ held = [c \in Connectors |-> "missing"]
    /\ refreshed = [c \in Connectors |-> FALSE]
    /\ refresh_lock = None
    /\ interrupts = 0

Readable(content) == content \notin {"missing", "empty"}

Removed(files, gone) == [a \in Artifacts |-> IF a \in gone THEN "missing" ELSE files[a]]

Replaced(files, by, done) == [a \in Artifacts |-> IF a \in done THEN by[a] ELSE files[a]]

\* Half-way through artifacts, the session first: those done already, and those
\* whose place is empty for them.
HalfWay(artifacts) ==
    LET first == IF "session" \in artifacts THEN {"session"} ELSE artifacts
    IN  {<<{}, {}>>, <<{}, first>>, <<first, {}>>, <<first, artifacts \ first>>}

\* The session file exists once a client has been created for it.
Created == [disk EXCEPT !["session"] = IF @ = "missing" THEN "blank" ELSE @]

-----------------------------------------------------------------------------
(* authorize_interactively *)

BeginReauthorization ==
    /\ step = "idle"
    /\ step' = "park"
    /\ forced' = TRUE
    /\ before' = disk["session"]
    /\ UNCHANGED <<disk, backup, telegram, parked, restarted, mine, interrupted, dials,
                   interrupts>>

\* The launcher asks for a login when Telegram refuses what there is, or any
\* error but the network's keeps it from knowing; it holds every runtime mode
\* then, and no other process dials.
BeginLogin ==
    /\ step = "idle"
    /\ \A c \in Connectors : pc[c] = "idle"
    /\ net = "up"
    /\ step' = "open"
    /\ UNCHANGED <<disk, backup, telegram, forced, parked, restarted, mine, before, interrupted,
                   dials, interrupts>>

Existing == {a \in Artifacts : disk[a] # "missing"}

\* _park_existing_auth_artifacts
Park ==
    /\ step = "park"
    /\ step' = "open"
    /\ disk' = Removed(disk, Existing)
    /\ backup' = Replaced(backup, disk, Existing)
    /\ parked' = Existing
    /\ UNCHANGED <<telegram, forced, restarted, mine, before, interrupted, dials, interrupts>>

PartlyParked ==
    {<<Removed(disk, h[1]), Replaced(Removed(backup, h[2]), disk, h[1])>> : h \in HalfWay(Existing)}

CreateClient ==
    /\ step = "open"
    /\ step' = "connect"
    /\ disk' = Created
    /\ mine' = Created["session"]
    /\ UNCHANGED <<backup, telegram, forced, parked, restarted, before, interrupted, dials,
                   interrupts>>

\* What a login that has ended no longer knows.
Over ==
    /\ step' = "idle"
    /\ forced' = FALSE
    /\ parked' = {}
    /\ restarted' = FALSE
    /\ mine' = "missing"
    /\ before' = "missing"

\* Mutant of Restored: only the string is put back.
RestoredStringOnly == Replaced(disk, backup, parked \ {"session"})

Restored == Replaced(disk, backup, parked)

WithoutParked == Removed(backup, parked)

PartlyRestored ==
    {<<Replaced(Removed(disk, h[2]), backup, h[1]), Removed(backup, h[1])>> : h \in HalfWay(parked)}

\* One of the ways to leave the artifacts and their copies half-way.
Leaves(halves) ==
    /\ interrupts < MaxInterrupts
    /\ interrupts' = interrupts + 1
    /\ \E files \in halves : disk' = files[1] /\ backup' = files[2]

\* Any exception disconnects the login's client first; the step has done
\* nothing, or one of halves.
Fail(halves) ==
    /\ step' = "restore"
    /\ restarted' = FALSE
    /\ mine' = "missing"
    /\ UNCHANGED <<disk, backup, interrupts>> \/ Leaves(halves)
    /\ UNCHANGED <<telegram, forced, parked, before, interrupted, dials>>

\* And then puts back what was parked.
Restore ==
    /\ step = "restore"
    /\ Over
    /\ disk' = Restored
    /\ backup' = WithoutParked
    /\ UNCHANGED <<telegram, interrupted, dials, interrupts>>

\* The client cannot be created, or no code asked for, or no sign-in made.
LoginFails == step \in {"open", "login"} /\ Fail({})

ConnectFails ==
    /\ step = "connect"
    /\ net = "down" \/ (restarted /\ mine \in Keys \ authorized)
    /\ Fail({})

\* Telegram may refuse a key at once.
FirstRefusal == step = "connect" /\ net = "up" /\ mine \in Keys \ authorized /\ ~restarted

\* The session file is removed before the string.
PartlyRemoved == {disk, Removed(disk, {"session"})} \X {backup}

RemoveFails == FirstRefusal /\ Fail(PartlyRemoved)

RemoveRevoked ==
    /\ FirstRefusal
    /\ step' = "open"
    /\ disk' = Nothing
    /\ restarted' = TRUE
    /\ UNCHANGED <<backup, telegram, forced, parked, mine, before, interrupted, dials, interrupts>>

ReuseSession ==
    /\ step = "connect"
    /\ net = "up"
    /\ mine \in authorized
    /\ ~forced
    /\ step' = "save"
    /\ UNCHANGED <<disk, backup, telegram, forced, parked, restarted, mine, before, interrupted,
                   dials, interrupts>>

\* Mutant of AskForCode: the parked copies are discarded before the sign-in.
AskForCodeDiscarding ==
    /\ step = "connect"
    /\ net = "up"
    /\ mine \notin authorized \/ forced
    /\ step' = "login"
    /\ backup' = WithoutParked
    /\ parked' = {}
    /\ UNCHANGED <<disk, telegram, forced, restarted, mine, before, interrupted, dials, interrupts>>

AskForCode ==
    /\ step = "connect"
    /\ net = "up"
    /\ mine \notin authorized \/ forced
    /\ step' = "login"
    /\ UNCHANGED <<disk, backup, telegram, forced, parked, restarted, mine, before, interrupted,
                   dials, interrupts>>

\* The key of a new session file is given by Telegram; the file has it at once.
SignIn ==
    /\ step = "login"
    /\ net = "up"
    /\ \E k \in IF mine \in Keys THEN {mine} ELSE Keys \ issued :
         /\ mine' = k
         /\ disk' = [disk EXCEPT !["session"] = k]
         /\ issued' = issued \cup {k}
         /\ authorized' = authorized \cup {k}
    /\ step' = "save"
    /\ UNCHANGED <<backup, net, forced, parked, restarted, before, interrupted, dials, interrupts>>

SaveString ==
    /\ step = "save"
    /\ step' = "discard"
    /\ disk' = [disk EXCEPT !["runtime"] = mine]
    /\ UNCHANGED <<backup, telegram, forced, parked, restarted, mine, before, interrupted, dials,
                   interrupts>>

\* A write that is cut off leaves the old text, none, or half of the new.
CutOff(d) == {d} \cup {[d EXCEPT !["runtime"] = text] : text \in {"empty", "torn"}}

PartlySaved == CutOff(disk) \X {backup}

SaveFails == step = "save" /\ Fail(PartlySaved)

\* Mutant of Discard: the parked copies are forgotten, not removed.
DiscardNothing ==
    /\ step = "discard"
    /\ Over
    /\ UNCHANGED <<disk, backup, telegram, interrupted, dials, interrupts>>

Discard ==
    /\ step = "discard"
    /\ Over
    /\ backup' = WithoutParked
    /\ UNCHANGED <<disk, telegram, interrupted, dials, interrupts>>

\* The copy of the session is removed before that of the string.
PartlyDiscarded ==
    {disk} \X {backup, Removed(backup, IF parked = Artifacts THEN {"session"} ELSE {})}

\* That an artifact was parked is not forgotten with its copy.
DiscardFails == step = "discard" /\ parked # {} /\ Fail(PartlyDiscarded)

\* What the end of the process half-way through a step leaves of the artifacts
\* and their copies.
HalfDone ==
    CASE step = "park"    -> PartlyParked
      [] FirstRefusal     -> PartlyRemoved
      [] step = "save"    -> PartlySaved
      [] step = "discard" -> PartlyDiscarded
      [] step = "restore" -> PartlyRestored
      [] OTHER            -> {<<disk, backup>>}

\* Ctrl-C at a prompt, the death of the process, or an error while parking or
\* putting back: what is not back stays parked.
InterruptLogin ==
    /\ step # "idle"
    /\ Over
    /\ Leaves(HalfDone)
    /\ interrupted' = (interrupted \/ parked # {} \/ step = "park")
    /\ UNCHANGED <<telegram, dials>>

-----------------------------------------------------------------------------
(* connect_runtime_client *)

At(c, s) == pc[c] = s

Goes(c, s) == pc' = [pc EXCEPT ![c] = s]

Forgets(c) == held' = [held EXCEPT ![c] = "missing"]

\* A dial that has ended, connected or not, knows nothing.
Ends(c, s) ==
    /\ Goes(c, s)
    /\ Forgets(c)
    /\ refreshed' = [refreshed EXCEPT ![c] = FALSE]

Quits(c) == Ends(c, "idle")

\* create_runtime_client: half a text is no string session, an error.
Takes(c, content) ==
    \/ /\ content \in Keys
       /\ Goes(c, "connect")
       /\ held' = [held EXCEPT ![c] = content]
       /\ UNCHANGED refreshed
    \/ content \notin Keys /\ Quits(c)

\* ensure_runtime_session_string
ReadString(c) ==
    /\ \/ Readable(disk["runtime"]) /\ Takes(c, disk["runtime"])
       \/ ~Readable(disk["runtime"]) /\ Goes(c, "prepare") /\ UNCHANGED <<held, refreshed>>
    /\ UNCHANGED <<disk, backup, telegram, login, refresh_lock, interrupts>>

\* No dial runs beside a login of the launcher, which holds the runtime modes.
Dial(c) ==
    /\ At(c, "idle")
    /\ step = "idle" \/ forced
    /\ ReadString(c)

ReadAgain(c) == At(c, "read") /\ ReadString(c)

\* export_runtime_session_string with the lock: the client is created.
OpenSession(c) ==
    /\ pc[c] \in {"prepare", "refresh"}
    /\ refresh_lock = None
    /\ At(c, "prepare") => ~Readable(disk["runtime"])
    /\ refresh_lock' = c
    /\ disk' = Created
    /\ held' = [held EXCEPT ![c] = Created["session"]]
    /\ refreshed' = [refreshed EXCEPT ![c] = @ \/ At(c, "refresh")]
    /\ Goes(c, IF At(c, "refresh") THEN "rebuild" ELSE "export")
    /\ UNCHANGED <<backup, telegram, login, interrupts>>

\* The string is there after all.
FindString(c) ==
    /\ At(c, "prepare")
    /\ Readable(disk["runtime"])
    /\ Takes(c, disk["runtime"])
    /\ UNCHANGED <<disk, backup, telegram, login, refresh_lock, interrupts>>

\* Another one is at it, in this process or in another.
RefreshBusy(c) ==
    /\ pc[c] \in {"prepare", "refresh"}
    /\ refresh_lock # None
    /\ refreshed' = [refreshed EXCEPT ![c] = @ \/ At(c, "refresh")]
    /\ Goes(c, "wait")
    /\ UNCHANGED <<disk, backup, telegram, login, held, refresh_lock, interrupts>>

\* _wait_for_runtime_session_string takes any text it finds, the refused one
\* too, and gives up after a while without.
StopWaiting(c) ==
    /\ At(c, "wait")
    /\ \/ Readable(disk["runtime"]) /\ Takes(c, disk["runtime"])
       \/ ~Readable(disk["runtime"]) /\ Quits(c)
    /\ UNCHANGED <<disk, backup, telegram, login, refresh_lock, interrupts>>

\* Mutant of Exported: the session is copied without asking Telegram.
ExportedUnconfirmed(c) ==
    /\ pc[c] \in Exporting
    /\ net = "up"
    /\ disk' = [disk EXCEPT !["runtime"] = held[c]]
    /\ refresh_lock' = None
    /\ Goes(c, IF At(c, "rebuild") THEN "read" ELSE "connect")
    /\ UNCHANGED <<backup, telegram, login, held, refreshed, interrupts>>

\* A dial that had the string rebuilt begins again, and reads it.
Exported(c) ==
    /\ pc[c] \in Exporting
    /\ net = "up"
    /\ held[c] \in authorized
    /\ disk' = [disk EXCEPT !["runtime"] = held[c]]
    /\ refresh_lock' = None
    /\ \/ At(c, "export") /\ Goes(c, "connect") /\ UNCHANGED held
       \/ At(c, "rebuild") /\ Goes(c, "read") /\ Forgets(c)
    /\ UNCHANGED <<backup, telegram, login, refreshed, interrupts>>

\* Mutant of ExportFails: the lock is kept.
ExportFailsLocked(c) ==
    /\ pc[c] \in Exporting
    /\ net = "down" \/ held[c] \notin authorized \/ step \in {"connect", "login", "save"}
    /\ Quits(c)
    /\ UNCHANGED <<disk, backup, telegram, login, refresh_lock, interrupts>>

\* Telegram is away, the key is not authorized, or the session's database is
\* locked by the login's client.
ExportFails(c) ==
    /\ pc[c] \in Exporting
    /\ net = "down" \/ held[c] \notin authorized \/ step \in {"connect", "login", "save"}
    /\ refresh_lock' = None
    /\ Quits(c)
    /\ UNCHANGED <<disk, backup, telegram, login, interrupts>>

Connects(c) ==
    /\ At(c, "connect")
    /\ net = "up"
    /\ held[c] \in authorized
    /\ Ends(c, "connected")
    /\ UNCHANGED <<disk, backup, telegram, login, refresh_lock, interrupts>>

\* Mutant of Refused: no refresh.
RefusedFinally(c) ==
    /\ At(c, "connect")
    /\ net = "up"
    /\ held[c] \notin authorized
    /\ Quits(c)
    /\ UNCHANGED <<disk, backup, telegram, login, refresh_lock, interrupts>>

\* A refused key is worth one refresh.
Refused(c) ==
    /\ At(c, "connect")
    /\ net = "up"
    /\ held[c] \notin authorized
    /\ \/ refreshed[c] /\ Quits(c)
       \/ ~refreshed[c] /\ Goes(c, "refresh") /\ Forgets(c) /\ UNCHANGED refreshed
    /\ UNCHANGED <<disk, backup, telegram, login, refresh_lock, interrupts>>

Unreachable(c) ==
    /\ At(c, "connect")
    /\ net = "down"
    /\ Quits(c)
    /\ UNCHANGED <<disk, backup, telegram, login, refresh_lock, interrupts>>

Disconnects(c) ==
    /\ At(c, "connected")
    /\ Quits(c)
    /\ UNCHANGED <<disk, backup, telegram, login, refresh_lock, interrupts>>

\* The death of the process, whose lock the system gives back, or a write of
\* the string that fails.
Crash(c) ==
    /\ pc[c] \notin {"idle", "connected"}
    /\ interrupts < MaxInterrupts
    /\ interrupts' = interrupts + 1
    /\ disk' \in IF pc[c] \in Exporting /\ held[c] \in authorized THEN CutOff(disk) ELSE {disk}
    /\ refresh_lock' = IF refresh_lock = c THEN None ELSE refresh_lock
    /\ Quits(c)
    /\ UNCHANGED <<backup, telegram, login>>

-----------------------------------------------------------------------------
(* Telegram: the network, and sessions ended from another device *)

NetChanges ==
    /\ net' \in {"up", "down"} \ {net}
    /\ UNCHANGED <<disk, backup, issued, authorized, login, dials, interrupts>>

Revoke(k) ==
    /\ k \in authorized
    /\ authorized' = authorized \ {k}
    /\ UNCHANGED <<disk, backup, issued, net, login, dials, interrupts>>

-----------------------------------------------------------------------------
LoginStep ==
    \/ BeginReauthorization \/ BeginLogin
    \/ Park
    \/ CreateClient
    \/ RemoveRevoked \/ ReuseSession \/ AskForCode
    \/ SignIn
    \/ SaveString
    \/ Discard
    \/ LoginFails \/ ConnectFails \/ RemoveFails \/ SaveFails \/ DiscardFails
    \/ Restore
    \/ InterruptLogin

Prepares(c) == OpenSession(c) \/ FindString(c) \/ RefreshBusy(c)
Answered(c) == Connects(c) \/ Refused(c) \/ Unreachable(c)
Refreshes(c) == Exported(c) \/ ExportFails(c)

DialStep(c) ==
    \/ Dial(c)
    \/ ReadAgain(c)
    \/ Prepares(c)
    \/ StopWaiting(c)
    \/ Refreshes(c)
    \/ Answered(c)
    \/ Disconnects(c)
    \/ Crash(c)

Next ==
    \/ LoginStep
    \/ \E c \in Connectors : DialStep(c)
    \/ NetChanges
    \/ \E k \in Keys : Revoke(k)

(***************************************************************************)
(* The roles dial again and again, and a dial's step ends: by its answer,  *)
(* or by the dial's timeout.  The operator owes nothing.                   *)
(***************************************************************************)
Fairness ==
    \A c \in Connectors :
        /\ WF_vars(Dial(c))
        /\ WF_vars(ReadAgain(c))
        /\ WF_vars(Prepares(c))
        /\ WF_vars(StopWaiting(c))
        /\ WF_vars(Refreshes(c))
        /\ WF_vars(Answered(c))

Spec == Init /\ [][Next]_vars

FairSpec == Spec /\ Fairness

-----------------------------------------------------------------------------
(* Properties *)

\* The lock of the refresh is held exactly while one dial copies the session:
\* a refusal, a full wait and a death leave it free (client.py:424).
RefreshExclusive == \A c \in Connectors : refresh_lock = c <=> pc[c] \in Exporting

\* Parked copies are there only while a login runs, unless one was
\* interrupted (auth/service.py:144, 304).
NoBackupLeft ==
    step = "idle" /\ ~interrupted => backup = Nothing

\* The login's own session is refused: ended elsewhere since it was read or
\* signed in.
OwnRefused == step \in {"connect", "discard"} /\ mine \in Keys \ authorized

\* What of the session a step has to keep: a login that fails is to put back
\* the parked one.  One of its own, signed in before its string could not be
\* written or a copy not removed, it takes back with the file.
ToKeep ==
    IF step = "restore" /\ "session" \in parked
    THEN {backup["session"]}
    ELSE {disk["session"], backup["session"]}

\* A session of the file that Telegram accepts, parked or not, is lost neither
\* to a login that ends or fails nor to who copies it beside one; that a login
\* which fails after its sign-in loses its own is left to it.  Left out is what
\* follows a login that was cut off, when the next one parks over the good copy
\* (auth/service.py:75, 92, 190, 281, 304).
LastSessionKept ==
    [][/\ ~interrupted /\ ~OwnRefused
       /\ ToKeep \cap authorized' # {}
       => {disk'["session"], backup'["session"]} \cap authorized' # {}]_vars

\* What a start of the launcher confirms: the file's session, or the string's
\* when there is no file (assess_existing_session).
Confirmed(d, accepted) ==
    IF d["session"] # "missing" THEN d["session"] \in accepted ELSE d["runtime"] \in accepted

\* A re-authorization that fails, even after its sign-in, leaves a session
\* that a start of the launcher confirms if it began with one in the file and
\* has not discarded the copy of it.  A string alone is not enough: a file that
\* the failed login created is not removed and hides it (auth/service.py:83,
\* 281, 304, client.py:362).
FailureHarmless ==
    [][/\ forced /\ step = "restore" /\ step' = "idle" /\ interrupts' = interrupts
       /\ before \in authorized
       /\ backup["session"] # "missing"
       => Confirmed(disk', authorized)]_vars

\* With a session file that Telegram accepts and a string that can be read,
\* every role is connected again and again, whichever key the string has had
\* and whoever refreshes it (client.py:502).  Half a string it never repairs.
Sound == net = "up" /\ step = "idle" /\ disk["session"] \in authorized /\ disk["runtime"] # "torn"

ConnectsAgain ==
    \A c \in Connectors : <>[]Sound => []<>At(c, "connected")
=============================================================================
