---------------------------- MODULE BotPlaneProofs ----------------------------
(***************************************************************************)
(* The bot plane, for any number of conversations, of updates handled at   *)
(* once, of restarts and of crashes: a conversation makes one job, of its  *)
(* own answers, its questions find theirs, and the supervisor gives up on  *)
(* the network only at the end of the floats.  The last two parts speak,   *)
(* like the properties, of conversations that are not hurried.             *)
(***************************************************************************)
EXTENDS BotPlane, WellFoundedInduction, TLAPS

\* Conversations are known by numbers up to conv.
KnownConversations ==
    /\ over \subseteq 0 .. conv
    /\ \A i \in Slots : tasks[i].conv \in 0 .. conv

\* What runs on without its dispatcher makes a job; without a polling, all does.
OrphansCreate ==
    /\ \A i \in Slots : ~tasks[i].live => tasks[i].does \in {"nothing", "create"}
    /\ plane # "polling" => Live = {}

\* In a calm conversation one update is handled at a time, one of its own.
OneAtATime ==
    Calm => \A i \in Live : tasks[i].conv = conv /\ \A j \in Live : i = j

\* The conversation has nothing in the storage: it is over, or an older
\* dispatcher's task is at its job, or none has begun.
Dead == conv = 0 \/ conv \in over \ hurried \/ conv \in Orphans

Idle(t) == t.does = "clear" \/ (t.does = "set_state" /\ t.to = "waiting_job_id")

NothingStored ==
    plane = "polling" /\ Dead =>
        /\ state \in {"none", "waiting_job_id"}
        /\ data = NoData
        /\ \A i \in Live : Idle(tasks[i])

Creates(i) == tasks[i].does = "create"

\* The job of a conversation that is over has been made.
NoneToCome == \A i \in Slots : Creates(i) => tasks[i].conv \notin over \ hurried

OneCreation ==
    \A i, j \in Slots :
        Creates(i) /\ Creates(j) /\ i # j /\ tasks[i].conv = tasks[j].conv
        => tasks[i].conv \in hurried

TasksInv == KnownConversations /\ OrphansCreate /\ OneAtATime

JobsInv == NothingStored /\ NoneToCome /\ OneCreation

\* A calm conversation has answers of its own only.
OwnAnswers == Calm => \A f \in Fields : data.answers[f] \in {0, conv}

\* The state that a task is about to set finds its answers.
FitsNext(t) ==
    /\ t.does \in {"set_state", "create"} => Fits(t.to, data)
    /\ t.does \in {"download", "fallback"} => t.to = "waiting_caption" /\ Fits("waiting_media", data)

AnswersFit == Calm => \A i \in Live : FitsNext(tasks[i])

-----------------------------------------------------------------------------
(* The powers of a number.  The recursion is shown   to define a function  *)
(* by the least number for which it would not.                             *)

\* A nonempty set of numbers has a least one.
LEMMA LeastNumber ==
  ASSUME NEW S \in SUBSET Nat, S # {}
  PROVE  \E least \in S : \A n \in S : least <= n
<1>1. IsWellFoundedOn(OpToRel(<, Nat), Nat)
  BY NatLessThanWellFounded
<1>2. PICK least \in S : \A n \in S : ~ (<<n, least>> \in OpToRel(<, Nat))
  BY <1>1, WFMin
<1>3. \A n \in S : least <= n
  <2>1. \A n \in S : n \in Nat /\ least \in Nat /\ ~ (n < least)
    BY <1>2 DEF OpToRel
  <2> QED BY <2>1
<1> QED BY <1>3

\* The first powers, up to n
Powers(base, n) ==
    {g \in [0 .. n -> Nat] : g[0] = 1 /\ \A k \in 1 .. n : g[k] = base * g[k - 1]}

LEMMA PowersExist ==
  ASSUME NEW base \in Nat \ {0}
  PROVE  \A n \in Nat : Powers(base, n) # {}
<1> DEFINE Missing == {n \in Nat : Powers(base, n) = {}}
<1>1. SUFFICES ASSUME Missing # {} PROVE FALSE
  OBVIOUS
<1>2. PICK n \in Missing : \A m \in Missing : n <= m
  <2>1. Missing \in SUBSET Nat
    OBVIOUS
  <2> HIDE DEF Missing
  <2> QED BY <1>1, <2>1, LeastNumber
<1>3. n # 0
  <2>1. [k \in 0 .. 0 |-> 1] \in Powers(base, 0)
    BY DEF Powers
  <2> QED BY <2>1
<1>4. PICK g \in Powers(base, n - 1) : TRUE
  <2>1. n - 1 \in Nat /\ n - 1 \notin Missing
    BY <1>2, <1>3
  <2> QED BY <2>1
<1> DEFINE h == [k \in 0 .. n |-> IF k = n THEN base * g[n - 1] ELSE g[k]]
<1>5. g \in [0 .. n - 1 -> Nat] /\ g[0] = 1 /\ \A k \in 1 .. n - 1 : g[k] = base * g[k - 1]
  BY <1>4 DEF Powers
<1>6. \A k \in 0 .. n - 1 : k \in 0 .. n /\ k # n /\ h[k] = g[k]
  OBVIOUS
<1>7. h[n] = base * g[n - 1] /\ n \in Nat /\ n - 1 \in 0 .. n - 1 /\ g[n - 1] \in Nat
  BY <1>3, <1>5
<1>8. base * g[n - 1] \in Nat
  BY <1>7
<1>9. h \in [0 .. n -> Nat]
  BY <1>5, <1>8
<1> HIDE DEF h
<1>10. \A k \in 1 .. n : h[k] = base * h[k - 1]
  <2> TAKE k \in 1 .. n
  <2>1. CASE k = n
    BY <1>6, <1>7, <2>1
  <2>2. CASE k # n
    <3>1. k \in 1 .. n - 1 /\ k \in 0 .. n - 1 /\ k - 1 \in 0 .. n - 1
      BY <1>7, <2>2
    <3> QED BY <1>5, <1>6, <3>1
  <2> QED BY <2>1, <2>2
<1>11. h[0] = 1
  BY <1>3, <1>5, <1>6, <1>7
<1>12. h \in Powers(base, n)
  BY <1>9, <1>10, <1>11 DEF Powers
<1> QED BY <1>2, <1>12

LEMMA PowersAgree ==
  ASSUME NEW base \in Nat \ {0}, NEW n \in Nat, NEW m \in Nat,
         NEW g \in Powers(base, n), NEW h \in Powers(base, m)
  PROVE  \A k \in Nat : k <= n /\ k <= m => g[k] = h[k]
<1> DEFINE Apart == {k \in Nat : k <= n /\ k <= m /\ g[k] # h[k]}
<1>1. SUFFICES ASSUME Apart # {} PROVE FALSE
  OBVIOUS
<1>2. PICK k \in Apart : \A l \in Apart : k <= l
  <2>1. Apart \in SUBSET Nat
    OBVIOUS
  <2> HIDE DEF Apart
  <2> QED BY <1>1, <2>1, LeastNumber
<1>3. k # 0
  BY <1>2 DEF Powers
<1>4. k - 1 \in Nat /\ k - 1 \notin Apart /\ k \in 1 .. n /\ k \in 1 .. m /\ g[k] # h[k]
  BY <1>2, <1>3
<1>5. g[k - 1] = h[k - 1]
  BY <1>4
<1>6. g[k] = base * g[k - 1] /\ h[k] = base * h[k - 1]
  BY <1>4 DEF Powers
<1> QED BY <1>4, <1>5, <1>6

\* The recursion defines a function.
LEMMA PowerDefined ==
  ASSUME NEW base \in Nat \ {0}
  PROVE  Power(base) = [n \in Nat |-> IF n = 0 THEN 1 ELSE base * Power(base)[n - 1]]
<1> DEFINE first(n) == CHOOSE g \in Powers(base, n) : TRUE
           f == [n \in Nat |-> first(n)[n]]
<1>1. \A n \in Nat : first(n) \in Powers(base, n)
  BY PowersExist
<1> HIDE DEF first
<1>2. ASSUME NEW n \in Nat
      PROVE  f[n] = IF n = 0 THEN 1 ELSE base * f[n - 1]
  <2>1. CASE n = 0
    BY <1>1, <2>1 DEF Powers
  <2>2. CASE n # 0
    <3>1. n - 1 \in Nat /\ n \in 1 .. n /\ n - 1 <= n
      BY <2>2
    <3>2. first(n)[n] = base * first(n)[n - 1]
      BY <1>1, <3>1 DEF Powers
    <3>3. first(n)[n - 1] = first(n - 1)[n - 1]
      BY <1>1, <3>1, PowersAgree
    <3> QED BY <2>2, <3>1, <3>2, <3>3
  <2> QED BY <2>1, <2>2
<1>3. f = [n \in Nat |-> IF n = 0 THEN 1 ELSE base * f[n - 1]]
  BY <1>2
<1> HIDE DEF f
<1> QED BY <1>3 DEF Power

\* A power is a number, and more than none.
LEMMA PowerPositive ==
  ASSUME NEW base \in Nat \ {0}
  PROVE  /\ Power(base)[0] = 1
         /\ \A n \in Nat : /\ Power(base)[n] \in Nat \ {0}
                           /\ Power(base)[n + 1] = base * Power(base)[n]
<1> DEFINE f == Power(base)
           Wrong == {n \in Nat : f[n] \notin Nat \ {0}}
<1>1. f[0] = 1 /\ \A n \in Nat : n # 0 => f[n] = base * f[n - 1]
  <2>1. f = [n \in Nat |-> IF n = 0 THEN 1 ELSE base * f[n - 1]]
    BY PowerDefined
  <2> HIDE DEF f
  <2> QED BY <2>1
<1> HIDE DEF f
<1>2. Wrong = {}
  <2> SUFFICES ASSUME Wrong # {} PROVE FALSE
    OBVIOUS
  <2>1. PICK n \in Wrong : \A m \in Wrong : n <= m
    <3>1. Wrong \in SUBSET Nat
      OBVIOUS
    <3> HIDE DEF Wrong
    <3> QED BY <3>1, LeastNumber
  <2>2. n # 0
    BY <1>1
  <2>3. n - 1 \in Nat /\ f[n - 1] \in Nat \ {0}
    BY <2>1, <2>2
  <2>4. ASSUME NEW x \in Nat \ {0} PROVE base * x \in Nat \ {0}
    <3>1. base * x >= 1 * x
      OBVIOUS
    <3> QED BY <3>1
  <2> QED BY <1>1, <2>1, <2>2, <2>3, <2>4
<1>3. ASSUME NEW n \in Nat
      PROVE  f[n] \in Nat \ {0} /\ f[n + 1] = base * f[n]
  <2>1. n + 1 \in Nat /\ n + 1 # 0 /\ (n + 1) - 1 = n
    OBVIOUS
  <2> QED BY <1>1, <1>2, <2>1
<1> QED BY <1>1, <1>3 DEF f

\* A quotient does not shrink when a factor of at least one is applied to it.
LEMMA QuotientGrows ==
  ASSUME NEW x \in Nat, NEW y \in Nat \ {0},
         NEW num \in Nat, NEW den \in Nat \ {0}, num >= den
  PROVE  /\ x \div y \in Nat
         /\ x \div y <= (num * x) \div (den * y)
<1> DEFINE q == x \div y
           z == num * x
           w == den * y
           r == z \div w
<1>1. q \in Nat /\ q * y <= x
  OBVIOUS
<1>2. z \in Nat /\ w \in Nat \ {0}
  <2>1. den * y >= 1 * y
    OBVIOUS
  <2> QED BY <2>1
<1>3. r \in Nat /\ z < (r + 1) * w
  <2> HIDE DEF z, w
  <2> QED BY <1>2
<1>4. q * w <= z
  <2>1. q * w = den * (q * y)
    BY <1>1
  <2>2. den * (q * y) <= den * x
    BY <1>1
  <2>3. den * x <= num * x
    OBVIOUS
  <2> QED BY <1>1, <1>2, <2>1, <2>2, <2>3
<1>5. q <= r
  <2> HIDE DEF q, z, w, r
  <2> SUFFICES ASSUME q >= r + 1 PROVE FALSE
    BY <1>1, <1>3
  <2>1. (r + 1) * w <= q * w
    BY <1>1, <1>2, <1>3
  <2> QED BY <1>1, <1>2, <1>3, <1>4, <2>1
<1> QED BY <1>1, <1>5

\* The delay is one of the config's, the least one after one run, and never
\* shrinks from a run to the next of its row.
LEMMA DelayGrows ==
  ASSUME NEW n \in Nat \ {0}
  PROVE  /\ compute_supervisor_delay(1) = MinDelay
         /\ compute_supervisor_delay(n) \in 0 .. MaxDelay
         /\ compute_supervisor_delay(n) <= compute_supervisor_delay(n + 1)
<1> USE BackoffAssumption
<1> DEFINE a == Power(FactorNum)[n - 1]
           b == Power(FactorDen)[n - 1]
<1>1. n - 1 \in Nat /\ (n - 1) + 1 = n /\ (n + 1) - 1 = n /\ ~ (n + 1 <= 1)
  OBVIOUS
<1>2. /\ a \in Nat \ {0} /\ Power(FactorNum)[n] = FactorNum * a
      /\ b \in Nat \ {0} /\ Power(FactorDen)[n] = FactorDen * b
  <2>1. FactorNum \in Nat \ {0}
    OBVIOUS
  <2> QED BY <1>1, <2>1, PowerPositive
<1>3. /\ Grown(n - 1) = (MinDelay * a) \div b
      /\ Grown(n) = (FactorNum * (MinDelay * a)) \div (FactorDen * b)
  <2>1. MinDelay * (FactorNum * a) = FactorNum * (MinDelay * a)
    BY <1>2
  <2> QED BY <1>2, <2>1 DEF Grown
<1>4. Grown(n - 1) \in Nat /\ Grown(n - 1) <= Grown(n) /\ Grown(n) \in Int
  <2>1. MinDelay * a \in Nat
    BY <1>2
  <2>2. FactorNum * (MinDelay * a) \in Nat /\ FactorDen * b \in Nat \ {0}
    BY <1>2, <2>1
  <2> HIDE DEF a, b
  <2> QED BY <1>2, <1>3, <2>1, <2>2, QuotientGrows
<1>5. Grown(0) = MinDelay
  BY PowerPositive DEF Grown
<1>6. /\ compute_supervisor_delay(n) = AtMost(MaxDelay, Grown(n - 1))
      /\ compute_supervisor_delay(n + 1) = AtMost(MaxDelay, Grown(n))
      /\ compute_supervisor_delay(1) = MinDelay
  <2>1. n <= 1 => n = 1 /\ n - 1 = 0 /\ AtMost(MaxDelay, MinDelay) = MinDelay
    BY DEF AtMost
  <2> QED BY <1>1, <1>5, <2>1 DEF compute_supervisor_delay
<1> QED BY <1>4, <1>6 DEF AtMost

-----------------------------------------------------------------------------
(* The supervisor *)

\* Runs in a row are what the counter counts, as long as there are runs.
CountsRow ==
    /\ restart_attempt \in Nat
    /\ row \in Nat
    /\ plane # "stopped" => restart_attempt = row

LEMMA CountsInit == Init => CountsRow
BY DEF Init, SupervisorInit, CountsRow

LEMMA CountsNext ==
  ASSUME CountsRow, [Next]_vars
  PROVE  CountsRow'
<1> USE DEF CountsRow
<1>1. CASE PollingEnds
  BY <1>1 DEF PollingEnds, RunEnds, RunFailsForGood, Attempt, RowAfter, should_reset_backoff
<1>2. CASE PollingBegins
  BY <1>2 DEF PollingBegins, RunsAgain
<1>3. CASE Crash
  BY <1>3 DEF Crash, StartsAnew
<1>4. CASE Handle \/ UNCHANGED vars
  BY <1>4 DEF Handle, vars, supervisor
<1> QED BY <1>1, <1>2, <1>3, <1>4 DEF Next

\* The supervisor stops when the floats do, and its last delay is the one of the
\* last run of the row.
DelayInv ==
    /\ SupervisorTypeOK
    /\ plane # "stopped" => row <= MaxPower + 1
    /\ plane # "stopped" /\ row > 0 => delay = compute_supervisor_delay(row)

LEMMA DelayInit == Init => DelayInv
BY BackoffAssumption DEF Init, SupervisorInit, DelayInv, SupervisorTypeOK

\* What the end of a run does, in the terms of the row.
LEMMA RunEndsRow ==
  ASSUME CountsRow, NEW healthy \in BOOLEAN, RunEnds(healthy)
  PROVE  /\ row' = IF healthy THEN 1 ELSE row + 1
         /\ restart_attempt' = row'
         /\ IF row' > MaxPower + 1
            THEN plane' = "stopped" /\ delay' = delay
            ELSE plane' = "sleeping" /\ delay' = compute_supervisor_delay(row')
<1>1. restart_attempt' = row' /\ row' = (IF healthy THEN 1 ELSE row + 1) /\ row' \in Nat
  BY DEF CountsRow, RunEnds, Attempt, RowAfter, should_reset_backoff
<1>2. Overflows(restart_attempt') <=> row' > MaxPower + 1
  BY <1>1, BackoffAssumption DEF Overflows
<1> QED BY <1>1, <1>2 DEF RunEnds

LEMMA DelayNext ==
  ASSUME CountsRow, DelayInv, [Next]_vars
  PROVE  DelayInv'
<1> USE BackoffAssumption DEF DelayInv, SupervisorTypeOK
<1>1. ASSUME NEW healthy \in BOOLEAN, RunEnds(healthy) PROVE DelayInv'
  <2>1. row \in Nat /\ row <= MaxPower + 1 /\ row' \in Nat \ {0} /\ row' <= MaxPower + 2
    BY <1>1, RunEndsRow DEF RunEnds, CountsRow
  <2>2. compute_supervisor_delay(row') \in 0 .. MaxDelay
    BY <2>1, DelayGrows
  <2> QED BY <1>1, <2>1, <2>2, RunEndsRow
<1>2. ASSUME NEW healthy \in BOOLEAN, RunFailsForGood(healthy) PROVE DelayInv'
  BY <1>2 DEF RunFailsForGood
<1>3. CASE PollingEnds
  BY <1>1, <1>2, <1>3 DEF PollingEnds
<1>4. CASE PollingBegins
  BY <1>4 DEF PollingBegins, RunsAgain
<1>5. CASE Crash
  BY <1>5 DEF Crash, StartsAnew
<1>6. CASE Handle \/ UNCHANGED vars
  BY <1>6 DEF Handle, vars, supervisor
<1> QED BY <1>3, <1>4, <1>5, <1>6 DEF Next

LEMMA SupervisorAlways == Spec => [](CountsRow /\ DelayInv)
BY CountsInit, CountsNext, DelayInit, DelayNext, PTL DEF Spec

\* While runs end one after the other without a healthy one, the delay never
\* shrinks, for any delays and factor and up to the end of the floats; after a
\* healthy one it is the least again (bot/runtime.py:57, 109, 137).
THEOREM BackoffGrows == Spec => BackoffFits
<1>1. CountsRow /\ DelayInv /\ [Next]_vars =>
        [plane = "polling" /\ plane' = "sleeping"
         => IF row' > 1 THEN delay' >= delay ELSE delay' = MinDelay]_supervisor
  <2> SUFFICES ASSUME CountsRow, DelayInv, Next, plane = "polling", plane' = "sleeping"
               PROVE  IF row' > 1 THEN delay' >= delay ELSE delay' = MinDelay
    BY DEF vars
  <2>1. PICK healthy \in BOOLEAN : RunEnds(healthy)
    BY DEF Next, Handle, supervisor, PollingEnds, PollingBegins, Crash, RunFailsForGood,
       RunsAgain, StartsAnew
  <2>2. /\ row' = IF healthy THEN 1 ELSE row + 1
        /\ delay' = compute_supervisor_delay(row')
    BY <2>1, RunEndsRow
  <2>3. row \in Nat /\ (row > 0 => delay = compute_supervisor_delay(row))
    BY DEF CountsRow, DelayInv
  <2> QED BY <2>2, <2>3, DelayGrows
<1> QED BY <1>1, SupervisorAlways, PTL DEF Spec, BackoffFits

\* The bot gives up on the network only after more runs in a row than the
\* floats can count (bot/runtime.py:60, 121).
THEOREM StopsLate == Spec => GivesUpLate
<1>1. CountsRow /\ [Next]_vars =>
        [plane = "polling" /\ plane' = "stopped" /\ row' # row => row' > MaxPower + 1]_supervisor
  <2> SUFFICES ASSUME CountsRow, Next, plane = "polling", plane' = "stopped", row' # row
               PROVE  row' > MaxPower + 1
    BY DEF vars
  <2>1. PICK healthy \in BOOLEAN : RunEnds(healthy)
    BY DEF Next, Handle, supervisor, PollingEnds, PollingBegins, Crash, RunFailsForGood,
       RunsAgain, StartsAnew
  <2>2. restart_attempt' = row'
    BY <2>1 DEF RunEnds, Attempt, RowAfter, should_reset_backoff, CountsRow
  <2>3. Overflows(restart_attempt')
    BY <2>1 DEF RunEnds
  <2> QED BY <2>2, <2>3, CountsNext, BackoffAssumption DEF Overflows, CountsRow
<1> QED BY <1>1, CountsInit, CountsNext, PTL DEF Spec, GivesUpLate

-----------------------------------------------------------------------------
(* Types *)

LEMMA NoDataTyped == NoData \in Data /\ NoTask \in Task
BY FlowAssumption DEF NoData, Data, NoTask, Task, States, Fields

LEMMA HandlesTyped ==
  ASSUME FlowTypeOK, NEW does \in {"set_state", "download", "create", "clear"},
         NEW to \in States, NEW given \in Data, NEW c \in 0 .. MaxConversations,
         Handles(does, to, given, c)
  PROVE  /\ tasks' \in [Slots -> Task]
         /\ hurried' \subseteq 0 .. MaxConversations
<1>1. [does |-> does, to |-> to, given |-> given, conv |-> c, live |-> TRUE] \in Task
  BY DEF Task
<1>2. tasks' \in [Slots -> Task]
  BY <1>1 DEF Handles, FlowTypeOK
<1>3. \A i \in Live : tasks[i].conv \in 0 .. MaxConversations
  BY DEF Live, FlowTypeOK, Task
<1> QED BY <1>2, <1>3 DEF Handles, Hurries, FlowTypeOK

LEMMA HurriesTyped ==
  ASSUME FlowTypeOK, Hurries(conv)
  PROVE  hurried' \subseteq 0 .. MaxConversations
<1>1. \A i \in Live : tasks[i].conv \in 0 .. MaxConversations
  BY DEF Live, FlowTypeOK, Task
<1> QED BY <1>1 DEF Hurries, FlowTypeOK

LEMMA AnswerTyped ==
  ASSUME FlowTypeOK, NEW f \in Fields
  PROVE  Answer(data, f) \in Data
BY DEF Answer, FlowTypeOK, Data

LEMMA TypeInit == Init => FlowTypeOK
BY NoDataTyped, FlowAssumption DEF Init, FlowInit, FlowTypeOK, States, Conversations

LEMMA TypeUpdate ==
  ASSUME FlowTypeOK, Update
  PROVE  FlowTypeOK'
<1> USE DEF States
<1>0. conv \in 0 .. MaxConversations /\ data \in Data
  BY DEF FlowTypeOK
<1>1. CASE schedule_story_start
  <2>1. conv + 1 \in 0 .. MaxConversations
    BY <1>1, FlowAssumption DEF schedule_story_start, FlowTypeOK
  <2>2. conv' \in 0 .. MaxConversations
    BY <1>1, <2>1 DEF schedule_story_start
  <2>3. tasks' \in [Slots -> Task] /\ hurried' \subseteq 0 .. MaxConversations
    BY <1>1, <2>1, HandlesTyped, NoDataTyped DEF schedule_story_start
  <2> QED BY <1>1, <2>2, <2>3, NoDataTyped DEF schedule_story_start, Clear, FlowTypeOK
<1>2. ASSUME NEW kind \in {"once", "weekly"}, choose_schedule_type(kind) PROVE FlowTypeOK'
  <2>1. data' \in Data
    <3>1. "selected_days" \in Fields /\ "schedule_type" \in Fields
      BY DEF Fields
    <3> DEFINE d == Answer(data, "schedule_type")
    <3>2. d \in Data
      BY <3>1, AnswerTyped
    <3> HIDE DEF d
    <3>3. PICK n \in 0 .. MaxConversations :
            data' = [d EXCEPT !.kind = kind, !.answers["selected_days"] = n]
      <4>1. d.answers["selected_days"] \in 0 .. MaxConversations /\ 0 \in 0 .. MaxConversations
        BY <3>1, <3>2, FlowAssumption DEF Data
      <4>2. data' = [d EXCEPT !.kind = kind,
                      !.answers["selected_days"] = IF kind = "weekly" THEN 0 ELSE @]
        BY <1>2 DEF choose_schedule_type, d
      <4> QED BY <4>1, <4>2
    <3>4. kind \in {"none", "once", "weekly"}
      OBVIOUS
    <3>5. d.answers \in [Fields -> 0 .. MaxConversations]
      BY <3>2 DEF Data
    <3>6. data' = [d EXCEPT !.kind = kind, !.answers = [d.answers EXCEPT !["selected_days"] = n]]
      BY <3>3
    <3>7. [d.answers EXCEPT !["selected_days"] = n] \in [Fields -> 0 .. MaxConversations]
      BY <3>5
    <3> QED BY <3>2, <3>4, <3>6, <3>7 DEF Data
  <2> QED BY <1>0, <1>2, <2>1, HandlesTyped, NoDataTyped DEF choose_schedule_type, Asks, FlowTypeOK
<1>3. CASE toggle_weekday
  <2>1. data' \in Data
    BY <1>0, <1>3, FlowAssumption DEF toggle_weekday, Data, Fields
  <2> QED BY <1>3, <2>1, HurriesTyped DEF toggle_weekday, FlowTypeOK
<1>4. CASE confirm_weekdays \/ handle_media \/ TakesJob \/ AsksForJob \/ request_manual_date
           \/ request_manual_time
  BY <1>0, <1>4, HandlesTyped, NoDataTyped DEF confirm_weekdays, handle_media, TakesJob, AsksForJob,
     request_manual_date, request_manual_time, Asks, FlowTypeOK
<1>5. CASE handle_caption
  BY <1>0, <1>5, HandlesTyped, HurriesTyped, NoDataTyped, AnswerTyped DEF handle_caption, Asks,
     FlowTypeOK, Fields
<1>6. CASE choose_date_from_keyboard \/ accept_date_input
  BY <1>0, <1>6, HandlesTyped, NoDataTyped, AnswerTyped DEF choose_date_from_keyboard,
     accept_date_input, Asks, FlowTypeOK, Fields
<1>7. CASE finalize_time_input
  BY <1>0, <1>7, HandlesTyped DEF finalize_time_input, FlowTypeOK
<1>8. CASE Cancels
  BY <1>0, <1>8, HurriesTyped, NoDataTyped DEF Cancels, Clear, FlowTypeOK
<1> QED BY <1>1, <1>2, <1>3, <1>4, <1>5, <1>6, <1>7, <1>8 DEF Update

LEMMA DoneTyped ==
  ASSUME FlowTypeOK, NEW i \in Slots, Done(i)
  PROVE  tasks' \in [Slots -> Task]
BY NoDataTyped DEF FlowTypeOK, Done

LEMMA GoesOnTyped ==
  ASSUME FlowTypeOK, NEW i \in Slots, NEW does \in {"set_state", "fallback", "clear"},
         GoesOn(i, does)
  PROVE  tasks' \in [Slots -> Task]
BY DoneTyped DEF FlowTypeOK, GoesOn, Task

LEMMA TypeContinue ==
  ASSUME FlowTypeOK, NEW i \in Slots, Continue(i)
  PROVE  FlowTypeOK'
<1>0. tasks[i] \in Task /\ conv \in 0 .. MaxConversations
  BY DEF FlowTypeOK
<1>1. CASE SetsState(i)
  BY <1>0, <1>1, DoneTyped DEF SetsState, FlowTypeOK, Task
<1>2. CASE FallsBack(i) \/ TimeRefused(i) \/ CreateFails(i)
  BY <1>2, GoesOnTyped DEF FallsBack, TimeRefused, CreateFails, FlowTypeOK
<1>3. CASE MediaReady(i)
  <2>1. data' \in Data
    BY <1>0, <1>3 DEF MediaReady, FlowTypeOK, Data, Task, Fields
  <2> QED BY <1>3, <2>1, GoesOnTyped DEF MediaReady, FlowTypeOK
<1>4. CASE CallFails(i)
  BY <1>4, DoneTyped DEF CallFails, FlowTypeOK
<1>5. CASE JobCreated(i)
  <2>1. jobs' \in [Conversations -> Nat]
    <3> DEFINE c == tasks[i].conv
    <3>1. jobs' = [jobs EXCEPT ![c] = @ + 1]
      BY <1>5 DEF JobCreated
    <3>2. CASE c \in Conversations
      BY <3>1, <3>2 DEF FlowTypeOK
    <3>3. CASE c \notin Conversations
      BY <3>1, <3>3 DEF FlowTypeOK
    <3> QED BY <3>2, <3>3
  <2> QED BY <1>0, <1>5, <2>1, DoneTyped, NoDataTyped DEF JobCreated, FlowTypeOK, Task, States
<1>6. CASE Clears(i)
  BY <1>0, <1>6, DoneTyped, NoDataTyped DEF Clears, Clear, FlowTypeOK, States
<1> QED BY <1>1, <1>2, <1>3, <1>4, <1>5, <1>6 DEF Continue

LEMMA TypeNext ==
  ASSUME FlowTypeOK, [Next]_vars
  PROVE  FlowTypeOK'
<1>1. CASE Handle
  BY <1>1, TypeUpdate, TypeContinue DEF Handle
<1>2. CASE PollingEnds
  <2>1. tasks' \in [Slots -> Task]
    BY <1>2, NoDataTyped DEF PollingEnds, DispatcherGone, FlowTypeOK, Task
  <2> QED BY <1>2, <2>1 DEF PollingEnds, DispatcherGone, FlowTypeOK
<1>3. CASE PollingBegins
  BY <1>3, NoDataTyped DEF PollingBegins, FreshDispatcher, FlowTypeOK, States
<1>4. CASE Crash
  BY <1>4, NoDataTyped DEF Crash, ProcessGone, FlowTypeOK, States
<1>5. CASE UNCHANGED vars
  BY <1>5 DEF vars, flow, FlowTypeOK
<1> QED BY <1>1, <1>2, <1>3, <1>4, <1>5 DEF Next

\* The counters, the delays and what the dispatchers keep are of their types
\* (bot/runtime.py:57, 121, create_story.py).
THEOREM PlaneTyped == Spec => []TypeOK
<1>1. Init => crashes \in 0 .. MaxCrashes
  BY CrashesAssumption DEF Init
<1>2. crashes \in 0 .. MaxCrashes /\ [Next]_vars => (crashes \in 0 .. MaxCrashes)'
  BY CrashesAssumption DEF Next, Handle, PollingEnds, PollingBegins, Crash, vars
<1>3. DelayInv /\ FlowTypeOK /\ crashes \in 0 .. MaxCrashes => TypeOK
  BY DEF DelayInv, TypeOK
<1> QED BY <1>1, <1>2, <1>3, SupervisorAlways, TypeInit, TypeNext, PTL DEF Spec

-----------------------------------------------------------------------------
(* The tasks *)

LEMMA TasksInit == Init => TasksInv /\ JobsInv
BY DEF Init, FlowInit, TasksInv, JobsInv, KnownConversations, OrphansCreate, OneAtATime,
   NothingStored, NoneToCome, OneCreation, Live, NoTask, Creates

\* An update that a task goes on with takes a free slot, and hurries whoever
\* is there; the others go on as they were.
LEMMA HandlesAdds ==
  ASSUME FlowTypeOK, NEW does, NEW to, NEW given, NEW c, Handles(does, to, given, c)
  PROVE  \E i \in Slots :
           /\ tasks[i] = NoTask
           /\ tasks'[i] = [does |-> does, to |-> to, given |-> given, conv |-> c, live |-> TRUE]
           /\ \A j \in Slots \ {i} : tasks'[j] = tasks[j]
           /\ Live' = Live \cup {i}
           /\ i \notin Live
           /\ Orphans' = Orphans
           /\ hurried' = IF Live = {} THEN hurried
                         ELSE hurried \cup {c} \cup {tasks[j].conv : j \in Live}
<1>1. PICK i \in Slots :
        /\ tasks[i] = NoTask
        /\ tasks' = [tasks EXCEPT ![i] =
             [does |-> does, to |-> to, given |-> given, conv |-> c, live |-> TRUE]]
  BY DEF Handles
<1>2. /\ tasks'[i] = [does |-> does, to |-> to, given |-> given, conv |-> c, live |-> TRUE]
      /\ \A j \in Slots \ {i} : tasks'[j] = tasks[j]
  BY <1>1 DEF FlowTypeOK
<1>3. i \notin Live /\ Live' = Live \cup {i}
  BY <1>1, <1>2 DEF Live, NoTask
<1>4. \A j \in Slots : (j \in Slots \ Live' /\ tasks'[j].does = "create")
                      <=> (j \in Slots \ Live /\ tasks[j].does = "create")
  BY <1>1, <1>2, <1>3 DEF NoTask
<1>5. Orphans' = Orphans
  BY <1>1, <1>2, <1>3, <1>4 DEF Orphans
<1> QED BY <1>1, <1>2, <1>3, <1>5 DEF Handles, Hurries

\* A task that is done leaves the others.
LEMMA DoneLeaves ==
  ASSUME FlowTypeOK, NEW i \in Slots, Done(i)
  PROVE  /\ tasks'[i] = NoTask
         /\ \A j \in Slots \ {i} : tasks'[j] = tasks[j]
         /\ Live' = Live \ {i}
         /\ Orphans' \subseteq Orphans
<1>1. tasks'[i] = NoTask /\ \A j \in Slots \ {i} : tasks'[j] = tasks[j]
  BY DEF Done, FlowTypeOK
<1>2. Live' = Live \ {i}
  BY <1>1 DEF Live, NoTask
<1>3. Orphans' \subseteq Orphans
  BY <1>1, <1>2 DEF Orphans, NoTask
<1> QED BY <1>1, <1>2, <1>3

\* A task that goes on has its conversation, its slot and its dispatcher.
LEMMA GoesOnLeaves ==
  ASSUME FlowTypeOK, NEW i \in Slots, NEW does, GoesOn(i, does), tasks[i].live
  PROVE  /\ tasks'[i] = [tasks[i] EXCEPT !.does = does]
         /\ \A j \in Slots \ {i} : tasks'[j] = tasks[j]
         /\ tasks'[i].conv = tasks[i].conv /\ tasks'[i].does = does /\ tasks'[i].to = tasks[i].to
         /\ tasks'[i].given = tasks[i].given
         /\ Live' = Live
         /\ Orphans' = Orphans
<1>1. tasks'[i] = [tasks[i] EXCEPT !.does = does] /\ \A j \in Slots \ {i} : tasks'[j] = tasks[j]
  BY DEF GoesOn, FlowTypeOK
<1>2. /\ tasks'[i].conv = tasks[i].conv /\ tasks'[i].does = does /\ tasks'[i].to = tasks[i].to
      /\ tasks'[i].given = tasks[i].given /\ tasks'[i].live
  BY <1>1 DEF FlowTypeOK, Task
<1>3. Live' = Live
  BY <1>1, <1>2 DEF Live
<1>4. Orphans' = Orphans
  BY <1>1, <1>2, <1>3 DEF Orphans, Live
<1> QED BY <1>1, <1>2, <1>3, <1>4

\* Whatever a task of an older dispatcher goes on with, it is done.
LEMMA GoesOnOrphan ==
  ASSUME NEW i \in Slots, NEW does, GoesOn(i, does), ~tasks[i].live
  PROVE  Done(i)
BY DEF GoesOn

\* What the updates do to the tasks: one goes on, or none does.
Adds ==
    /\ \E does \in {"set_state", "download", "create", "clear"}, to \in States, given \in Data :
         Handles(does, to, given, conv)
    /\ UNCHANGED <<conv, over>>

AddsNothing ==
    /\ Hurries(conv)
    /\ UNCHANGED <<tasks, conv>>
    /\ over' \in {over, over \cup ({conv} \ Orphans)}

LEMMA UpdateShapes ==
  ASSUME FlowTypeOK, Update
  PROVE  schedule_story_start \/ Adds \/ AddsNothing
<1> USE NoDataTyped DEF Adds, AddsNothing, States
<1>1. ASSUME NEW kind, choose_schedule_type(kind) PROVE Adds
  BY <1>1 DEF choose_schedule_type, Asks
<1>2. CASE toggle_weekday
  BY <1>2 DEF toggle_weekday
<1>3. CASE confirm_weekdays \/ handle_media \/ TakesJob \/ AsksForJob \/ request_manual_date
           \/ request_manual_time \/ choose_date_from_keyboard \/ accept_date_input
  BY <1>3 DEF confirm_weekdays, handle_media, TakesJob, AsksForJob, request_manual_date,
     request_manual_time, choose_date_from_keyboard, accept_date_input, Asks
<1>4. CASE handle_caption
  BY <1>4 DEF handle_caption, Asks
<1>5. CASE finalize_time_input
  BY <1>5 DEF finalize_time_input, FlowTypeOK
<1>6. CASE Cancels
  BY <1>6 DEF Cancels, Clear
<1> QED BY <1>1, <1>2, <1>3, <1>4, <1>5, <1>6 DEF Update

LEMMA TasksUpdate ==
  ASSUME FlowTypeOK, TasksInv, Update, plane = "polling", plane' = plane
  PROVE  TasksInv'
<1> USE DEF TasksInv, Calm
<1>0. conv \in Nat
  BY FlowAssumption DEF FlowTypeOK
<1>1. CASE schedule_story_start
  <2>1. Handles("set_state", "choosing_type", NoData, conv + 1) /\ conv' = conv + 1
    BY <1>1 DEF schedule_story_start
  <2>2. over' \subseteq over \cup {conv}
    BY <1>1 DEF schedule_story_start, Clear
  <2>3. PICK i \in Slots :
          /\ tasks'[i] = [does |-> "set_state", to |-> "choosing_type", given |-> NoData,
                          conv |-> conv + 1, live |-> TRUE]
          /\ \A j \in Slots \ {i} : tasks'[j] = tasks[j]
          /\ Live' = Live \cup {i}
          /\ hurried' = IF Live = {} THEN hurried
                        ELSE hurried \cup {conv + 1} \cup {tasks[j].conv : j \in Live}
    BY <2>1, HandlesAdds
  <2>4. KnownConversations'
    BY <1>0, <2>1, <2>2, <2>3 DEF KnownConversations
  <2>5. OrphansCreate'
    BY <2>3 DEF OrphansCreate
  <2>6. OneAtATime'
    BY <2>1, <2>3 DEF OneAtATime
  <2> QED BY <2>4, <2>5, <2>6
<1>2. CASE Adds
  <2>1. PICK does \in {"set_state", "download", "create", "clear"}, to \in States, given \in Data :
          Handles(does, to, given, conv)
    BY <1>2 DEF Adds
  <2>2. PICK i \in Slots :
          /\ tasks'[i] = [does |-> does, to |-> to, given |-> given, conv |-> conv, live |-> TRUE]
          /\ \A j \in Slots \ {i} : tasks'[j] = tasks[j]
          /\ Live' = Live \cup {i}
          /\ hurried' = IF Live = {} THEN hurried
                        ELSE hurried \cup {conv} \cup {tasks[j].conv : j \in Live}
    BY <2>1, HandlesAdds
  <2>3. KnownConversations'
    BY <1>0, <1>2, <2>2 DEF KnownConversations, Adds
  <2>4. OrphansCreate'
    BY <2>2 DEF OrphansCreate
  <2>5. OneAtATime'
    BY <1>2, <2>2 DEF OneAtATime, Adds
  <2> QED BY <2>3, <2>4, <2>5
<1>3. CASE AddsNothing
  <2>1. UNCHANGED <<tasks, conv, Live>>
    BY <1>3 DEF AddsNothing, Live
  <2>2. conv \notin hurried' => Calm
    BY <1>3 DEF AddsNothing, Hurries
  <2>3. KnownConversations'
    BY <1>0, <1>3, <2>1 DEF KnownConversations, AddsNothing
  <2>4. OrphansCreate' /\ OneAtATime'
    BY <2>1, <2>2 DEF OrphansCreate, OneAtATime
  <2> QED BY <2>3, <2>4
<1> QED BY <1>1, <1>2, <1>3, UpdateShapes

\* What a task does after its call: it is done, or goes on with its dispatcher.
LEMMA ContinueShapes ==
  ASSUME FlowTypeOK, NEW i \in Slots, Continue(i)
  PROVE  /\ Done(i) \/ (tasks[i].live /\ \E does \in {"set_state", "fallback", "clear"} : GoesOn(i, does))
         /\ UNCHANGED <<conv, hurried>>
         /\ over' \subseteq over \cup {conv, tasks[i].conv}
BY GoesOnOrphan DEF Continue, SetsState, FallsBack, MediaReady, CallFails, JobCreated, TimeRefused,
   CreateFails, Clears, Clear

LEMMA TasksContinue ==
  ASSUME FlowTypeOK, TasksInv, NEW i \in Slots, Continue(i), plane' = plane
  PROVE  TasksInv'
<1> USE DEF TasksInv, Calm
<1>0. conv \in Nat
  BY FlowAssumption DEF FlowTypeOK
<1>1. UNCHANGED <<conv, hurried>> /\ over' \subseteq over \cup {conv, tasks[i].conv}
  BY ContinueShapes
<1>2. CASE Done(i)
  <2>1. /\ tasks'[i] = NoTask
        /\ \A j \in Slots \ {i} : tasks'[j] = tasks[j]
        /\ Live' = Live \ {i}
        /\ Live \subseteq Slots
    BY <1>2, DoneLeaves DEF Live
  <2>2. KnownConversations'
    BY <1>0, <1>1, <2>1 DEF KnownConversations, NoTask
  <2>3. OrphansCreate'
    BY <2>1 DEF OrphansCreate, NoTask
  <2>4. OneAtATime'
    BY <1>1, <2>1 DEF OneAtATime
  <2> QED BY <2>2, <2>3, <2>4
<1>3. ASSUME tasks[i].live, NEW does \in {"set_state", "fallback", "clear"}, GoesOn(i, does)
      PROVE  TasksInv'
  <2>1. /\ tasks'[i].conv = tasks[i].conv
        /\ \A j \in Slots \ {i} : tasks'[j] = tasks[j]
        /\ Live' = Live
    BY <1>3, GoesOnLeaves
  <2>2. KnownConversations'
    BY <1>0, <1>1, <2>1 DEF KnownConversations
  <2>3. OrphansCreate'
    BY <1>3, <2>1 DEF OrphansCreate, Live
  <2>4. OneAtATime'
    BY <1>1, <2>1 DEF OneAtATime, Live
  <2> QED BY <2>2, <2>3, <2>4
<1> QED BY <1>2, <1>3, ContinueShapes

\* A dispatcher that is gone leaves the tasks that make a job.
LEMMA OrphanedTasks ==
  ASSUME FlowTypeOK, DispatcherGone
  PROVE  /\ Live' = {}
         /\ \A i \in Slots : \/ tasks'[i] = NoTask
                             \/ /\ Creates(i) /\ tasks'[i].does = "create" /\ ~tasks'[i].live
                                /\ tasks'[i].conv = tasks[i].conv
                                /\ tasks'[i].given = tasks[i].given
<1>1. ASSUME NEW i \in Slots
      PROVE  \/ tasks'[i] = NoTask
             \/ /\ Creates(i) /\ tasks'[i].does = "create" /\ ~tasks'[i].live
                /\ tasks'[i].conv = tasks[i].conv
                /\ tasks'[i].given = tasks[i].given
  BY DEF DispatcherGone, Creates, FlowTypeOK, Task
<1>2. Live' = {}
  BY <1>1 DEF Live, NoTask
<1> QED BY <1>1, <1>2

LEMMA TasksNext ==
  ASSUME FlowTypeOK, TasksInv, [Next]_vars
  PROVE  TasksInv'
<1> USE DEF TasksInv, Calm
<1>1. CASE Handle
  BY <1>1, TasksUpdate, TasksContinue DEF Handle, supervisor
<1>2. CASE PollingEnds
  <2>1. UNCHANGED <<conv, over, hurried>> /\ DispatcherGone
    BY <1>2 DEF PollingEnds, DispatcherGone
  <2>2. 0 \in 0 .. conv
    BY FlowAssumption DEF FlowTypeOK
  <2> QED BY <2>1, <2>2, OrphanedTasks DEF KnownConversations, OrphansCreate, OneAtATime, NoTask
<1>3. CASE PollingBegins
  <2>1. UNCHANGED <<conv, over, hurried, tasks, Live>> /\ plane # "polling"
    BY <1>3 DEF PollingBegins, FreshDispatcher, RunsAgain, Live
  <2> QED BY <2>1 DEF KnownConversations, OrphansCreate, OneAtATime
<1>4. CASE Crash
  <2>1. UNCHANGED <<conv, over, hurried>> /\ tasks' = [i \in Slots |-> NoTask]
    BY <1>4 DEF Crash, ProcessGone
  <2>2. 0 \in 0 .. conv
    BY FlowAssumption DEF FlowTypeOK
  <2>3. Live' = {}
    BY <2>1 DEF Live, NoTask
  <2> QED BY <2>1, <2>2, <2>3 DEF KnownConversations, OrphansCreate, OneAtATime, NoTask
<1>5. CASE UNCHANGED vars
  BY <1>5 DEF vars, flow, supervisor, KnownConversations, OrphansCreate, OneAtATime, Live
<1> QED BY <1>1, <1>2, <1>3, <1>4, <1>5 DEF Next

-----------------------------------------------------------------------------
(* One job per conversation *)

LEMMA StoredUpdate ==
  ASSUME FlowTypeOK, TasksInv, NothingStored, Update, plane = "polling", plane' = plane
  PROVE  NothingStored'
<1>0. conv \in Nat /\ Live \subseteq Slots
  BY FlowAssumption DEF FlowTypeOK, Live
<1>1. CASE schedule_story_start
  <2>1. conv' = conv + 1 /\ over' \subseteq over \cup {conv}
    BY <1>1 DEF schedule_story_start, Clear
  <2>2. Orphans' = Orphans
    BY <1>1, HandlesAdds DEF schedule_story_start
  <2>3. over \subseteq 0 .. conv /\ Orphans \subseteq 0 .. conv
    BY DEF TasksInv, KnownConversations, Orphans
  <2>4. ~Dead'
    BY <1>0, <2>1, <2>2, <2>3 DEF Dead
  <2> QED BY <2>4 DEF NothingStored
<1>2. CASE Adds
  <2>1. PICK does \in {"set_state", "download", "create", "clear"}, to \in States, given \in Data :
          Handles(does, to, given, conv)
    BY <1>2 DEF Adds
  <2>2. UNCHANGED <<conv, over, Orphans>> /\ hurried \subseteq hurried'
    BY <1>2, <2>1, HandlesAdds DEF Adds
  <2>3. Dead' => Dead
    BY <2>2 DEF Dead
  <2>4. CASE TakesJob
    <3>1. UNCHANGED <<state, data>> /\ Handles("clear", "none", NoData, conv)
      BY <2>4 DEF TakesJob
    <3>2. PICK i \in Slots :
            /\ tasks'[i] = [does |-> "clear", to |-> "none", given |-> NoData, conv |-> conv,
                           live |-> TRUE]
            /\ \A j \in Slots \ {i} : tasks'[j] = tasks[j]
            /\ Live' = Live \cup {i}
      BY <3>1, HandlesAdds
    <3>3. Idle(tasks'[i])
      BY <3>2 DEF Idle
    <3>4. (\A j \in Live : Idle(tasks[j])) => \A j \in Live' : Idle(tasks'[j])
      BY <1>0, <3>2, <3>3
    <3> QED BY <2>3, <3>1, <3>4 DEF NothingStored
  <2>5. CASE AsksForJob
    <3>1. UNCHANGED <<state, data>> /\ Handles("set_state", "waiting_job_id", NoData, conv)
      BY <2>5 DEF AsksForJob, Asks
    <3>2. PICK i \in Slots :
            /\ tasks'[i] = [does |-> "set_state", to |-> "waiting_job_id", given |-> NoData, conv |-> conv,
                           live |-> TRUE]
            /\ \A j \in Slots \ {i} : tasks'[j] = tasks[j]
            /\ Live' = Live \cup {i}
      BY <3>1, HandlesAdds
    <3>3. Idle(tasks'[i])
      BY <3>2 DEF Idle
    <3>4. (\A j \in Live : Idle(tasks[j])) => \A j \in Live' : Idle(tasks'[j])
      BY <1>0, <3>2, <3>3
    <3> QED BY <2>3, <3>1, <3>4 DEF NothingStored
  <2>6. CASE Cancels
    <3>1. UNCHANGED tasks /\ state' = "none" /\ data' = NoData
      BY <2>6 DEF Cancels, Clear
    <3> QED BY <2>3, <3>1 DEF NothingStored, Live
  <2>7. CASE ~TakesJob /\ ~AsksForJob /\ ~Cancels /\ ~schedule_story_start
    <3>1. state \notin {"none", "waiting_job_id"}
      BY <2>7 DEF Update, choose_schedule_type, toggle_weekday, confirm_weekdays, handle_media,
         handle_caption, choose_date_from_keyboard, request_manual_date, accept_date_input,
         request_manual_time, finalize_time_input
    <3> QED BY <2>3, <3>1 DEF NothingStored
  <2> QED BY <1>1, <2>4, <2>5, <2>6, <2>7
<1>3. CASE AddsNothing
  <2>1. /\ UNCHANGED <<tasks, conv, Live, Orphans>>
        /\ hurried \subseteq hurried'
        /\ Live # {} => conv \in hurried'
    BY <1>3 DEF AddsNothing, Hurries, Live, Orphans
  <2>2. CASE Cancels
    <3>1. state' = "none" /\ data' = NoData
      BY <2>2 DEF Cancels, Clear
    <3>2. Dead' /\ Live # {} => Dead
      BY <2>1 DEF Dead
    <3> QED BY <2>1, <3>1, <3>2 DEF NothingStored
  <2>3. CASE ~TakesJob /\ ~AsksForJob /\ ~Cancels /\ ~schedule_story_start
    <3>1. state \notin {"none", "waiting_job_id"} /\ over' = over
      BY <2>3 DEF Update, choose_schedule_type, toggle_weekday, confirm_weekdays, handle_media,
         handle_caption, choose_date_from_keyboard, request_manual_date, accept_date_input,
         request_manual_time, finalize_time_input
    <3>2. Dead' => Dead
      BY <2>1, <3>1 DEF Dead
    <3> QED BY <3>1, <3>2 DEF NothingStored
  <2>4. CASE TakesJob \/ AsksForJob
    BY <2>4, <1>2, NoDataTyped DEF TakesJob, AsksForJob, Asks, Adds, States
  <2> QED BY <1>1, <2>2, <2>3, <2>4
<1> QED BY <1>1, <1>2, <1>3, UpdateShapes

LEMMA StoredContinue ==
  ASSUME FlowTypeOK, TasksInv, NothingStored, NEW i \in Slots, Continue(i), plane' = plane
  PROVE  NothingStored'
<1> SUFFICES ASSUME plane = "polling", Dead'
             PROVE  /\ state' \in {"none", "waiting_job_id"}
                    /\ data' = NoData
                    /\ \A j \in Live' : Idle(tasks'[j])
  BY DEF NothingStored
<1>0. UNCHANGED <<conv, hurried>> /\ Live \subseteq Slots
  BY ContinueShapes DEF Live
<1>1. tasks[i].does \notin {"nothing", "create"} => i \in Live
  BY DEF TasksInv, OrphansCreate, Live
<1>2. Done(i) => /\ Live' = Live \ {i} /\ Orphans' \subseteq Orphans
                 /\ \A j \in Live' : tasks'[j] = tasks[j]
  BY <1>0, DoneLeaves
<1>3. CASE SetsState(i)
  <2>1. Done(i) /\ state' = tasks[i].to /\ UNCHANGED <<data, over>>
    BY <1>3 DEF SetsState
  <2>2. Dead
    BY <1>0, <1>2, <2>1 DEF Dead
  <2>3. Idle(tasks[i])
    BY <1>1, <1>3, <2>2 DEF NothingStored, SetsState
  <2>4. state' = "waiting_job_id"
    BY <1>3, <2>1, <2>3 DEF SetsState, Idle
  <2> QED BY <1>2, <2>1, <2>2, <2>4 DEF NothingStored
<1>4. CASE FallsBack(i) \/ MediaReady(i)
  <2>1. tasks[i].does \in {"download", "fallback"} /\ UNCHANGED over
    BY <1>4 DEF FallsBack, MediaReady
  <2>2. tasks[i].live /\ i \in Live
    BY <1>1, <2>1 DEF Live
  <2>3. Orphans' = Orphans
    BY <1>4, <2>2, GoesOnLeaves DEF FallsBack, MediaReady
  <2>4. Dead
    BY <1>0, <2>1, <2>3 DEF Dead
  <2> QED BY <2>1, <2>2, <2>4 DEF NothingStored, Idle
<1>5. CASE CallFails(i)
  <2>1. Done(i) /\ UNCHANGED <<state, data, over>>
    BY <1>5 DEF CallFails
  <2>2. Dead
    BY <1>0, <1>2, <2>1 DEF Dead
  <2> QED BY <1>2, <2>1, <2>2 DEF NothingStored
<1>6. CASE TimeRefused(i) \/ CreateFails(i)
  <2>1. tasks[i].does = "create" /\ UNCHANGED <<state, data, over>>
    BY <1>6 DEF TimeRefused, CreateFails
  <2>2. CASE tasks[i].live
    <3>1. Orphans' = Orphans /\ i \in Live
      BY <1>6, <2>2, GoesOnLeaves DEF TimeRefused, CreateFails, Live
    <3>2. Dead
      BY <1>0, <2>1, <3>1 DEF Dead
    <3> QED BY <2>1, <3>1, <3>2 DEF NothingStored, Idle
  <2>3. CASE ~tasks[i].live
    <3>1. Done(i)
      BY <1>6, <2>3, GoesOnOrphan DEF TimeRefused, CreateFails
    <3>2. Dead
      BY <1>0, <1>2, <2>1, <3>1 DEF Dead
    <3> QED BY <1>2, <2>1, <3>1, <3>2 DEF NothingStored
  <2> QED BY <2>2, <2>3
<1>7. CASE JobCreated(i) /\ ~tasks[i].live
  <2>1. Done(i) /\ UNCHANGED <<state, data>> /\ over' = over \cup {tasks[i].conv}
    BY <1>7 DEF JobCreated
  <2>2. tasks[i].conv \in Orphans
    BY <1>7 DEF JobCreated, Orphans, Live
  <2>3. Dead
    BY <1>0, <1>2, <2>1, <2>2 DEF Dead
  <2> QED BY <1>2, <2>1, <2>3 DEF NothingStored
<1>8. CASE (JobCreated(i) /\ tasks[i].live) \/ Clears(i)
  <2>1. Done(i) /\ i \in Live /\ state' = "none" /\ data' = NoData
    BY <1>1, <1>8 DEF JobCreated, Clears, Clear, Live
  <2>2. CASE Dead
    BY <1>2, <2>1, <2>2 DEF NothingStored
  <2>3. CASE ~Dead
    <3>1. Calm
      BY <1>0, <1>2, <2>1, <2>3 DEF Dead, Calm
    <3>2. Live' = {}
      BY <1>2, <2>1, <3>1 DEF TasksInv, OneAtATime
    <3> QED BY <2>1, <3>2
  <2> QED BY <2>2, <2>3
<1> QED BY <1>3, <1>4, <1>5, <1>6, <1>7, <1>8 DEF Continue

\* An update whose task does not make a job changes no task that does.
LEMMA HandlesQuietly ==
  ASSUME FlowTypeOK, NEW does, does # "create", NEW to, NEW given, NEW c, Handles(does, to, given, c)
  PROVE  \A j \in Slots : tasks'[j] = tasks[j] \/ ~Creates(j)'
<1>1. PICK i \in Slots :
        /\ tasks'[i] = [does |-> does, to |-> to, given |-> given, conv |-> c, live |-> TRUE]
        /\ \A j \in Slots \ {i} : tasks'[j] = tasks[j]
  BY HandlesAdds
<1>2. ~Creates(i)'
  BY <1>1 DEF Creates
<1> QED BY <1>1, <1>2

LEMMA JobsUpdate ==
  ASSUME FlowTypeOK, TasksInv, JobsInv, Update, plane = "polling", plane' = plane
  PROVE  (NoneToCome /\ OneCreation)'
<1> USE DEF JobsInv
<1>0. conv \in Nat /\ Live \subseteq Slots
  BY FlowAssumption DEF FlowTypeOK, Live
<1>1. \A j \in Slots : Creates(j) /\ tasks[j].conv = conv => j \in Live \/ conv \in Orphans
  BY DEF Creates, Orphans
<1>2. CASE AddsNothing \/ schedule_story_start \/ (Adds /\ ~finalize_time_input)
  <2>1. \A j \in Slots : tasks'[j] = tasks[j] \/ ~Creates(j)'
    <3>1. CASE AddsNothing
      BY <3>1 DEF AddsNothing
    <3>2. CASE schedule_story_start
      BY <3>2, HandlesQuietly DEF schedule_story_start
    <3>3. CASE Adds /\ ~finalize_time_input
      <4>1. ASSUME NEW to, NEW does \in {"set_state", "download", "clear"},
                   Handles(does, to, NoData, conv)
            PROVE  \A j \in Slots : tasks'[j] = tasks[j] \/ ~Creates(j)'
        BY <4>1, HandlesQuietly
      <4>2. \/ \E to \in States, does \in {"set_state", "download", "clear"} :
                 Handles(does, to, NoData, conv)
            \/ UNCHANGED tasks
            \/ schedule_story_start
        BY <3>3 DEF Update, choose_schedule_type, toggle_weekday, confirm_weekdays, handle_media,
           handle_caption, choose_date_from_keyboard, request_manual_date, accept_date_input,
           request_manual_time, TakesJob, AsksForJob, Asks, Cancels, States
      <4> QED BY <3>2, <4>1, <4>2
    <3> QED BY <1>2, <3>1, <3>2, <3>3
  <2>2. hurried \subseteq hurried' /\ \A j \in Live : over' # over => tasks[j].conv \in hurried'
    <3>1. CASE AddsNothing
      <4>1. \A j \in Live : tasks[j].conv \in hurried'
        BY <3>1 DEF AddsNothing, Hurries
      <4> QED BY <3>1, <4>1 DEF AddsNothing, Hurries
    <3>2. CASE schedule_story_start
      BY <3>2 DEF schedule_story_start, Handles, Hurries
    <3>3. CASE Adds
      BY <3>3 DEF Adds, Handles, Hurries
    <3> QED BY <1>2, <3>1, <3>2, <3>3
  <2>3. over' \subseteq over \cup ({conv} \ Orphans)
    BY <1>2 DEF AddsNothing, Adds, schedule_story_start, Clear
  <2>4. NoneToCome'
    BY <1>1, <2>1, <2>2, <2>3 DEF NoneToCome, Creates
  <2>5. OneCreation'
    BY <2>1, <2>2 DEF OneCreation, Creates
  <2> QED BY <2>4, <2>5
<1>3. CASE finalize_time_input
  <2>1. /\ Handles("create", "waiting_time_input", data, conv)
        /\ UNCHANGED over
        /\ state \in {"waiting_time_choice", "waiting_time_input"}
    BY <1>3 DEF finalize_time_input
  <2>2. ~Dead
    BY <2>1 DEF NothingStored
  <2>3. PICK i \in Slots :
          /\ tasks'[i] = [does |-> "create", to |-> "waiting_time_input", given |-> data,
                         conv |-> conv, live |-> TRUE]
          /\ \A j \in Slots \ {i} : tasks'[j] = tasks[j]
          /\ hurried' = IF Live = {} THEN hurried
                        ELSE hurried \cup {conv} \cup {tasks[j].conv : j \in Live}
    BY <2>1, HandlesAdds
  <2>4. hurried \subseteq hurried'
    BY <2>3
  <2>5. NoneToCome'
    <3>1. conv \notin over \ hurried
      BY <2>2 DEF Dead
    <3>2. \A j \in Slots \ {i} : Creates(j)' => tasks'[j].conv \notin over \ hurried
      BY <2>3 DEF NoneToCome, Creates
    <3> QED BY <2>1, <2>3, <2>4, <3>1, <3>2 DEF NoneToCome
  <2>6. \A j \in Slots \ {i} : Creates(j) /\ tasks[j].conv = conv => conv \in hurried'
    BY <1>1, <2>2, <2>3 DEF Dead
  <2>7. OneCreation'
    BY <2>3, <2>4, <2>6 DEF OneCreation, Creates
  <2> QED BY <2>5, <2>7
<1> QED BY <1>2, <1>3, UpdateShapes

LEMMA JobsContinue ==
  ASSUME FlowTypeOK, TasksInv, JobsInv, NEW i \in Slots, Continue(i), plane' = plane
  PROVE  (NoneToCome /\ OneCreation)'
<1> USE DEF JobsInv
<1>0. UNCHANGED <<conv, hurried>> /\ Live \subseteq Slots
  BY ContinueShapes DEF Live
<1>1. \A j \in Slots : tasks'[j] = tasks[j] \/ ~Creates(j)'
  <2>1. CASE Done(i)
    BY <2>1, DoneLeaves DEF Creates, NoTask
  <2>2. ASSUME tasks[i].live, NEW does \in {"set_state", "fallback", "clear"}, GoesOn(i, does)
        PROVE  \A j \in Slots : tasks'[j] = tasks[j] \/ ~Creates(j)'
    BY <2>2, GoesOnLeaves DEF Creates
  <2> QED BY <2>1, <2>2, ContinueShapes
<1>2. OneCreation'
  BY <1>0, <1>1 DEF OneCreation, Creates
<1>3. \A j \in Slots : Creates(j)' => Creates(j) /\ tasks'[j].conv = tasks[j].conv
  BY <1>1 DEF Creates
<1>4. CASE JobCreated(i)
  <2>1. over' = over \cup {tasks[i].conv} /\ Creates(i) /\ ~Creates(i)'
    BY <1>4, DoneLeaves DEF JobCreated, Creates, NoTask
  <2>2. \A j \in Slots \ {i} : Creates(j) /\ tasks[j].conv = tasks[i].conv
                              => tasks[i].conv \in hurried
    BY <2>1 DEF OneCreation
  <2>3. NoneToCome'
    BY <1>0, <1>3, <2>1, <2>2 DEF NoneToCome
  <2> QED BY <1>2, <2>3
<1>5. CASE Clears(i)
  <2>1. over' \subseteq over \cup ({conv} \ Orphans) /\ ~Creates(i) /\ i \in Live
    BY <1>5 DEF Clears, Clear, Creates, TasksInv, OrphansCreate, Live
  <2>2. \A j \in Slots : Creates(j) /\ tasks[j].conv = conv => j \in Live \/ conv \in Orphans
    BY DEF Creates, Orphans
  <2>3. \A j \in Live : Creates(j) => conv \in hurried
    BY <2>1 DEF TasksInv, OneAtATime, Calm
  <2>4. NoneToCome'
    BY <1>0, <1>3, <2>1, <2>2, <2>3 DEF NoneToCome
  <2> QED BY <1>2, <2>4
<1>6. CASE ~JobCreated(i) /\ ~Clears(i)
  <2>1. over' = over
    BY <1>6 DEF Continue, SetsState, FallsBack, MediaReady, CallFails, TimeRefused, CreateFails
  <2>2. NoneToCome'
    BY <1>0, <1>3, <2>1 DEF NoneToCome
  <2> QED BY <1>2, <2>2
<1> QED BY <1>4, <1>5, <1>6

LEMMA JobsNext ==
  ASSUME FlowTypeOK, TasksInv, JobsInv, [Next]_vars
  PROVE  JobsInv'
<1>1. CASE Handle
  BY <1>1, StoredUpdate, StoredContinue, JobsUpdate, JobsContinue DEF Handle, supervisor, JobsInv
<1>2. CASE PollingEnds
  <2>1. /\ UNCHANGED <<over, hurried>>
        /\ DispatcherGone
        /\ plane' # "polling"
    BY <1>2 DEF PollingEnds, DispatcherGone, RunEnds, RunFailsForGood
  <2> QED BY <2>1, OrphanedTasks DEF JobsInv, NothingStored, NoneToCome, OneCreation, Creates, NoTask
<1>3. CASE PollingBegins
  <2>1. UNCHANGED <<over, hurried, tasks, Live>> /\ state' = "none" /\ data' = NoData
    BY <1>3 DEF PollingBegins, FreshDispatcher, Live
  <2>2. Live = {}
    BY <1>3 DEF PollingBegins, RunsAgain, TasksInv, OrphansCreate
  <2> QED BY <2>1, <2>2 DEF JobsInv, NothingStored, NoneToCome, OneCreation, Creates
<1>4. CASE Crash
  <2>1. tasks' = [i \in Slots |-> NoTask] /\ state' = "none" /\ data' = NoData
    BY <1>4 DEF Crash, ProcessGone
  <2>2. Live' = {} /\ \A i \in Slots : ~Creates(i)'
    BY <2>1 DEF Live, NoTask, Creates
  <2> QED BY <2>1, <2>2 DEF JobsInv, NothingStored, NoneToCome, OneCreation
<1>5. CASE UNCHANGED vars
  BY <1>5 DEF vars, flow, supervisor, JobsInv, NothingStored, NoneToCome, OneCreation, Creates, Dead,
     Orphans, Live
<1> QED BY <1>1, <1>2, <1>3, <1>4, <1>5 DEF Next

LEMMA JobsAlways == Spec => [](FlowTypeOK /\ TasksInv /\ JobsInv)
BY TypeInit, TypeNext, TasksInit, TasksNext, JobsNext, PTL DEF Spec

\* A conversation that has made its job or was cleared makes no further one,
\* whatever ends, restarts or is delivered again (create_story.py:440,
\* launcher.py:158).
THEOREM OneJobEach == Spec => EndedForGood
<1>1. FlowTypeOK /\ TasksInv /\ JobsInv /\ [Next]_vars =>
        [\A c \in Conversations : c \in over \ hurried => jobs'[c] = jobs[c]]_flow
  <2> SUFFICES ASSUME FlowTypeOK, JobsInv, Next, NEW c \in Conversations, c \in over \ hurried
               PROVE  jobs'[c] = jobs[c]
    BY DEF vars
  <2>1. ASSUME NEW i \in Slots, JobCreated(i) PROVE jobs'[c] = jobs[c]
    <3>1. tasks[i].conv # c
      BY <2>1 DEF JobCreated, JobsInv, NoneToCome, Creates
    <3> QED BY <2>1, <3>1 DEF JobCreated, FlowTypeOK
  <2>2. CASE \A i \in Slots : ~JobCreated(i)
    <3>1. jobs' = jobs
      BY <2>2 DEF Next, Handle, Update, schedule_story_start, choose_schedule_type, toggle_weekday,
         confirm_weekdays, handle_media, handle_caption, choose_date_from_keyboard,
         request_manual_date, accept_date_input, request_manual_time, finalize_time_input, Cancels,
         AsksForJob, TakesJob, Continue, SetsState, FallsBack, MediaReady, CallFails, TimeRefused,
         CreateFails, Clears, PollingEnds, DispatcherGone, PollingBegins, FreshDispatcher, Crash,
         ProcessGone
    <3> QED BY <3>1
  <2> QED BY <2>1, <2>2
<1> QED BY <1>1, JobsAlways, PTL DEF Spec, EndedForGood

-----------------------------------------------------------------------------
(* A job of its own answers *)

AnswersInv == OwnAnswers /\ OneConversation

LEMMA AnswersInit == Init => AnswersInv
BY DEF Init, FlowInit, AnswersInv, OwnAnswers, OneConversation, NoData, NoTask

LEMMA AnswersUpdate ==
  ASSUME FlowTypeOK, AnswersInv, Update
  PROVE  AnswersInv'
<1> USE DEF AnswersInv, Calm
<1>1. hurried \subseteq hurried'
  <2>1. \/ \E does, to, given, c : Handles(does, to, given, c)
        \/ Hurries(conv)
    BY UpdateShapes DEF Adds, AddsNothing, schedule_story_start
  <2> QED BY <2>1 DEF Handles, Hurries
<1>2. OwnAnswers'
  <2>1. CASE schedule_story_start \/ Cancels
    BY <2>1 DEF schedule_story_start, Cancels, Clear, NoData, OwnAnswers
  <2>2. CASE ~schedule_story_start /\ ~Cancels
    <3>1. conv' = conv
      BY <2>2, UpdateShapes DEF Adds, AddsNothing
    <3>2. \A f \in Fields : data'.answers[f] \in {0, conv, data.answers[f]}
      <4>1. data \in Data
        BY DEF FlowTypeOK
      <4>2. ASSUME NEW kind, choose_schedule_type(kind)
            PROVE  \A f \in Fields : data'.answers[f] \in {0, conv, data.answers[f]}
        BY <4>1, <4>2 DEF choose_schedule_type, Answer, Data, Fields
      <4>3. CASE toggle_weekday
        BY <4>1, <4>3 DEF toggle_weekday, Data, Fields
      <4>4. CASE handle_caption \/ choose_date_from_keyboard \/ accept_date_input
        BY <4>1, <4>4 DEF handle_caption, choose_date_from_keyboard, accept_date_input, Answer,
           Data, Fields
      <4> QED BY <2>2, <4>2, <4>3, <4>4 DEF Update, confirm_weekdays, handle_media,
         request_manual_date, request_manual_time, finalize_time_input, AsksForJob, TakesJob
    <3> QED BY <1>1, <3>1, <3>2 DEF OwnAnswers
  <2> QED BY <2>1, <2>2
<1>3. OneConversation'
  <2>1. CASE finalize_time_input
    <3>1. PICK i \in Slots :
            /\ tasks'[i] = [does |-> "create", to |-> "waiting_time_input", given |-> data,
                           conv |-> conv, live |-> TRUE]
            /\ \A j \in Slots \ {i} : tasks'[j] = tasks[j]
      BY <2>1, HandlesAdds DEF finalize_time_input
    <3>2. conv \notin hurried' => \A f \in Fields : data.answers[f] \in {0, conv}
      BY <1>1 DEF OwnAnswers
    <3> QED BY <1>1, <3>1, <3>2 DEF OneConversation
  <2>2. CASE ~finalize_time_input
    <3>1. \/ \E does \in {"set_state", "download", "clear"}, to \in States : \E c :
               Handles(does, to, NoData, c)
          \/ UNCHANGED tasks
      BY <2>2 DEF Update, schedule_story_start, choose_schedule_type, toggle_weekday,
         confirm_weekdays, handle_media, handle_caption, choose_date_from_keyboard,
         request_manual_date, accept_date_input, request_manual_time, TakesJob, AsksForJob, Asks,
         Cancels, States
    <3>2. \A j \in Slots : tasks'[j] = tasks[j] \/ ~Creates(j)'
      BY <3>1, HandlesQuietly
    <3> QED BY <1>1, <3>2 DEF OneConversation, Creates
  <2> QED BY <2>1, <2>2
<1> QED BY <1>2, <1>3

LEMMA AnswersContinue ==
  ASSUME FlowTypeOK, TasksInv, AnswersInv, NEW i \in Slots, Continue(i)
  PROVE  AnswersInv'
<1> USE DEF AnswersInv, Calm
<1>0. UNCHANGED <<conv, hurried>>
  BY ContinueShapes
<1>1. OwnAnswers'
  <2>1. CASE MediaReady(i)
    <3>1. i \in Live
      BY <2>1 DEF MediaReady, TasksInv, OrphansCreate, Live
    <3>2. Calm => tasks[i].conv = conv
      BY <3>1 DEF TasksInv, OneAtATime
    <3>3. \A f \in Fields : data'.answers[f] \in {data.answers[f], tasks[i].conv}
      BY <2>1 DEF MediaReady, FlowTypeOK, Data, Fields
    <3> QED BY <1>0, <3>2, <3>3 DEF OwnAnswers
  <2>2. CASE ~MediaReady(i)
    <3>1. data' \in {data, NoData}
      BY <2>2 DEF Continue, SetsState, FallsBack, CallFails, JobCreated, TimeRefused, CreateFails,
         Clears, Clear
    <3> QED BY <1>0, <3>1 DEF OwnAnswers, NoData
  <2> QED BY <2>1, <2>2
<1>2. OneConversation'
  <2>1. CASE Done(i)
    BY <1>0, <2>1, DoneLeaves DEF OneConversation, NoTask
  <2>2. ASSUME tasks[i].live, NEW does \in {"set_state", "fallback", "clear"}, GoesOn(i, does)
        PROVE  OneConversation'
    <3>1. tasks'[i].does = does /\ \A j \in Slots \ {i} : tasks'[j] = tasks[j]
      BY <2>2, GoesOnLeaves
    <3>2. \A j \in Slots : tasks'[j].does = "create" => tasks'[j] = tasks[j]
      BY <3>1
    <3> QED BY <1>0, <3>2 DEF OneConversation
  <2> QED BY <2>1, <2>2, ContinueShapes
<1> QED BY <1>1, <1>2

LEMMA AnswersNext ==
  ASSUME FlowTypeOK, TasksInv, AnswersInv, [Next]_vars
  PROVE  AnswersInv'
<1> USE DEF AnswersInv, Calm
<1>1. CASE Handle
  BY <1>1, AnswersUpdate, AnswersContinue DEF Handle
<1>2. CASE PollingEnds
  <2>1. UNCHANGED <<data, conv, hurried>> /\ DispatcherGone
    BY <1>2 DEF PollingEnds, DispatcherGone
  <2> QED BY <2>1, OrphanedTasks DEF OwnAnswers, OneConversation, NoTask, Creates
<1>3. CASE PollingBegins
  BY <1>3 DEF PollingBegins, FreshDispatcher, OwnAnswers, OneConversation, NoData
<1>4. CASE Crash
  BY <1>4 DEF Crash, ProcessGone, OwnAnswers, OneConversation, NoData, NoTask
<1>5. CASE UNCHANGED vars
  BY <1>5 DEF vars, flow, OwnAnswers, OneConversation
<1> QED BY <1>1, <1>2, <1>3, <1>4, <1>5 DEF Next

LEMMA AnswersAlways == Spec => [](FlowTypeOK /\ TasksInv /\ JobsInv /\ AnswersInv)
BY JobsAlways, AnswersInit, AnswersNext, PTL DEF Spec

\* A job is made of the answers of one conversation (create_story.py:114, 415).
THEOREM JobOfOneConversation == Spec => []OneConversation
<1>1. AnswersInv => OneConversation
  BY DEF AnswersInv
<1> QED BY <1>1, AnswersAlways, PTL

-----------------------------------------------------------------------------
(* Answers at hand *)

FitInv == AnswersAtHand /\ AnswersFit

LEMMA FitInit == Init => FitInv
BY DEF Init, FlowInit, FitInv, AnswersAtHand, AnswersFit, Fits, Live, NoTask

\* In the storage there is something of a conversation that has begun.
LEMMA BegunIfStored ==
  ASSUME NothingStored, plane = "polling",
         state \notin {"none", "waiting_job_id"} \/ \E i \in Live : ~Idle(tasks[i])
  PROVE  conv # 0
BY DEF NothingStored, Dead

\* An update of a calm conversation finds no other at work.
LEMMA CalmAdds ==
  ASSUME FlowTypeOK, NEW does, NEW to, NEW given, NEW c, Handles(does, to, given, c),
         conv' = c, Calm'
  PROVE  /\ Live = {} /\ hurried' = hurried
         /\ \E i \in Slots :
              /\ Live' = {i}
              /\ tasks'[i] = [does |-> does, to |-> to, given |-> given, conv |-> c, live |-> TRUE]
<1>1. Live = {} /\ hurried' = hurried
  BY DEF Calm, Handles, Hurries
<1> QED BY <1>1, HandlesAdds

\* It is enough that the state and the new task find their answers.
LEMMA FitsAdds ==
  ASSUME FlowTypeOK, FitInv, NEW does, NEW to, NEW given, NEW c, Handles(does, to, given, c),
         conv' = c,
         Calm' => /\ Fits(state', data')
                  /\ does \in {"set_state", "create"} => Fits(to, data')
                  /\ does \notin {"download", "fallback"}
  PROVE  FitInv'
<1>1. CASE Calm'
  <2>1. PICK i \in Slots :
          /\ Live' = {i}
          /\ tasks'[i] = [does |-> does, to |-> to, given |-> given, conv |-> c, live |-> TRUE]
    BY <1>1, CalmAdds
  <2>2. FitsNext(tasks[i])'
    BY <1>1, <2>1 DEF FitsNext
  <2> QED BY <1>1, <2>1, <2>2 DEF FitInv, AnswersAtHand, AnswersFit
<1>2. CASE ~Calm'
  BY <1>2 DEF FitInv, AnswersAtHand, AnswersFit
<1> QED BY <1>1, <1>2

LEMMA FitUpdate ==
  ASSUME FlowTypeOK, TasksInv, NothingStored, FitInv, Update, plane = "polling"
  PROVE  FitInv'
<1>0. /\ data \in Data /\ hurried \subseteq hurried'
      /\ state \notin {"none", "waiting_job_id"} => conv # 0
  <2>1. \/ \E does, to, given, c : Handles(does, to, given, c)
        \/ Hurries(conv)
    BY UpdateShapes DEF Adds, AddsNothing, schedule_story_start
  <2> QED BY <2>1, BegunIfStored DEF FlowTypeOK, Handles, Hurries
<1>1. CASE schedule_story_start
  <2>1. Fits("none", data') /\ Fits("choosing_type", data')
    BY DEF Fits
  <2> QED BY <1>1, <2>1, FitsAdds DEF schedule_story_start, Clear
<1>2. ASSUME conv' = conv, Calm' PROVE Calm /\ Fits(state, data)
  BY <1>0, <1>2 DEF Calm, FitInv, AnswersAtHand
<1>3. ASSUME NEW kind \in {"once", "weekly"}, choose_schedule_type(kind) PROVE FitInv'
  <2> DEFINE to == IF kind = "once" THEN "waiting_media" ELSE "choosing_days"
  <2>1. data'.kind = kind /\ state' = "choosing_type" /\ conv' = conv
    BY <1>0, <1>3 DEF choose_schedule_type, Answer, Data
  <2>2. Fits(state', data') /\ Fits(to, data')
    BY <2>1 DEF Fits
  <2>3. Handles("set_state", to, NoData, conv)
    BY <1>3 DEF choose_schedule_type, Asks
  <2> HIDE DEF to
  <2> QED BY <2>1, <2>2, <2>3, FitsAdds
<1>4. CASE toggle_weekday
  <2>1. /\ data'.kind = data.kind /\ state = "choosing_days"
        /\ UNCHANGED <<state, conv, tasks>> /\ Hurries(conv)
    BY <1>0, <1>4 DEF toggle_weekday, Data
  <2>2. Calm' => Fits(state', data')
    BY <1>2, <2>1 DEF Fits
  <2>3. Calm' => Live' = {}
    BY <2>1 DEF Hurries, Calm, Live
  <2> QED BY <2>2, <2>3 DEF FitInv, AnswersAtHand, AnswersFit
<1>5. CASE confirm_weekdays
  <2>1. /\ Handles("set_state", "waiting_media", NoData, conv)
        /\ UNCHANGED <<state, data, conv>>
        /\ state = "choosing_days" /\ data.answers["selected_days"] # 0
    BY <1>5 DEF confirm_weekdays, Asks
  <2>2. Calm' => Fits(state', data') /\ Fits("waiting_media", data')
    BY <1>2, <2>1 DEF Fits
  <2> QED BY <2>1, <2>2, FitsAdds
<1>6. CASE handle_media
  <2>1. /\ Handles("download", "waiting_caption", NoData, conv)
        /\ UNCHANGED <<state, data, conv>>
        /\ state = "waiting_media"
    BY <1>6 DEF handle_media
  <2>2. CASE Calm'
    <3>1. PICK i \in Slots :
            /\ Live' = {i}
            /\ tasks'[i] = [does |-> "download", to |-> "waiting_caption", given |-> NoData,
                           conv |-> conv, live |-> TRUE]
      BY <2>1, <2>2, CalmAdds
    <3>2. Fits("waiting_media", data')
      BY <1>2, <2>1, <2>2
    <3>3. FitsNext(tasks[i])'
      BY <3>1, <3>2 DEF FitsNext
    <3> QED BY <1>2, <2>1, <2>2, <3>1, <3>3 DEF FitInv, AnswersAtHand, AnswersFit
  <2>3. CASE ~Calm'
    BY <2>3 DEF FitInv, AnswersAtHand, AnswersFit
  <2> QED BY <2>2, <2>3
<1>7. CASE handle_caption
  <2>1. /\ state = "waiting_caption" /\ UNCHANGED <<state, conv>>
        /\ data'.kind = data.kind
        /\ data'.answers["media"] = data.answers["media"]
        /\ data'.answers["selected_days"] = data.answers["selected_days"]
    BY <1>0, <1>7 DEF handle_caption, Answer, Data, Fields
  <2>2. Calm' => /\ Fits(state', data') /\ data.kind # "none"
                 /\ data.kind = "once" => Fits("waiting_date", data')
                 /\ data.kind # "once" => Fits("waiting_time_choice", data')
    BY <1>2, <2>1 DEF Fits, Complete
  <2>3. CASE data.kind = "none"
    BY <2>2, <2>3 DEF FitInv, AnswersAtHand, AnswersFit
  <2>4. CASE data.kind # "none"
    <3> DEFINE to == IF data.kind = "once" THEN "waiting_date" ELSE "waiting_time_choice"
    <3>1. Handles("set_state", to, NoData, conv)
      BY <1>7, <2>4 DEF handle_caption, Asks
    <3>2. Calm' => Fits(state', data') /\ Fits(to, data')
      BY <2>2
    <3> HIDE DEF to
    <3> QED BY <2>1, <3>1, <3>2, FitsAdds
  <2> QED BY <2>3, <2>4
<1>8. CASE choose_date_from_keyboard \/ accept_date_input
  <2>1. /\ Handles("set_state", "waiting_time_choice", NoData, conv)
        /\ state \in {"waiting_date", "waiting_date_manual"} /\ UNCHANGED <<state, conv>>
        /\ data'.kind = data.kind
        /\ data'.answers["media"] = data.answers["media"]
        /\ data'.answers["scheduled_date"] = conv
    BY <1>0, <1>8 DEF choose_date_from_keyboard, accept_date_input, Answer, Asks, Data, Fields
  <2>2. Calm' => Fits(state', data') /\ Fits("waiting_time_choice", data')
    BY <1>0, <1>2, <2>1 DEF Fits, Complete
  <2> QED BY <2>1, <2>2, FitsAdds
<1>9. CASE request_manual_date
  <2>1. /\ Handles("set_state", "waiting_date_manual", NoData, conv)
        /\ state = "waiting_date" /\ UNCHANGED <<state, data, conv>>
    BY <1>9 DEF request_manual_date, Asks
  <2>2. Calm' => Fits(state', data') /\ Fits("waiting_date_manual", data')
    BY <1>2, <2>1 DEF Fits
  <2> QED BY <2>1, <2>2, FitsAdds
<1>10. CASE request_manual_time
  <2>1. /\ Handles("set_state", "waiting_time_input", NoData, conv)
        /\ state = "waiting_time_choice" /\ UNCHANGED <<state, data, conv>>
    BY <1>10 DEF request_manual_time, Asks
  <2>2. Calm' => Fits(state', data') /\ Fits("waiting_time_input", data')
    BY <1>2, <2>1 DEF Fits
  <2> QED BY <2>1, <2>2, FitsAdds
<1>11. CASE finalize_time_input
  <2>1. /\ Handles("create", "waiting_time_input", data, conv)
        /\ state \in {"waiting_time_choice", "waiting_time_input"} /\ UNCHANGED <<state, data, conv>>
    BY <1>11 DEF finalize_time_input
  <2>2. Calm' => Fits(state', data') /\ Fits("waiting_time_input", data')
    BY <1>2, <2>1 DEF Fits
  <2> QED BY <2>1, <2>2, FitsAdds
<1>12. CASE Cancels
  <2>1. state' = "none" /\ UNCHANGED <<conv, tasks>> /\ Hurries(conv)
    BY <1>12 DEF Cancels, Clear
  <2>2. Calm' => Live' = {}
    BY <2>1 DEF Hurries, Calm, Live
  <2> QED BY <2>1, <2>2 DEF FitInv, AnswersAtHand, AnswersFit, Fits
<1>13. CASE AsksForJob
  <2>1. /\ Handles("set_state", "waiting_job_id", NoData, conv)
        /\ UNCHANGED <<state, data, conv>>
    BY <1>13 DEF AsksForJob, Asks
  <2>2. Calm' => Fits(state', data') /\ Fits("waiting_job_id", data')
    BY <1>2, <2>1 DEF Fits
  <2> QED BY <2>1, <2>2, FitsAdds
<1>14. CASE TakesJob
  <2>1. /\ Handles("clear", "none", NoData, conv)
        /\ UNCHANGED <<state, data, conv>>
    BY <1>14 DEF TakesJob
  <2>2. Calm' => Fits(state', data')
    BY <1>2, <2>1
  <2> QED BY <2>1, <2>2, FitsAdds
<1> QED BY <1>1, <1>3, <1>4, <1>5, <1>6, <1>7, <1>8, <1>9, <1>10, <1>11, <1>12, <1>13, <1>14
  DEF Update

\* A task that is done, and left the storage as it was.
LEMMA FitsDone ==
  ASSUME FlowTypeOK, FitInv, NEW i \in Slots, Done(i), UNCHANGED <<data, conv, hurried>>,
         Calm => Fits(state', data)
  PROVE  FitInv'
<1>1. /\ \A j \in Slots \ {i} : tasks'[j] = tasks[j]
      /\ Live' = Live \ {i} /\ Live \subseteq Slots
  BY DoneLeaves DEF Live
<1>2. Calm' <=> Calm
  BY DEF Calm
<1>3. AnswersFit'
  BY <1>1, <1>2 DEF FitInv, AnswersFit, FitsNext
<1> QED BY <1>2, <1>3 DEF FitInv, AnswersAtHand

LEMMA FitContinue ==
  ASSUME FlowTypeOK, TasksInv, NothingStored, FitInv, NEW i \in Slots, Continue(i)
  PROVE  FitInv'
<1>0. UNCHANGED <<conv, hurried>> /\ (Calm' <=> Calm)
  BY ContinueShapes DEF Calm
<1>1. tasks[i].does \notin {"nothing", "create"} => i \in Live /\ plane = "polling"
  BY DEF TasksInv, OrphansCreate, Live
<1>2. Calm => /\ Fits(state, data)
              /\ i \in Live => Live = {i} /\ tasks[i].conv = conv /\ FitsNext(tasks[i])
  BY DEF FitInv, AnswersAtHand, AnswersFit, TasksInv, OneAtATime
<1>3. CASE SetsState(i)
  <2>1. Done(i) /\ state' = tasks[i].to /\ UNCHANGED data /\ i \in Live
    BY <1>1, <1>3 DEF SetsState
  <2>2. Calm => Fits(state', data)
    BY <1>2, <1>3, <2>1 DEF SetsState, FitsNext
  <2> QED BY <1>0, <2>1, <2>2, FitsDone
<1>4. CASE CallFails(i)
  BY <1>0, <1>2, <1>4, FitsDone DEF CallFails
<1>5. CASE FallsBack(i)
  <2>1. i \in Live /\ tasks[i].live /\ UNCHANGED <<state, data>> /\ GoesOn(i, "fallback")
    BY <1>1, <1>5 DEF FallsBack, Live
  <2>2. Live' = Live /\ tasks'[i].does = "fallback" /\ tasks'[i].to = tasks[i].to
    BY <2>1, GoesOnLeaves
  <2>3. Calm => FitsNext(tasks[i])'
    BY <1>2, <1>5, <2>1, <2>2 DEF FallsBack, FitsNext
  <2> QED BY <1>0, <1>2, <2>1, <2>2, <2>3 DEF FitInv, AnswersAtHand, AnswersFit
<1>6. CASE MediaReady(i)
  <2>1. i \in Live /\ tasks[i].live /\ UNCHANGED state /\ GoesOn(i, "set_state")
    BY <1>1, <1>6 DEF MediaReady, Live
  <2>2. Live' = Live /\ tasks'[i].does = "set_state" /\ tasks'[i].to = tasks[i].to
    BY <2>1, GoesOnLeaves
  <2>3. conv # 0
    BY <1>1, <1>6, <2>1, BegunIfStored DEF MediaReady, Idle
  <2>4. /\ data'.kind = data.kind
        /\ data'.answers["media"] = tasks[i].conv
        /\ data'.answers["selected_days"] = data.answers["selected_days"]
        /\ data'.answers["scheduled_date"] = data.answers["scheduled_date"]
    BY <1>6 DEF MediaReady, FlowTypeOK, Data, Fields
  <2>5. Calm => Fits(state', data')
    BY <1>2, <2>1, <2>3, <2>4 DEF Fits, Complete
  <2>6. Calm => tasks[i].to = "waiting_caption" /\ Fits("waiting_media", data)
    BY <1>2, <1>6, <2>1 DEF MediaReady, FitsNext
  <2>7. Calm => Fits("waiting_caption", data')
    BY <1>2, <2>1, <2>3, <2>4, <2>6 DEF Fits
  <2>8. Calm => FitsNext(tasks[i])'
    BY <2>2, <2>6, <2>7 DEF FitsNext
  <2> QED BY <1>0, <1>2, <2>1, <2>2, <2>5, <2>8 DEF FitInv, AnswersAtHand, AnswersFit
<1>7. CASE TimeRefused(i) \/ CreateFails(i)
  <2>1. UNCHANGED <<state, data>> /\ tasks[i].does = "create"
    BY <1>7 DEF TimeRefused, CreateFails
  <2>2. CASE ~tasks[i].live
    <3>1. Done(i)
      BY <1>7, <2>2, GoesOnOrphan DEF TimeRefused, CreateFails
    <3> QED BY <1>0, <1>2, <2>1, <3>1, FitsDone
  <2>3. ASSUME tasks[i].live, NEW does \in {"set_state", "clear"}, GoesOn(i, does) PROVE FitInv'
    <3>1. Live' = Live /\ tasks'[i].does = does /\ tasks'[i].to = tasks[i].to /\ i \in Live
      BY <2>3, GoesOnLeaves DEF Live
    <3>2. Calm => FitsNext(tasks[i])'
      BY <1>2, <2>1, <3>1 DEF FitsNext
    <3> QED BY <1>0, <1>2, <2>1, <3>1, <3>2 DEF FitInv, AnswersAtHand, AnswersFit
  <2> QED BY <1>7, <2>2, <2>3 DEF TimeRefused, CreateFails
<1>8. CASE JobCreated(i) /\ ~tasks[i].live
  BY <1>0, <1>2, <1>8, FitsDone DEF JobCreated
<1>9. CASE (JobCreated(i) /\ tasks[i].live) \/ Clears(i)
  <2>1. Done(i) /\ i \in Live /\ state' = "none"
    BY <1>1, <1>9 DEF JobCreated, Clears, Clear, Live
  <2>2. Calm => Live' = {}
    BY <1>2, <2>1, DoneLeaves
  <2> QED BY <1>0, <2>1, <2>2 DEF FitInv, AnswersAtHand, AnswersFit, Fits
<1> QED BY <1>3, <1>4, <1>5, <1>6, <1>7, <1>8, <1>9 DEF Continue

LEMMA FitNext ==
  ASSUME FlowTypeOK, TasksInv, JobsInv, FitInv, [Next]_vars
  PROVE  FitInv'
<1>1. CASE Handle
  BY <1>1, FitUpdate, FitContinue DEF Handle, JobsInv
<1>2. CASE PollingEnds
  <2>1. UNCHANGED <<state, data, conv, hurried>> /\ Live' = {}
    BY <1>2, OrphanedTasks DEF PollingEnds, DispatcherGone
  <2> QED BY <2>1 DEF FitInv, AnswersAtHand, AnswersFit, Calm
<1>3. CASE PollingBegins
  <2>1. state' = "none" /\ Live' = {}
    BY <1>3 DEF PollingBegins, FreshDispatcher, RunsAgain, TasksInv, OrphansCreate, Live
  <2> QED BY <2>1 DEF FitInv, AnswersAtHand, AnswersFit, Fits
<1>4. CASE Crash
  <2>1. state' = "none" /\ Live' = {}
    BY <1>4 DEF Crash, ProcessGone, Live, NoTask
  <2> QED BY <2>1 DEF FitInv, AnswersAtHand, AnswersFit, Fits
<1>5. CASE UNCHANGED vars
  BY <1>5 DEF vars, flow, FitInv, AnswersAtHand, AnswersFit, FitsNext, Calm, Live
<1> QED BY <1>1, <1>2, <1>3, <1>4, <1>5 DEF Next

\* In a calm conversation every question finds the answers its handlers read
\* (create_story.py:289, 405).
THEOREM QuestionsFindAnswers == Spec => []AnswersAtHand
<1>1. FitInv => AnswersAtHand
  BY DEF FitInv
<1> QED BY <1>1, JobsAlways, FitInit, FitNext, PTL DEF Spec
=============================================================================
