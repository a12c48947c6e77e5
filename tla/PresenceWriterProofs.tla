------------------------ MODULE PresenceWriterProofs ------------------------
(***************************************************************************)
(* Proofs about the presence writer, for every set of payloads and         *)
(* callers, every backoff sequence and every pair of intervals.            *)
(*                                                                         *)
(* The invariants of PresenceWriter are not inductive one by one: a timer  *)
(* is armed, or the display is current, because of what the loop knows     *)
(* about its connection.  IInv adds those facts; every theorem follows     *)
(* from it.                                                                *)
(***************************************************************************)
EXTENDS PresenceWriter, TLAPS

\* What the loop believes of its connection, and what Discord can display.
ConnectionAgrees ==
    /\ connected <=> link # "none"
    /\ shown # NULL => link = "open"
    /\ discord = "down" => link # "open"

\* After clear() or a stop there is nothing left to do.
NothingWanted ==
    desired = NULL => shown = NULL /\ ~pending
NothingRuns ==
    ~running => ~connected /\ ~Armed(retry) /\ ~Armed(write) /\ ~Armed(reapply)

\* A refusal is always that of the wanted activity.
RefusalIsCurrent == rejected \in {NULL, desired}

\* A wanted activity has a timer, or is displayed on a link that, if it is
\* probed at all, is probed again.
Watched ==
    (running /\ desired \notin {NULL, rejected}) =>
        \/ Armed(retry) \/ Armed(write)
        \/ /\ connected
           /\ link = "open" => shown = desired
           /\ ReapplyInterval > 0 => Armed(reapply)

\* The timers that lead to a write leave the throttle its interval.
TimersRespectThrottle ==
    /\ Armed(write) => sinceWrite + write >= MinWriteInterval
    /\ (Armed(reapply) /\ ReapplyInterval >= MinWriteInterval) =>
          sinceWrite + reapply >= MinWriteInterval

Inv ==
    /\ ConnectionAgrees
    /\ BackoffIsExclusive
    /\ NothingWanted /\ NothingRuns
    /\ RefusalIsCurrent
    /\ Watched
    /\ DisplayIsCurrent
    /\ ReportedRefusalIsLive
    /\ TimersRespectThrottle

IInv == TypeOK /\ Inv

-----------------------------------------------------------------------------
(* Type correctness.                                                         *)

\* The part of TypeOK that an attempt to show an activity can change.
OutcomeTypeOK ==
    /\ rejected \in Payloads \cup {NULL}
    /\ pending \in BOOLEAN
    /\ connected \in BOOLEAN
    /\ reported \in BOOLEAN
    /\ retry \in TimeLeft /\ write \in TimeLeft /\ reapply \in TimeLeft
    /\ attempt \in 1 .. Len(RetryDelays)
    /\ wrote \in BOOLEAN
    /\ sinceWrite \in 0 .. MinWriteInterval
    /\ link \in {"none", "open", "dead"}
    /\ shown \in Payloads \cup {NULL}

LEMMA FirstDelay == 1 \in 1 .. Len(RetryDelays)
BY RetryDelaysAssumption

LEMMA UnreachableTypes ==
    ASSUME TypeOK,
           NEW refusal \in Payloads \cup {NULL}, NEW fresh \in BOOLEAN,
           NEW next \in 1 .. Len(RetryDelays),
           Unreachable(refusal, fresh, next)
    PROVE  OutcomeTypeOK'
<1>1. RetryDelays[next] \in Nat
  BY RetryDelaysAssumption
<1>2. attempt' \in 1 .. Len(RetryDelays)
  BY RetryDelaysAssumption DEF Unreachable, ScheduleRetry
<1>3. QED
  BY <1>1, <1>2 DEF TypeOK, OutcomeTypeOK, TimeLeft, Off, Unreachable,
                    ScheduleRetry, Disconnect, clock

LEMMA RefusedTypes ==
    ASSUME TypeOK,
           NEW activity \in Payloads, NEW fresh \in BOOLEAN,
           NEW next \in 1 .. Len(RetryDelays),
           Refused(activity, fresh, next)
    PROVE  OutcomeTypeOK'
BY DEF TypeOK, OutcomeTypeOK, TimeLeft, Off, Refused, StopTimers, clock

LEMMA PublishedTypes ==
    ASSUME TypeOK,
           NEW activity \in Payloads, NEW fresh \in BOOLEAN,
           Published(activity, fresh)
    PROVE  OutcomeTypeOK'
<1>1. reapply' \in TimeLeft
  BY IntervalsAssumption DEF Published, TimeLeft, Off
<1>2. sinceWrite' \in 0 .. MinWriteInterval
  BY IntervalsAssumption DEF Published
<1>3. attempt' \in 1 .. Len(RetryDelays)
  BY FirstDelay DEF Published
<1>4. QED
  BY <1>1, <1>2, <1>3 DEF OutcomeTypeOK, TimeLeft, Off, Published

LEMMA ApplyDesiredTypes ==
    ASSUME TypeOK,
           NEW activity \in Payloads \cup {NULL},
           NEW refusal \in Payloads \cup {NULL},
           NEW retryLeft \in TimeLeft, NEW writeLeft \in TimeLeft,
           NEW reapplyLeft \in TimeLeft,
           ApplyDesired(activity, refusal, retryLeft, writeLeft, reapplyLeft)
    PROVE  OutcomeTypeOK'
<1>1. CASE activity \in {NULL, refusal}
  <2>1. /\ rejected' = refusal
        /\ retry' = retryLeft /\ write' = writeLeft /\ reapply' = reapplyLeft
        /\ UNCHANGED <<pending, clock, client, attempt, reported>>
    BY <1>1 DEF ApplyDesired
  <2>2. QED
    BY <2>1 DEF TypeOK, OutcomeTypeOK, clock, client
<1>2. CASE activity \notin {NULL, refusal}
  <2>1. activity \in Payloads /\ (~connected) \in BOOLEAN
    BY <1>2 DEF TypeOK
  <2>2. attempt \in 1 .. Len(RetryDelays)
    BY DEF TypeOK
  <2>3. QED
    BY <1>2, <2>1, <2>2, UnreachableTypes, RefusedTypes, PublishedTypes
       DEF ApplyDesired
<1>3. QED
  BY <1>1, <1>2

\* Reconnecting and nothing to push, or pushing.
LEMMA ReestablishTypes ==
    ASSUME TypeOK, NEW r \in Requesters, Reestablish(r)
    PROVE  OutcomeTypeOK' /\ phase' \in [Requesters -> {"idle"} \cup Waiting \cup Answers]
<1>1. 1 \in 1 .. Len(RetryDelays)
  BY FirstDelay
<1>2. \A answer \in Answers : Answer(r, answer) =>
          phase' \in [Requesters -> {"idle"} \cup Waiting \cup Answers]
  BY DEF TypeOK, Answer
<1>3. CASE Unreachable(rejected, TRUE, 1) /\ Answer(r, "failed")
  BY <1>1, <1>2, <1>3, UnreachableTypes DEF TypeOK, Answers
<1>4. CASE LoggedIn /\ Answer(r, "connected")
  BY <1>1, <1>2, <1>4
     DEF TypeOK, OutcomeTypeOK, LoggedIn, StopTimers, TimeLeft, Off, clock, Answers
<1>5. CASE /\ desired \notin {NULL, rejected}
           /\ Refused(desired, TRUE, 1) /\ Answer(r, "failed")
  BY <1>1, <1>2, <1>5, RefusedTypes DEF TypeOK, Answers
<1>6. CASE /\ desired \notin {NULL, rejected}
           /\ Published(desired, TRUE) /\ Answer(r, "connected")
  BY <1>2, <1>6, PublishedTypes DEF TypeOK, Answers
<1>7. QED
  BY <1>3, <1>4, <1>5, <1>6 DEF Reestablish

LEMMA ReceiveTypes ==
    ASSUME TypeOK, NEW activity \in Payloads, Receive(activity)
    PROVE  TypeOK'
<1> DEFINE refusal == IF rejected = activity THEN rejected ELSE NULL
<1>1. refusal \in Payloads \cup {NULL}
  BY DEF TypeOK
<1>2. OutcomeTypeOK'
  <2>1. CASE Armed(retry)
    BY <1>1, <2>1 DEF Receive, TypeOK, OutcomeTypeOK, timers, clock, client
  <2>2. CASE ~Armed(retry) /\ WriteDue
    <3>1. ApplyDesired(activity, refusal, retry, write, reapply)
      BY <2>2 DEF Receive
    <3>2. retry \in TimeLeft /\ write \in TimeLeft /\ reapply \in TimeLeft
      BY DEF TypeOK
    <3> HIDE DEF refusal
    <3>3. QED
      BY <1>1, <3>1, <3>2, ApplyDesiredTypes
  <2>3. CASE ~Armed(retry) /\ ~WriteDue
    <3>1. MinWriteInterval - sinceWrite \in TimeLeft
      BY IntervalsAssumption DEF TypeOK, TimeLeft
    <3>2. QED
      BY <1>1, <2>3, <3>1 DEF Receive, TypeOK, OutcomeTypeOK, clock, client
  <2>4. QED
    BY <2>1, <2>2, <2>3
<1>3. QED
  BY <1>2 DEF Receive, TypeOK, OutcomeTypeOK, requests

LEMMA TickTypes ==
    ASSUME TypeOK, Tick
    PROVE  TypeOK'
<1>1. \A timer \in TimeLeft : CountDown(timer) \in TimeLeft
  BY DEF CountDown, TimeLeft, Off
<1>2. sinceWrite' \in 0 .. MinWriteInterval
  BY IntervalsAssumption DEF Tick, TypeOK
<1>3. QED
  BY <1>1, <1>2 DEF Tick, TypeOK, intent, client, requests

LEMMA TypeInduction == TypeOK /\ [Next]_vars => TypeOK'
<1> SUFFICES ASSUME TypeOK, [Next]_vars PROVE TypeOK'
  OBVIOUS
<1> Off \in TimeLeft
  BY DEF Off, TimeLeft
<1> desired \in Payloads \cup {NULL} /\ rejected \in Payloads \cup {NULL}
  BY DEF TypeOK
<1> retry \in TimeLeft /\ write \in TimeLeft /\ reapply \in TimeLeft
  BY DEF TypeOK
<1>1. CASE \E activity \in Payloads : Receive(activity)
  BY <1>1, ReceiveTypes
<1>2. CASE Clear
  BY <1>2, FirstDelay DEF Clear, StopTimers, Disconnect, TypeOK, clock, requests
<1>3. CASE RetryFires
  <2>1. OutcomeTypeOK'
    BY <1>3, ApplyDesiredTypes DEF RetryFires
  <2>2. QED
    BY <1>3, <2>1 DEF RetryFires, TypeOK, OutcomeTypeOK, requests
<1>4. CASE WriteFires
  <2>1. CASE pending
    <3>1. OutcomeTypeOK'
      BY <1>4, <2>1, ApplyDesiredTypes DEF WriteFires
    <3>2. QED
      BY <1>4, <3>1 DEF WriteFires, TypeOK, OutcomeTypeOK, requests
  <2>2. CASE ~pending
    BY <1>4, <2>2 DEF WriteFires, TypeOK, clock, client, requests
  <2>3. QED
    BY <2>1, <2>2
<1>5. CASE ReapplyFires
  <2>1. OutcomeTypeOK'
    BY <1>5, ApplyDesiredTypes DEF ReapplyFires
  <2>2. QED
    BY <1>5, <2>1 DEF ReapplyFires, TypeOK, OutcomeTypeOK, requests
<1>6. CASE \E r \in Requesters : Reconnect(r)
  <2>1. PICK r \in Requesters : Reconnect(r)
    BY <1>6
  <2>2. CASE Reestablish(r)
    BY <2>1, <2>2, ReestablishTypes DEF Reconnect, TypeOK, OutcomeTypeOK
  <2>3. CASE ~Reestablish(r)
    BY <2>1, <2>3 DEF Reconnect, Answer, Answers, TypeOK, timers, clock, client
  <2>4. QED
    BY <2>2, <2>3
<1>7. CASE Stop
  BY <1>7 DEF Stop, StopTimers, Disconnect, TypeOK, intent, clock, requests
<1>8. CASE Tick
  BY <1>8, TickTypes
<1>9. CASE \E health \in {"up", "flaky", "down"} : DiscordBecomes(health)
  BY <1>9 DEF DiscordBecomes, LoseLink, TypeOK, intent, timers, clock, requests
<1>10. CASE DropLink
  BY <1>10 DEF DropLink, LoseLink, TypeOK, intent, timers, clock, requests
<1>11. CASE \E r \in Requesters :
               \/ \E force \in BOOLEAN : CallReconnect(r, force)
               \/ ContextExpires(r)
               \/ ReconnectReturns(r)
  BY <1>11 DEF CallReconnect, ContextExpires, ReconnectReturns, Waiting, TypeOK,
               intent, timers, clock, client
<1>12. CASE UNCHANGED vars
  BY <1>12 DEF vars, TypeOK, intent, timers, clock, client, requests
<1>13. QED
  BY <1>1, <1>2, <1>3, <1>4, <1>5, <1>6, <1>7, <1>8, <1>9, <1>10, <1>11, <1>12
     DEF Next, Loop, Environment

LEMMA TypeInit == Init => TypeOK
<1>1. Off \in TimeLeft /\ MinWriteInterval \in 0 .. MinWriteInterval
  BY IntervalsAssumption DEF TimeLeft, Off
<1>2. QED
  BY <1>1, FirstDelay DEF Init, TypeOK

\* Every variable of the writer, the client and its callers keeps its type.
THEOREM TypeCorrect == Spec => []TypeOK
BY TypeInit, TypeInduction, PTL DEF Spec

-----------------------------------------------------------------------------
(* The inductive invariant.                                                  *)

\* What a case of the select loop leaves alone while it talks to Discord.
LoopCase ==
    /\ running /\ running' = running
    /\ discord' = discord
    /\ desired' \in Payloads \/ desired' = desired

\* Each of the three outcomes of an attempt restores the whole invariant, so
\* a case only has to say what it called with.
LEMMA UnreachableKeeps ==
    ASSUME TypeOK, Inv, LoopCase,
           NEW refusal \in {NULL, rejected}, refusal \in {NULL, desired'},
           NEW fresh \in BOOLEAN, NEW next \in 1 .. Len(RetryDelays),
           Unreachable(refusal, fresh, next)
    PROVE  Inv'
<1>1. /\ connected' = FALSE /\ link' = "none" /\ shown' = NULL
      /\ Armed(retry)' /\ ~Armed(write)' /\ ~Armed(reapply)'
      /\ rejected' = refusal
      /\ UNCHANGED <<pending, wrote, sinceWrite, reported>>
  <2>1. RetryDelays[next] \in Nat
    BY RetryDelaysAssumption
  <2>2. QED
    BY <2>1 DEF Unreachable, Disconnect, ScheduleRetry, Armed, Off, clock
<1>2. QED
  BY <1>1, PayloadsAssumption
     DEF TypeOK, Inv, LoopCase, ConnectionAgrees, BackoffIsExclusive, NothingWanted,
         NothingRuns, RefusalIsCurrent, Watched, DisplayIsCurrent,
         ReportedRefusalIsLive, TimersRespectThrottle

LEMMA RefusedKeeps ==
    ASSUME TypeOK, Inv, LoopCase, desired' \in Payloads,
           NEW fresh \in BOOLEAN, ~connected => fresh, NEW next,
           Refused(desired', fresh, next)
    PROVE  Inv'
BY PayloadsAssumption
   DEF TypeOK, Inv, LoopCase, Refused, StopTimers, Armed, Off, clock,
       ConnectionAgrees, BackoffIsExclusive, NothingWanted,
       NothingRuns, RefusalIsCurrent, Watched, DisplayIsCurrent,
       ReportedRefusalIsLive, TimersRespectThrottle

LEMMA PublishedKeeps ==
    ASSUME TypeOK, Inv, LoopCase, desired' \in Payloads,
           NEW fresh \in BOOLEAN,
           Published(desired', fresh)
    PROVE  Inv'
BY PayloadsAssumption, IntervalsAssumption
   DEF TypeOK, Inv, LoopCase, Published, Armed, Off,
       ConnectionAgrees, BackoffIsExclusive, NothingWanted,
       NothingRuns, RefusalIsCurrent, Watched, DisplayIsCurrent,
       ReportedRefusalIsLive, TimersRespectThrottle

\* An attempt that is made reaches one of the three outcomes.
LEMMA AttemptKeeps ==
    ASSUME TypeOK, Inv, LoopCase,
           NEW refusal \in {NULL, rejected}, refusal \in {NULL, desired'},
           NEW retryLeft, NEW writeLeft, NEW reapplyLeft,
           desired' \notin {NULL, refusal},
           ApplyDesired(desired', refusal, retryLeft, writeLeft, reapplyLeft)
    PROVE  Inv'
<1>1. desired' \in Payloads /\ (~connected) \in BOOLEAN
      /\ attempt \in 1 .. Len(RetryDelays)
  BY DEF TypeOK, LoopCase
<1>2. \/ Unreachable(refusal, ~connected, attempt)
      \/ Refused(desired', ~connected, attempt)
      \/ Published(desired', ~connected)
  BY DEF ApplyDesired
<1>3. QED
  BY <1>1, <1>2, UnreachableKeeps, RefusedKeeps, PublishedKeeps

LEMMA ReceiveKeeps ==
    ASSUME TypeOK, Inv, NEW activity \in Payloads, Receive(activity)
    PROVE  Inv'
<1> DEFINE refusal == IF rejected = activity THEN rejected ELSE NULL
<1>1. LoopCase /\ desired' = activity
  BY DEF Receive, LoopCase
<1>2. refusal \in {NULL, rejected} /\ refusal \in {NULL, desired'}
  BY <1>1
<1>3. CASE Armed(retry)
  BY <1>1, <1>3, PayloadsAssumption
     DEF Receive, TypeOK, Inv, timers, clock, client, requests, Armed,
         ConnectionAgrees, BackoffIsExclusive, NothingWanted,
         NothingRuns, RefusalIsCurrent, Watched, DisplayIsCurrent,
         ReportedRefusalIsLive, TimersRespectThrottle
<1>4. CASE ~Armed(retry) /\ WriteDue
  <2>1. ApplyDesired(desired', refusal, retry, write, reapply)
    BY <1>1, <1>4 DEF Receive
  <2>2. CASE activity = refusal
    <3>1. /\ rejected' = refusal
          /\ UNCHANGED <<retry, write, reapply, pending, clock, client, reported>>
      BY <1>1, <2>1, <2>2 DEF ApplyDesired
    <3>2. QED
      BY <1>1, <2>2, <3>1, PayloadsAssumption
         DEF LoopCase, TypeOK, Inv, clock, client, Armed,
             ConnectionAgrees, BackoffIsExclusive, NothingWanted,
             NothingRuns, RefusalIsCurrent, Watched, DisplayIsCurrent,
             ReportedRefusalIsLive, TimersRespectThrottle
  <2>3. CASE activity # refusal
    <3>1. desired' \notin {NULL, refusal}
      BY <1>1, <2>3, PayloadsAssumption
    <3> HIDE DEF refusal
    <3>2. QED
      BY <1>1, <1>2, <2>1, <3>1, AttemptKeeps
  <2>4. QED
    BY <2>2, <2>3
<1>5. CASE ~Armed(retry) /\ ~WriteDue
  <2>1. /\ Armed(write)' /\ wrote /\ ~Armed(retry)'
        /\ sinceWrite' + write' >= MinWriteInterval
    BY <1>5, IntervalsAssumption DEF Receive, WriteDue, TypeOK, Armed, Off, clock
  <2>2. /\ pending' = TRUE /\ rejected' = refusal
        /\ UNCHANGED <<reapply, clock, client, reported, discord>>
    BY <1>5 DEF Receive
  <2>3. QED
    BY <1>1, <1>5, <2>1, <2>2, PayloadsAssumption
       DEF LoopCase, TypeOK, Inv, clock, client, Armed,
           ConnectionAgrees, BackoffIsExclusive, NothingWanted,
           NothingRuns, RefusalIsCurrent, Watched, DisplayIsCurrent,
           ReportedRefusalIsLive, TimersRespectThrottle
<1>6. QED
  BY <1>3, <1>4, <1>5

\* A timer fires: the timer is stopped and the wanted activity is applied.
LEMMA TimerKeeps ==
    ASSUME TypeOK, Inv, LoopCase, desired' = desired,
           NEW retryLeft \in {retry, Off}, NEW writeLeft \in {write, Off},
           NEW reapplyLeft \in {reapply, Off},
           ApplyDesired(desired, rejected, retryLeft, writeLeft, reapplyLeft)
    PROVE  Inv'
<1>1. CASE desired \in {NULL, rejected}
  <2>1. /\ rejected' = rejected
        /\ retry' = retryLeft /\ write' = writeLeft /\ reapply' = reapplyLeft
        /\ UNCHANGED <<pending, clock, client, reported>>
    BY <1>1 DEF ApplyDesired
  <2>2. QED
    BY <1>1, <2>1, PayloadsAssumption
       DEF LoopCase, TypeOK, Inv, clock, client, Armed,
           ConnectionAgrees, BackoffIsExclusive, NothingWanted,
           NothingRuns, RefusalIsCurrent, Watched, DisplayIsCurrent,
           ReportedRefusalIsLive, TimersRespectThrottle
<1>2. CASE desired \notin {NULL, rejected}
  BY <1>2, AttemptKeeps DEF Inv, RefusalIsCurrent
<1>3. QED
  BY <1>1, <1>2

LEMMA ReconnectKeeps ==
    ASSUME TypeOK, Inv, NEW r \in Requesters, Reconnect(r)
    PROVE  Inv'
<1>1. LoopCase /\ desired' = desired
  BY DEF Reconnect, LoopCase
<1>2. CASE Unreachable(rejected, TRUE, 1)
  BY <1>1, <1>2, FirstDelay, UnreachableKeeps DEF Inv, RefusalIsCurrent
<1>3. CASE desired \in {NULL, rejected} /\ LoggedIn
  BY <1>1, <1>3, PayloadsAssumption
     DEF LoopCase, LoggedIn, StopTimers, TypeOK, Inv, clock, Armed, Off,
         ConnectionAgrees, BackoffIsExclusive, NothingWanted,
         NothingRuns, RefusalIsCurrent, Watched, DisplayIsCurrent,
         ReportedRefusalIsLive, TimersRespectThrottle
<1>4. CASE desired \notin {NULL, rejected} /\ Refused(desired, TRUE, 1)
  BY <1>1, <1>4, RefusedKeeps DEF TypeOK
<1>5. CASE desired \notin {NULL, rejected} /\ Published(desired, TRUE)
  BY <1>1, <1>5, PublishedKeeps DEF TypeOK
<1>6. CASE UNCHANGED <<rejected, pending, timers, clock, client, attempt, reported>>
  BY <1>1, <1>6
     DEF LoopCase, TypeOK, Inv, timers, clock, client, Armed,
         ConnectionAgrees, BackoffIsExclusive, NothingWanted,
         NothingRuns, RefusalIsCurrent, Watched, DisplayIsCurrent,
         ReportedRefusalIsLive, TimersRespectThrottle
<1>7. QED
  BY <1>2, <1>3, <1>4, <1>5, <1>6 DEF Reconnect, Reestablish

LEMMA TickKeeps ==
    ASSUME TypeOK, Inv, Tick
    PROVE  Inv'
<1>1. \A timer \in TimeLeft : Armed(CountDown(timer)) <=> Armed(timer)
  BY DEF TimeLeft, CountDown, Armed, Off
<1>2. /\ Armed(retry)' <=> Armed(retry)
      /\ Armed(write)' <=> Armed(write)
      /\ Armed(reapply)' <=> Armed(reapply)
  BY <1>1 DEF Tick, TypeOK, Armed
<1>3. TimersRespectThrottle'
  <2>1. sinceWrite' = MinWriteInterval \/ sinceWrite' = sinceWrite + 1
    BY IntervalsAssumption DEF Tick, TypeOK
  <2>2. \A timer \in TimeLeft :
          /\ CountDown(timer) \in TimeLeft
          /\ Armed(timer) => CountDown(timer) >= 0 /\ CountDown(timer) + 1 >= timer
    BY DEF TimeLeft, CountDown, Armed, Off
  <2>3. Armed(write)' => sinceWrite' + write' >= MinWriteInterval
    BY <1>2, <2>1, <2>2, IntervalsAssumption
       DEF Tick, TypeOK, Inv, TimersRespectThrottle, TimeLeft, Off
  <2>4. (Armed(reapply)' /\ ReapplyInterval >= MinWriteInterval) =>
            sinceWrite' + reapply' >= MinWriteInterval
    BY <1>2, <2>1, <2>2, IntervalsAssumption
       DEF Tick, TypeOK, Inv, TimersRespectThrottle, TimeLeft, Off
  <2>5. QED
    BY <2>3, <2>4 DEF TimersRespectThrottle
<1>4. QED
  BY <1>2, <1>3
     DEF Tick, TypeOK, Inv, intent, client, requests,
         ConnectionAgrees, BackoffIsExclusive, NothingWanted,
         NothingRuns, RefusalIsCurrent, Watched, DisplayIsCurrent,
         ReportedRefusalIsLive

LEMMA Induction == IInv /\ [Next]_vars => IInv'
<1> SUFFICES ASSUME TypeOK, Inv, [Next]_vars PROVE Inv'
  BY TypeInduction DEF IInv
<1>1. CASE \E activity \in Payloads : Receive(activity)
  BY <1>1, ReceiveKeeps
<1>2. CASE Clear \/ Stop
  BY <1>2, PayloadsAssumption
     DEF Clear, Stop, StopTimers, Disconnect, TypeOK, Inv, intent, clock, requests,
         Armed, ConnectionAgrees, BackoffIsExclusive, NothingWanted,
         NothingRuns, RefusalIsCurrent, Watched, DisplayIsCurrent,
         ReportedRefusalIsLive, TimersRespectThrottle
<1>3. CASE RetryFires \/ ReapplyFires \/ (WriteFires /\ pending)
  <2>1. LoopCase /\ desired' = desired
    BY <1>3 DEF RetryFires, ReapplyFires, WriteFires, LoopCase
  <2>2. \E retryLeft \in {retry, Off}, writeLeft \in {write, Off},
           reapplyLeft \in {reapply, Off} :
               ApplyDesired(desired, rejected, retryLeft, writeLeft, reapplyLeft)
    BY <1>3 DEF RetryFires, ReapplyFires, WriteFires
  <2>3. QED
    BY <2>1, <2>2, TimerKeeps
<1>4. CASE WriteFires /\ ~pending
  BY <1>4 DEF WriteFires, Inv, BackoffIsExclusive, Armed, Off
<1>5. CASE \E r \in Requesters : Reconnect(r)
  BY <1>5, ReconnectKeeps
<1>6. CASE Tick
  BY <1>6, TickKeeps
<1>7. CASE DropLink \/ \E health \in {"up", "flaky", "down"} : DiscordBecomes(health)
  BY <1>7
     DEF DropLink, DiscordBecomes, LoseLink, TypeOK, Inv, intent, timers, clock,
         requests, Armed, ConnectionAgrees, BackoffIsExclusive, NothingWanted,
         NothingRuns, RefusalIsCurrent, Watched, DisplayIsCurrent,
         ReportedRefusalIsLive, TimersRespectThrottle
<1>8. CASE \/ \E r \in Requesters :
                \/ \E force \in BOOLEAN : CallReconnect(r, force)
                \/ ContextExpires(r)
                \/ ReconnectReturns(r)
           \/ UNCHANGED vars
  <2>1. UNCHANGED <<running, intent, timers, clock, client, attempt, reported, discord>>
    BY <1>8 DEF CallReconnect, ContextExpires, ReconnectReturns, vars
  <2>2. QED
    BY <2>1
       DEF TypeOK, Inv, intent, timers, clock, client, Armed,
           ConnectionAgrees, BackoffIsExclusive, NothingWanted,
           NothingRuns, RefusalIsCurrent, Watched, DisplayIsCurrent,
           ReportedRefusalIsLive, TimersRespectThrottle
<1>9. QED
  BY <1>1, <1>2, <1>3, <1>4, <1>5, <1>6, <1>7, <1>8 DEF Next, Loop, Environment

LEMMA Invariance == Spec => []IInv
<1>1. Init => IInv
  BY TypeInit, PayloadsAssumption
     DEF Init, IInv, Inv, Armed, ConnectionAgrees, BackoffIsExclusive, NothingWanted,
         NothingRuns, RefusalIsCurrent, Watched, DisplayIsCurrent,
         ReportedRefusalIsLive, TimersRespectThrottle
<1>2. QED
  BY <1>1, Induction, PTL DEF Spec

\* The inductive invariant implies the three invariants about what is shown.
LEMMA InvImplies ==
    ASSUME IInv
    PROVE  NoLostWakeup /\ DisplayIsCurrent /\ ReportedRefusalIsLive /\ BackoffIsExclusive
<1>1. NoLostWakeup
  BY DEF IInv, TypeOK, Inv, Watched, ConnectionAgrees, NoLostWakeup
<1>2. QED
  BY <1>1 DEF IInv, Inv

\* A wanted activity that is neither displayed nor refused always has a timer
\* that will push it, whatever early return RunActivities took last.
THEOREM WakeupIsNeverLost == Spec => []NoLostWakeup
BY Invariance, InvImplies, PTL

\* Discord shows the wanted activity, nothing, or an older activity that only
\* waits to be replaced: clearing and refusing leave nothing stale behind.
THEOREM DisplayStaysCurrent == Spec => []DisplayIsCurrent
BY Invariance, InvImplies, PTL

\* The refusal the daemon reports is about the wanted activity or about to be
\* settled, although the flag and the refused payload are reset in different
\* places of RunActivities.
THEOREM RefusalReportIsLive == Spec => []ReportedRefusalIsLive
BY Invariance, InvImplies, PTL

\* While the backoff runs nothing else can reach Discord.
THEOREM BackoffExcludesOthers == Spec => []BackoffIsExclusive
BY Invariance, InvImplies, PTL

-----------------------------------------------------------------------------
(* Action properties.                                                        *)

\* ApplyDesired keeps a refusal of the activity it is called with.
LEMMA ApplyKeepsRefusal ==
    ASSUME NEW activity, NEW retryLeft, NEW writeLeft, NEW reapplyLeft,
           ApplyDesired(activity, activity, retryLeft, writeLeft, reapplyLeft)
    PROVE  rejected' = activity
BY DEF ApplyDesired

LEMMA RefusalStep ==
    ASSUME IInv, [Next]_vars, rejected # NULL, rejected' # rejected
    PROVE  desired' # rejected
<1> SUFFICES ASSUME desired' = rejected PROVE FALSE
  OBVIOUS
<1> desired = rejected
  BY DEF IInv, Inv, RefusalIsCurrent
<1>1. CASE \E activity \in Payloads : Receive(activity)
  BY <1>1, ApplyKeepsRefusal DEF Receive
<1>2. CASE Clear
  BY <1>2 DEF Clear
<1>3. CASE RetryFires \/ WriteFires \/ ReapplyFires
  BY <1>3, ApplyKeepsRefusal DEF RetryFires, WriteFires, ReapplyFires
<1>4. CASE \E r \in Requesters : Reconnect(r)
  BY <1>4 DEF Reconnect, Reestablish, Unreachable, LoggedIn
<1>5. CASE Stop \/ Environment \/ UNCHANGED vars
  BY <1>5 DEF Stop, Environment, Tick, DiscordBecomes, DropLink, CallReconnect,
              ContextExpires, ReconnectReturns, vars, intent
<1>6. QED
  BY <1>1, <1>2, <1>3, <1>4, <1>5 DEF Next, Loop

\* Once Discord has refused a payload for good, no timer and no requested
\* reconnect sends it again.
THEOREM RefusalIsRemembered == Spec => RefusalSticks
<1>1. IInv /\ [Next]_vars => [rejected # NULL /\ rejected' # rejected => desired' # rejected]_vars
  BY RefusalStep
<1>2. QED
  BY <1>1, Invariance, PTL DEF Spec, RefusalSticks

LEMMA SpacingStep ==
    ASSUME IInv, [Next]_vars, sinceWrite' < sinceWrite, wrote,
           ReapplyInterval >= MinWriteInterval
    PROVE  \/ sinceWrite = MinWriteInterval
           \/ Armed(retry)
           \/ \E r \in Requesters : phase[r] # phase'[r]
<1> USE IntervalsAssumption DEF IInv
<1>1. CASE \E activity \in Payloads : Receive(activity)
  <2>1. UNCHANGED clock \/ WriteDue
    BY <1>1 DEF Receive
  <2>2. CASE UNCHANGED clock
    BY <2>2 DEF clock, TypeOK
  <2>3. CASE WriteDue
    <3>1. MinWriteInterval = 0 \/ sinceWrite >= MinWriteInterval
      BY <2>3 DEF WriteDue
    <3>2. QED
      BY <3>1 DEF TypeOK
  <2>4. QED
    BY <2>1, <2>2, <2>3
<1>2. CASE RetryFires
  BY <1>2 DEF RetryFires, Armed, Off
<1>3. CASE WriteFires
  BY <1>3 DEF WriteFires, Inv, TimersRespectThrottle, TypeOK, Armed, Off, clock
<1>4. CASE ReapplyFires
  BY <1>4 DEF ReapplyFires, Inv, TimersRespectThrottle, TypeOK, Armed, Off
<1>5. CASE \E r \in Requesters : Reconnect(r)
  <2>1. PICK r \in Requesters : Reconnect(r)
    BY <1>5
  <2>2. \E answer \in Answers : Answer(r, answer)
    BY <2>1 DEF Reconnect, Reestablish, Answers
  <2>3. phase[r] \in Waiting
    BY <2>1 DEF Reconnect
  <2>4. phase'[r] \in Answers
    BY <2>2 DEF Answer, TypeOK
  <2>5. QED
    BY <2>3, <2>4 DEF Waiting, Answers
<1>6. CASE Tick
  BY <1>6 DEF Tick, TypeOK
<1>7. CASE ~(\/ \E activity \in Payloads : Receive(activity)
             \/ RetryFires \/ WriteFires \/ ReapplyFires
             \/ \E r \in Requesters : Reconnect(r)
             \/ Tick)
  <2>1. UNCHANGED clock
    BY <1>7 DEF Next, Loop, Environment, Clear, Stop, DiscordBecomes, DropLink,
                CallReconnect, ContextExpires, ReconnectReturns, vars
  <2>2. QED
    BY <2>1 DEF clock, TypeOK
<1>8. QED
  BY <1>1, <1>2, <1>3, <1>4, <1>5, <1>6, <1>7

\* Writes are a throttle interval apart, but for the end of a backoff and a
\* requested reconnect.
THEOREM WritesStaySpaced == Spec => WritesAreSpaced
<1>1. IInv /\ [Next]_vars =>
        [(sinceWrite' < sinceWrite /\ wrote /\ ReapplyInterval >= MinWriteInterval) =>
          \/ sinceWrite = MinWriteInterval
          \/ Armed(retry)
          \/ \E r \in Requesters : phase[r] # phase'[r]]_vars
  BY SpacingStep
<1>2. QED
  BY <1>1, Invariance, PTL DEF Spec, WritesAreSpaced

LEMMA ReconnectStep ==
    ASSUME IInv, [Next]_vars, NEW r \in Requesters,
           phase'[r] # phase[r], phase'[r] = "connected"
    PROVE  /\ link' = "open" /\ connected'
           /\ desired' \in {NULL, rejected', shown'}
<1> USE DEF IInv
<1>1. CASE \E q \in Requesters : Reconnect(q)
  <2>1. PICK q \in Requesters : Reconnect(q)
    BY <1>1
  <2>2. \E answer \in Answers : Answer(q, answer)
    BY <2>1 DEF Reconnect, Reestablish, Answers
  <2>3. q = r
    BY <2>2 DEF Answer, TypeOK
  <2>4. Answer(r, "connected")
    BY <2>2, <2>3 DEF Answer, TypeOK
  <2>5. \A answer : Answer(r, answer) => answer = "connected"
    BY <2>4 DEF Answer, TypeOK
  <2>6. \/ desired \in {NULL, rejected} /\ LoggedIn
        \/ Published(desired, TRUE)
    BY <2>1, <2>3, <2>5 DEF Reconnect, Reestablish
  <2>7. QED
    BY <2>1, <2>6 DEF Reconnect, LoggedIn, Published
<1>2. CASE \E q \in Requesters :
              \/ \E force \in BOOLEAN : CallReconnect(q, force)
              \/ ReconnectReturns(q)
  <2>1. \E q \in Requesters, value \in {"forced", "offered", "idle"} : Answer(q, value)
    BY <1>2 DEF CallReconnect, ReconnectReturns, Answer
  <2>2. QED
    BY <2>1 DEF Answer, TypeOK
<1>3. CASE ~(\/ \E q \in Requesters : Reconnect(q)
             \/ \E q \in Requesters :
                   \/ \E force \in BOOLEAN : CallReconnect(q, force)
                   \/ ReconnectReturns(q))
  BY <1>3 DEF Next, Loop, Environment, Receive, Clear, RetryFires, WriteFires,
              ReapplyFires, Stop, Tick, DiscordBecomes, DropLink, ContextExpires,
              vars, requests
<1>4. QED
  BY <1>1, <1>2, <1>3

\* A caller of Reconnect told that it is connected can rely on a live connection
\* that shows the wanted activity, unless that was refused before.
THEOREM ReconnectIsHonest == Spec => ReconnectDelivers
<1>1. IInv /\ [Next]_vars =>
        [\A r \in Requesters :
          (phase'[r] # phase[r] /\ phase'[r] = "connected") =>
              /\ link' = "open" /\ connected'
              /\ desired' \in {NULL, rejected', shown'}]_vars
  BY ReconnectStep
<1>2. QED
  BY <1>1, Invariance, PTL DEF Spec, ReconnectDelivers

-----------------------------------------------------------------------------
(* Refinement of Publication.                                                *)

\* One attempt, as the abstract specification sees it.
LEMMA AttemptRefines ==
    ASSUME TypeOK, NEW activity, NEW refusal,
           NEW retryLeft, NEW writeLeft, NEW reapplyLeft,
           ApplyDesired(activity, refusal, retryLeft, writeLeft, reapplyLeft)
    PROVE  Abstract!PutOff \/ Abstract!Attempt(activity)
BY DEF ApplyDesired, Unreachable, Refused, Published, Disconnect, client,
       Abstract!PutOff, Abstract!Attempt, Abstract!Vanishes, Abstract!Appears,
       Abstract!IsRefused

LEMMA StepRefines ==
    ASSUME IInv, [Next]_vars
    PROVE  [Abstract!Next]_(Abstract!vars)
<1> USE DEF IInv
<1>1. CASE \E activity \in Payloads : Receive(activity)
  <2>1. PICK activity \in Payloads : Receive(activity)
    BY <1>1
  <2>2. Abstract!PutOff \/ Abstract!Attempt(activity)
    BY <2>1, AttemptRefines DEF Receive, Abstract!PutOff, client
  <2>3. Abstract!Want(activity)
    BY <2>1, <2>2 DEF Receive, Abstract!Want
  <2>4. QED
    BY <2>3 DEF Abstract!Next
<1>2. CASE RetryFires \/ WriteFires \/ ReapplyFires
  <2>1. Abstract!PutOff \/ Abstract!Attempt(desired)
    BY <1>2, AttemptRefines DEF RetryFires, WriteFires, ReapplyFires, Abstract!PutOff, client
  <2>2. running /\ UNCHANGED <<running, desired>>
    BY <1>2 DEF RetryFires, WriteFires, ReapplyFires
  <2>3. CASE desired = NULL
    <3>1. Abstract!PutOff
      BY <1>2, <2>3 DEF RetryFires, WriteFires, ReapplyFires, ApplyDesired,
                        Abstract!PutOff, client
    <3>2. QED
      BY <2>2, <3>1 DEF Abstract!PutOff, Abstract!vars
  <2>4. QED
    BY <2>1, <2>2, <2>3 DEF Abstract!PutOff, Abstract!Retry, Abstract!Next, Abstract!vars
<1>3. CASE Clear
  BY <1>3 DEF Clear, Disconnect, Abstract!Clear, Abstract!Next
<1>4. CASE \E r \in Requesters : Reconnect(r)
  <2>1. running /\ UNCHANGED <<running, desired>>
    BY <1>4 DEF Reconnect
  <2>2. CASE UNCHANGED <<shown, reported>>
    BY <2>1, <2>2 DEF Abstract!vars
  <2>3. CASE shown' = NULL /\ UNCHANGED reported
    BY <2>1, <2>3 DEF Abstract!Lose, Abstract!Vanishes, Abstract!Next
  <2>4. CASE desired # NULL /\ Abstract!Attempt(desired)
    BY <2>1, <2>4 DEF Abstract!Retry, Abstract!Next
  <2>5. QED
    BY <1>4, <2>2, <2>3, <2>4
       DEF Reconnect, Reestablish, Unreachable, Refused, Published, LoggedIn,
           Disconnect, client, Abstract!Attempt, Abstract!Vanishes,
           Abstract!Appears, Abstract!IsRefused
<1>5. CASE Stop
  BY <1>5 DEF Stop, Disconnect, intent, Abstract!Close, Abstract!Vanishes, Abstract!Next
<1>6. CASE DropLink \/ \E health \in {"up", "flaky", "down"} : DiscordBecomes(health)
  BY <1>6 DEF DropLink, DiscordBecomes, LoseLink, intent, Abstract!Lose,
              Abstract!Vanishes, Abstract!Next, Abstract!vars
<1>7. CASE \/ Tick
           \/ \E r \in Requesters :
                \/ \E force \in BOOLEAN : CallReconnect(r, force)
                \/ ContextExpires(r)
                \/ ReconnectReturns(r)
           \/ UNCHANGED vars
  BY <1>7 DEF Tick, CallReconnect, ContextExpires, ReconnectReturns, vars, intent,
              client, Abstract!vars
<1>8. QED
  BY <1>1, <1>2, <1>3, <1>4, <1>5, <1>6, <1>7 DEF Next, Loop, Environment

\* The writer, with its timers, backoff and connection, implements Publication.
THEOREM WriterImplementsPublication == Spec => ImplementsPublication
<1>1. Init => Abstract!Init
  BY DEF Init, Abstract!Init
<1>2. IInv /\ [Next]_vars => [Abstract!Next]_(Abstract!vars)
  BY StepRefines
<1>3. QED
  BY <1>1, <1>2, Invariance, PTL DEF Spec, ImplementsPublication, Abstract!Spec
=============================================================================
