--------------------------- MODULE PresenceWriter ---------------------------
(***************************************************************************)
(* The presence writer: the one goroutine that owns the Discord IPC client *)
(* (internal/presence/writer.go, RunActivities), together with the client  *)
(* connection it drives (client.go) and the part of Discord it can see.    *)
(*                                                                         *)
(* RunActivities is a select loop.  Each case of the select is one action; *)
(* an action performs the whole case body, the Login, SetActivity and      *)
(* Logout calls included: nothing but Discord can act on the state those   *)
(* calls touch, every outcome of applyDesired that reaches Discord stops   *)
(* or re-arms every timer, and lastWrite is read after the answer, so time *)
(* that passes inside a call changes nothing the loop looks at afterwards. *)
(*                                                                         *)
(* Time is discrete.  A timer is Off or the time it has left; it counts    *)
(* down to 0 and may be served late (the goroutine is busy or descheduled).*)
(***************************************************************************)
EXTENDS Integers, Sequences

CONSTANTS
    Payloads,           \* the activity payloads the daemon may ask for
    NULL,               \* no activity: the nil *Activity that clears presence
    Requesters,         \* callers of Writer.Reconnect
    RetryDelays,        \* the reconnect backoff sequence
    MinWriteInterval,   \* minWriteInterval: 0 disables the throttle
    ReapplyInterval     \* reapplyInterval: 0 disables reapplying

ASSUME PayloadsAssumption == NULL \notin Payloads
ASSUME RetryDelaysAssumption == RetryDelays \in Seq(Nat) /\ RetryDelays # <<>>
ASSUME IntervalsAssumption == MinWriteInterval \in Nat /\ ReapplyInterval \in Nat

VARIABLES
    running,        \* RunActivities has not returned
    desired,        \* the activity to show, or NULL
    rejected,       \* the payload Discord refused for good, or NULL
    pending,        \* a desired activity waits for a timer
    connected,      \* what the loop believes and reports with connectionState
    reported,       \* publicationRejected: what publicationState was last told
    retry,          \* time left on the reconnect timer
    write,          \* time left on the throttle timer
    reapply,        \* time left on the reapply timer
    attempt,        \* retryDelay.next: index of the next backoff delay
    wrote,          \* some SetActivity has succeeded
    sinceWrite,     \* time since lastWrite, saturating at MinWriteInterval
    link,           \* RichClient.conn: none, open, or dead (the peer is gone)
    discord,        \* Discord answers ("up"), may fail ("flaky"), or is "down"
    shown,          \* the activity Discord displays for this connection
    phase,          \* what each Reconnect caller is doing
    expired         \* the callers whose context is done

intent   == <<desired, rejected, pending>>
timers   == <<retry, write, reapply>>
clock    == <<wrote, sinceWrite>>
client   == <<connected, link, shown>>
requests == <<phase, expired>>
vars == <<running, intent, timers, clock, client, attempt, reported, discord,
          requests>>

Off == -1
Armed(timer) == timer # Off

Waiting == {"offered", "forced"}
Answers == {"cancelled", "already", "connected", "failed"}

TimeLeft == Nat \cup {Off}

TypeOK ==
    /\ running \in BOOLEAN
    /\ desired \in Payloads \cup {NULL}
    /\ rejected \in Payloads \cup {NULL}
    /\ pending \in BOOLEAN
    /\ connected \in BOOLEAN
    /\ reported \in BOOLEAN
    /\ retry \in TimeLeft /\ write \in TimeLeft /\ reapply \in TimeLeft
    /\ attempt \in 1 .. Len(RetryDelays)
    /\ wrote \in BOOLEAN
    /\ sinceWrite \in 0 .. MinWriteInterval
    /\ link \in {"none", "open", "dead"}
    /\ discord \in {"up", "flaky", "down"}
    /\ shown \in Payloads \cup {NULL}
    /\ phase \in [Requesters -> {"idle"} \cup Waiting \cup Answers]
    /\ expired \subseteq Requesters

Init ==
    /\ running = TRUE
    /\ desired = NULL /\ rejected = NULL /\ pending = FALSE
    /\ connected = FALSE /\ link = "none" /\ shown = NULL
    /\ reported = FALSE
    /\ retry = Off /\ write = Off /\ reapply = Off
    /\ attempt = 1
    /\ wrote = FALSE /\ sinceWrite = MinWriteInterval
    /\ discord \in {"up", "flaky", "down"}
    /\ phase = [r \in Requesters |-> "idle"] /\ expired = {}

-----------------------------------------------------------------------------
(* Outcomes of talking to Discord.  "fresh" means the connection is (re)made *)
(* by this step; otherwise the step uses the connection it has.              *)

Disconnect ==                                       \* Logout; setConnected(false)
    connected' = FALSE /\ link' = "none" /\ shown' = NULL

StopTimers == retry' = Off /\ write' = Off /\ reapply' = Off

\* Mutant of ScheduleRetry: the backoff index runs off the end of the sequence.
ScheduleRetryUncapped(next) ==
    /\ retry' = RetryDelays[next] /\ write' = Off /\ reapply' = Off
    /\ attempt' = next + 1

\* Mutant of ScheduleRetry: a reapply timer survives the connection it belongs to.
ScheduleRetryOnly(next) ==
    /\ retry' = RetryDelays[next] /\ write' = Off /\ UNCHANGED reapply
    /\ attempt' = IF next < Len(RetryDelays) THEN next + 1 ELSE next

ScheduleRetry(next) ==
    /\ retry' = RetryDelays[next] /\ write' = Off /\ reapply' = Off
    /\ attempt' = IF next < Len(RetryDelays) THEN next + 1 ELSE next

\* Mutant of Unreachable: the failure path forgets to schedule a retry.
UnreachableGivesUp(refusal, fresh, next) ==
    /\ discord # "up" \/ (~fresh /\ link = "dead")
    /\ Disconnect
    /\ StopTimers
    /\ attempt' = next
    /\ rejected' = refusal
    /\ UNCHANGED <<pending, clock, reported>>

\* Login fails, or SetActivity fails in a way that says nothing of the payload.
Unreachable(refusal, fresh, next) ==
    /\ discord # "up" \/ (~fresh /\ link = "dead")
    /\ Disconnect
    /\ ScheduleRetry(next)
    /\ rejected' = refusal
    /\ UNCHANGED <<pending, clock, reported>>

\* The payload is invalid (found before the connection is used) or Discord
\* answers with code 4000: the connection is kept.
Refused(activity, fresh, next) ==
    /\ fresh => discord # "down"
    /\ connected' = TRUE
    /\ link' = IF fresh THEN "open" ELSE link
    /\ shown' = IF fresh THEN NULL ELSE shown
    /\ rejected' = activity
    /\ pending' = FALSE
    /\ reported' = TRUE
    /\ StopTimers
    /\ attempt' = next
    /\ UNCHANGED clock

Published(activity, fresh) ==
    /\ discord # "down" /\ (fresh \/ link = "open")
    /\ connected' = TRUE /\ link' = "open" /\ shown' = activity
    /\ rejected' = NULL
    /\ pending' = FALSE
    /\ reported' = FALSE
    /\ wrote' = TRUE /\ sinceWrite' = 0
    /\ retry' = Off /\ write' = Off
    /\ reapply' = IF ReapplyInterval = 0 THEN Off ELSE ReapplyInterval
    /\ attempt' = 1

\* applyDesired, called with the given activity and refusal and with the timers
\* as the calling case left them.
ApplyDesired(activity, refusal, retryLeft, writeLeft, reapplyLeft) ==
    \/ /\ activity \in {NULL, refusal}
       /\ rejected' = refusal
       /\ retry' = retryLeft /\ write' = writeLeft /\ reapply' = reapplyLeft
       /\ UNCHANGED <<pending, clock, client, attempt, reported>>
    \/ /\ activity \notin {NULL, refusal}
       /\ \/ Unreachable(refusal, ~connected, attempt)
          \/ Refused(activity, ~connected, attempt)
          \/ Published(activity, ~connected)

-----------------------------------------------------------------------------
(* The cases of the select loop.                                             *)

\* Mutant of WriteDue: off by one.
WriteDueEarly == MinWriteInterval = 0 \/ ~wrote \/ sinceWrite >= MinWriteInterval - 1

WriteDue == MinWriteInterval = 0 \/ ~wrote \/ sinceWrite >= MinWriteInterval

\* An activity arrives: requestApply.
Receive(activity) ==
    LET refusal == IF rejected = activity THEN rejected ELSE NULL IN
    /\ running
    /\ desired' = activity
    /\ \/ /\ Armed(retry)
          /\ pending' = TRUE
          /\ rejected' = refusal
          /\ UNCHANGED <<timers, clock, client, attempt, reported>>
       \/ /\ ~Armed(retry)
          /\ WriteDue
          /\ ApplyDesired(activity, refusal, retry, write, reapply)
       \/ /\ ~Armed(retry)
          /\ ~WriteDue
          /\ pending' = TRUE
          /\ rejected' = refusal
          /\ write' = MinWriteInterval - sinceWrite
          /\ UNCHANGED <<retry, reapply, clock, client, attempt, reported>>
    /\ UNCHANGED <<running, discord, requests>>

\* Mutant of Clear: presence is forgotten but the connection is kept.
ClearWithoutLogout ==
    /\ running
    /\ desired' = NULL /\ rejected' = NULL /\ pending' = FALSE
    /\ StopTimers
    /\ attempt' = 1
    /\ reported' = FALSE
    /\ UNCHANGED <<running, clock, client, discord, requests>>

\* Mutant of Clear: the outstanding refusal is not withdrawn.
ClearWithoutReport ==
    /\ running
    /\ desired' = NULL /\ rejected' = NULL /\ pending' = FALSE
    /\ StopTimers
    /\ attempt' = 1
    /\ Disconnect
    /\ UNCHANGED <<running, clock, reported, discord, requests>>

\* A nil activity arrives: nothing of ours may stay visible.
Clear ==
    /\ running
    /\ desired' = NULL /\ rejected' = NULL /\ pending' = FALSE
    /\ StopTimers
    /\ attempt' = 1
    /\ Disconnect
    /\ reported' = FALSE
    /\ UNCHANGED <<running, clock, discord, requests>>

RetryFires ==
    /\ running /\ retry = 0
    /\ ApplyDesired(desired, rejected, Off, write, reapply)
    /\ UNCHANGED <<running, desired, discord, requests>>

WriteFires ==
    /\ running /\ write = 0
    /\ \/ /\ pending
          /\ ApplyDesired(desired, rejected, retry, Off, reapply)
       \/ /\ ~pending
          /\ write' = Off
          /\ UNCHANGED <<rejected, pending, retry, reapply, clock, client,
                         attempt, reported>>
    /\ UNCHANGED <<running, desired, discord, requests>>

ReapplyFires ==
    /\ running /\ reapply = 0
    /\ ApplyDesired(desired, rejected, retry, write, Off)
    /\ UNCHANGED <<running, desired, discord, requests>>

Answer(r, answer) == phase' = [phase EXCEPT ![r] = answer]

\* Login succeeds and there is nothing to push.
LoggedIn ==
    /\ discord # "down"
    /\ connected' = TRUE /\ link' = "open" /\ shown' = NULL
    /\ StopTimers
    /\ attempt' = 1
    /\ UNCHANGED <<rejected, pending, clock, reported>>

\* Mutant of Reestablish: the wanted activity is left to the timers just stopped.
ReestablishOnly(r) ==
    \/ Unreachable(rejected, TRUE, 1) /\ Answer(r, "failed")
    \/ LoggedIn /\ Answer(r, "connected")

\* Mutant of Reestablish: a refused payload is pushed again.
ReestablishRefused(r) ==
    \/ Unreachable(rejected, TRUE, 1) /\ Answer(r, "failed")
    \/ desired = NULL /\ LoggedIn /\ Answer(r, "connected")
    \/ desired # NULL /\ Refused(desired, TRUE, 1) /\ Answer(r, "failed")
    \/ desired # NULL /\ Published(desired, TRUE) /\ Answer(r, "connected")

\* Whatever timer was armed is stopped, an existing connection is closed, and
\* a new one is made and used at once.
Reestablish(r) ==
    \/ Unreachable(rejected, TRUE, 1) /\ Answer(r, "failed")
    \/ /\ desired \in {NULL, rejected}
       /\ LoggedIn
       /\ Answer(r, "connected")
    \/ /\ desired \notin {NULL, rejected}
       /\ \/ Refused(desired, TRUE, 1) /\ Answer(r, "failed")
          \/ Published(desired, TRUE) /\ Answer(r, "connected")

\* A reconnect request is received.
Reconnect(r) ==
    LET alreadyConnected == connected /\ phase[r] = "offered" IN
    /\ running /\ phase[r] \in Waiting
    /\ \/ /\ r \in expired \/ alreadyConnected
          /\ Answer(r, IF r \in expired THEN "cancelled" ELSE "already")
          /\ UNCHANGED <<rejected, pending, timers, clock, client, attempt, reported>>
       \/ /\ r \notin expired /\ ~alreadyConnected
          /\ Reestablish(r)
    /\ UNCHANGED <<running, desired, discord, expired>>

\* Mutant of Stop: the deferred function forgets the connection.
StopWithoutLogout ==
    /\ running
    /\ running' = FALSE
    /\ StopTimers
    /\ UNCHANGED <<intent, clock, client, attempt, reported, discord, requests>>

\* The context is cancelled or the activities channel is closed: the deferred
\* function runs and RunActivities returns.
Stop ==
    /\ running
    /\ running' = FALSE
    /\ StopTimers
    /\ Disconnect
    /\ UNCHANGED <<intent, clock, attempt, reported, discord, requests>>

-----------------------------------------------------------------------------
(* The environment: time, Discord and the callers of Reconnect.              *)

CountDown(timer) == IF timer > 0 THEN timer - 1 ELSE timer

Tick ==
    /\ running
    /\ retry' = CountDown(retry)
    /\ write' = CountDown(write)
    /\ reapply' = CountDown(reapply)
    /\ sinceWrite' = IF sinceWrite < MinWriteInterval THEN sinceWrite + 1
                                                      ELSE sinceWrite
    /\ UNCHANGED <<running, intent, wrote, client, attempt, reported, discord,
                   requests>>

LoseLink ==
    /\ link' = IF link = "open" THEN "dead" ELSE link
    /\ shown' = NULL

\* Discord starts, degrades or quits; quitting kills the connection.
DiscordBecomes(health) ==
    /\ discord # health
    /\ discord' = health
    /\ IF health = "down" THEN LoseLink ELSE UNCHANGED <<link, shown>>
    /\ UNCHANGED <<running, intent, timers, clock, connected, attempt, reported,
                   requests>>

\* Discord restarts, or the connection breaks.
DropLink ==
    /\ link = "open"
    /\ LoseLink
    /\ UNCHANGED <<running, intent, timers, clock, connected, attempt, reported,
                   discord, requests>>

CallReconnect(r, force) ==
    /\ phase[r] = "idle"
    /\ phase' = [phase EXCEPT ![r] = IF force THEN "forced" ELSE "offered"]
    /\ UNCHANGED <<running, intent, timers, clock, client, attempt, reported,
                   discord, expired>>

ContextExpires(r) ==
    /\ phase[r] \in Waiting /\ r \notin expired
    /\ expired' = expired \cup {r}
    /\ UNCHANGED <<running, intent, timers, clock, client, attempt, reported,
                   discord, phase>>

\* The call returns: it read its answer, or its context ended the wait.
ReconnectReturns(r) ==
    /\ phase[r] \in Answers \/ r \in expired
    /\ phase' = [phase EXCEPT ![r] = "idle"]
    /\ expired' = expired \ {r}
    /\ UNCHANGED <<running, intent, timers, clock, client, attempt, reported,
                   discord>>

Loop ==
    \/ \E activity \in Payloads : Receive(activity)
    \/ Clear
    \/ RetryFires
    \/ WriteFires
    \/ ReapplyFires
    \/ \E r \in Requesters : Reconnect(r)
    \/ Stop

Environment ==
    \/ Tick
    \/ \E health \in {"up", "flaky", "down"} : DiscordBecomes(health)
    \/ DropLink
    \/ \E r \in Requesters :
          \/ \E force \in BOOLEAN : CallReconnect(r, force)
          \/ ContextExpires(r)
          \/ ReconnectReturns(r)

Next == Loop \/ Environment

Spec == Init /\ [][Next]_vars

\* Time passes, and a select that keeps finding a timer ready serves it: Go
\* chooses among ready cases at random, so no ready case is passed over forever.
Fairness ==
    /\ WF_vars(Tick)
    /\ SF_vars(RetryFires) /\ SF_vars(WriteFires) /\ SF_vars(ReapplyFires)
    /\ \A r \in Requesters : SF_vars(Reconnect(r)) /\ WF_vars(ReconnectReturns(r))

FairSpec == Spec /\ Fairness

-----------------------------------------------------------------------------
(* Properties.                                                               *)

(***************************************************************************)
(* No lost wakeup: while the loop runs, an activity that is wanted, not    *)
(* refused and not displayed has a timer that will push it: the backoff or *)
(* the throttle timer, or, when the connection has silently died, at least *)
(* the reapply timer that will discover it.  Every early return of         *)
(* applyDesired, requestApply and the reconnect case must keep this.       *)
(***************************************************************************)
NoLostWakeup ==
    (running /\ desired \notin {NULL, rejected} /\ shown # desired) =>
        \/ Armed(retry)
        \/ Armed(write)
        \/ link = "dead" /\ (ReapplyInterval > 0 => Armed(reapply))

(***************************************************************************)
(* Discord displays the wanted activity, nothing, or an older one only     *)
(* while its replacement waits for the throttle or has been refused.  In   *)
(* particular nothing stays displayed after clear().                       *)
(***************************************************************************)
DisplayIsCurrent ==
    shown \notin {NULL, desired} =>
        desired # NULL /\ (rejected = desired \/ Armed(write))

(***************************************************************************)
(* A refusal told through publicationState is about the wanted activity,   *)
(* or a timer is armed that will settle it; and a refusal the loop acts on *)
(* has been told.  The flag and "rejected" are reset at different places.  *)
(***************************************************************************)
ReportedRefusalIsLive ==
    /\ rejected # NULL => reported
    /\ (running /\ reported) =>
          /\ desired # NULL
          /\ rejected = desired \/ Armed(retry) \/ Armed(write)

(***************************************************************************)
(* The backoff excludes everything else: while the reconnect timer runs    *)
(* there is no connection and no other timer, so no path reaches Discord   *)
(* before the backoff ends but a requested reconnect; and only a connected *)
(* loop reapplies.                                                         *)
(***************************************************************************)
BackoffIsExclusive ==
    /\ Armed(retry) => ~connected /\ ~Armed(write) /\ ~Armed(reapply)
    /\ Armed(reapply) => connected /\ desired # NULL
    /\ Armed(write) => pending /\ wrote

(***************************************************************************)
(* A payload Discord refused for good is not sent again, by the throttle,  *)
(* a reapply, the backoff or a requested reconnect: the refusal is only    *)
(* forgotten when a different activity is wanted or presence is cleared.   *)
(***************************************************************************)
RefusalSticks ==
    [][rejected # NULL /\ rejected' # rejected => desired' # rejected]_vars

(***************************************************************************)
(* Two successful writes are MinWriteInterval apart unless the second one  *)
(* ends a backoff or serves a requested reconnect.  (The reapply interval  *)
(* is at least the write interval in the daemon.)                          *)
(***************************************************************************)
WritesAreSpaced ==
    [][(sinceWrite' < sinceWrite /\ wrote /\ ReapplyInterval >= MinWriteInterval) =>
          \/ sinceWrite = MinWriteInterval
          \/ Armed(retry)
          \/ \E r \in Requesters : phase[r] # phase'[r]]_vars

(***************************************************************************)
(* A Reconnect call that reports a new connection left a live connection   *)
(* and, unless it was refused earlier, the wanted activity on display.     *)
(***************************************************************************)
ReconnectDelivers ==
    [][\A r \in Requesters :
          (phase'[r] # phase[r] /\ phase'[r] = "connected") =>
              /\ link' = "open" /\ connected'
              /\ desired' \in {NULL, rejected', shown'}]_vars

(***************************************************************************)
(* The writer implements its abstract promise.                             *)
(***************************************************************************)
Abstract == INSTANCE Publication
              WITH open <- running, wanted <- desired, refusal <- reported
ImplementsPublication == Abstract!Spec

(***************************************************************************)
(* If from some point on Discord stays up and the loop runs, then again    *)
(* and again the wanted activity is on display, refused, or none: backoff, *)
(* throttle, reapply and requested reconnects never starve it, whatever    *)
(* activities arrive and however often the link drops.                     *)
(***************************************************************************)
WantedIsEventuallyShown ==
    <>[](running /\ discord = "up") =>
        []<>(desired \in {NULL, rejected, shown})

(***************************************************************************)
(* docs/context/cli.md on status trusting the daemon's connected flag: "an *)
(* old positive is never cached indefinitely".  The flag is the loop's     *)
(* belief, which the publisher rewrites with a fresh time stamp: so a dead *)
(* link must be noticed.                                                   *)
(***************************************************************************)
DeadLinkIsNoticed ==
    (connected /\ link = "dead") ~> ~(connected /\ link = "dead")
=============================================================================
