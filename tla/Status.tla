------------------------------- MODULE Status -------------------------------
(***************************************************************************)
(* What the commands of cmd/termp say of a daemon they only know by its    *)
(* files: status, watch, connect and what stop says of autostart.          *)
(*                                                                         *)
(* A record of the PID file or of the state file names a process; it       *)
(* matches when that process lives, is this termp and started when the     *)
(* record says.  Process id 0 stands for none.                             *)
(***************************************************************************)
EXTENDS Naturals, Sequences
LOCAL INSTANCE SequencesExt
Client == INSTANCE DiscordClient

Pids == 1..2
PidRecords == [pid : Pids \cup {0}, matches : BOOLEAN]
StateFiles ==
    [readable : BOOLEAN, fresh : BOOLEAN, pid : Pids \cup {0}, matches : BOOLEAN,
     connected : BOOLEAN, config : {"unsaid", "good", "bad"}, lastGood : BOOLEAN,
     publication : {"unsaid", "good", "rejected"}]

-----------------------------------------------------------------------------
(* Which daemon is it?                                                       *)

Recorded(record) == record.pid # 0 /\ record.matches
Fresh(state) == state.readable /\ state.fresh
Matching(state) == state.pid # 0 /\ state.matches

StatusDaemon(record, state) ==
    IF Recorded(record) THEN record.pid
    ELSE IF Fresh(state) /\ Matching(state) THEN state.pid ELSE 0

KnownDaemon(record, state) ==
    IF Recorded(record) THEN record.pid
    ELSE IF state.readable /\ Matching(state) THEN state.pid ELSE 0

ConnectTarget(record, state) ==
    IF Fresh(state) /\ Matching(state) THEN state.pid
    ELSE IF Recorded(record) THEN record.pid ELSE 0

-----------------------------------------------------------------------------
(* Discord.  The words of formatDiscordStatus, in its order.                 *)

FormatDiscordStatus(error) ==
    CASE error = {} -> "connected"
      [] "cancelled" \in error -> "timed out"
      [] "override invalid" \in error -> "misconfigured"
      [] "not found" \in error -> "not running"
      [] "unreachable" \in error -> "unreachable"
      [] "handshake timeout" \in error -> "not responding"
      [] OTHER -> "unknown"

StatusDiscord(record, state, probe) ==
    IF StatusDaemon(record, state) # 0 /\ Fresh(state) /\ state.connected THEN "connected"
    ELSE FormatDiscordStatus(probe)

WatchDiscordConnected(record, state, probe) ==
    IF KnownDaemon(record, state) # 0
    THEN (Fresh(state) /\ state.connected) \/ probe = {}
    ELSE probe = {}

\* runStatusProbes: what answered before the deadline, the rest as timed out.
Stages == {"discord", "service", "tool"}
StatusProbes(answers, inTime) ==
    [s \in Stages |-> IF s \in inTime THEN answers[s] ELSE "timed out"]

-----------------------------------------------------------------------------
(* What the daemon itself reports counts for the daemon that was found only. *)

Speaks(pid, state) == Fresh(state) /\ pid # 0 /\ state.pid = pid

ConfigHealth(loads, pid, state) ==
    IF ~Speaks(pid, state) \/ state.config = "unsaid"
    THEN [ok |-> loads, error |-> ~loads, lastGood |-> FALSE]
    ELSE IF state.config = "bad" THEN [ok |-> FALSE, error |-> TRUE, lastGood |-> state.lastGood]
    ELSE [ok |-> loads, error |-> ~loads, lastGood |-> ~loads]

PublicationRejected(pid, state) == Speaks(pid, state) /\ state.publication = "rejected"

\* The Presence line: nothing published under an invalid configuration, or the
\* last good one.
PresenceLine(health) ==
    IF ~health.error THEN "none" ELSE IF health.lastGood THEN "last good" ELSE "off"

\* An attempt: the error it recorded ("" for none), whether it was skipped and
\* whether this binary is still behind its target; the preflight's own error.
UpdateLine(enabled, attempt, preflight, pending) ==
    LET failure == IF attempt.error = "" \/ ~attempt.behind THEN "none"
                   ELSE IF attempt.skipped THEN "skipped before" ELSE "failed before"
    IN  CASE ~enabled -> "none"
          [] enabled /\ preflight # "" ->
               IF attempt.skipped /\ attempt.error = preflight THEN failure ELSE "skipped"
          [] OTHER -> IF failure # "none" THEN failure ELSE IF pending THEN "restart" ELSE "none"

-----------------------------------------------------------------------------
(* Autostart after a stop.  "unknown" is what a failed or late probe leaves.  *)

Services == [installed : BOOLEAN, enabled : {"enabled", "disabled", "unknown"},
             loaded : {"running", "stopped", "unknown"}]

WillRelaunch(s) == s.installed /\ s.enabled # "disabled" /\ s.loaded = "running"
RelaunchUnknown(s) == s.installed /\ ~WillRelaunch(s) /\ s.enabled # "disabled" /\ s.loaded = "unknown"
MayRelaunch(s) == WillRelaunch(s) \/ RelaunchUnknown(s)

StopNotice(s) == IF WillRelaunch(s) THEN "autostart is on"
                 ELSE IF RelaunchUnknown(s) THEN "may start again" ELSE "none"

-----------------------------------------------------------------------------
(* termp connect.  The daemon's control handler waits for its writer, asks   *)
(* it to reconnect and answers; the command then waits for the state file.   *)

HandleControl(command, ready, reconnect) ==
    IF ~ready \/ command # "connect" THEN "error"
    ELSE CASE reconnect = "failed" -> "error"
           [] reconnect = "already" -> "already_connected"
           [] OTHER -> "connected"

\* Polls of the state file, each later than the one before; the last is the one
\* at the deadline.  "newer" is UpdatedAt after that of the baseline.
Polls == [state : [pid : Pids, connected : BOOLEAN, newer : BOOLEAN], alive : BOOLEAN]

WaitForConnection(target, polls) ==
    LET confirms(p) == p.state.pid = target /\ p.state.connected /\ p.state.newer
        Poll(outcome, p) == IF outcome # "polling" THEN outcome
                            ELSE IF confirms(p) THEN "confirmed"
                            ELSE IF ~p.alive THEN "exited" ELSE "polling"
        end == FoldLeft(Poll, "polling", polls)
    IN  IF end = "polling" THEN "unconfirmed" ELSE end

Connect(record, state, response, polls) ==
    LET target == ConnectTarget(record, state)
    IN  CASE target = 0 -> "not running"
          [] target # 0 /\ response = "connected" ->
               IF WaitForConnection(target, polls) = "confirmed" THEN "connected" ELSE "failed"
          [] target # 0 /\ response = "already_connected" -> "already connected"
          [] OTHER -> "failed"

-----------------------------------------------------------------------------
Probes == {{}} \cup {Client!Login(d, s, r).error :
                        d \in {{}, {"cancelled"}, {"override invalid"}, {"not found"}, {"unreachable"}},
                        s \in Client!Sendings, r \in Client!Replies}

(* The words about Discord claim what the probe established: "connected" is   *)
(* said after a completed handshake only, "not running" only when no endpoint *)
(* was found, and what is merely late is said to be late (issue 468).         *)
WordsAreEarned ==
    \A d \in {{}, {"cancelled"}, {"override invalid"}, {"not found"}, {"unreachable"}},
       s \in Client!Sendings, r \in Client!Replies :
        LET word == FormatDiscordStatus(Client!Login(d, s, r).error)
        IN  /\ word = "connected" <=> d = {} /\ s = "sent" /\ r = "READY"
            /\ word = "not running" <=> d = {"not found"}
            /\ word = "unreachable" <=> d = {"unreachable"}
            /\ word = "not responding" <=> d = {} /\ s = "sent" /\ r = "silence"

(* status, watch and connect judge the same files alike: watch shows Discord  *)
(* connected exactly when status does, although watch also believes a state   *)
(* file that is stale about who the daemon is; and connect finds a daemon     *)
(* exactly when status reports one running.                                   *)
CommandsAgree ==
    \A record \in PidRecords, state \in StateFiles :
        /\ \A probe \in Probes :
             WatchDiscordConnected(record, state, probe)
               <=> StatusDiscord(record, state, probe) = "connected"
        /\ ConnectTarget(record, state) = 0 <=> StatusDaemon(record, state) = 0

(* The line about presence is the running daemon's word when there is one:    *)
(* "off" is never said of a daemon that reports a last good configuration,    *)
(* and another process's file never speaks for it (statusConfigHealth).       *)
HealthIsTheDaemons ==
    \A record \in PidRecords, state \in StateFiles, loads \in BOOLEAN :
        LET pid == StatusDaemon(record, state)
            line == PresenceLine(ConfigHealth(loads, pid, state))
        IN  /\ line = "last good" => pid # 0 /\ state.pid = pid /\ state.fresh
            /\ line = "off" =>
                 \/ pid = 0 \/ ~Fresh(state) \/ state.pid # pid
                 \/ state.config = "unsaid" \/ (state.config = "bad" /\ ~state.lastGood)
            /\ PublicationRejected(pid, state) => state.pid = pid

(* A stop says that autostart is over only if it cannot bring the daemon back: *)
(* an unknown state is reported as such, a disabled service as silent.         *)
StopNoticeIsCautious ==
    \A s \in Services :
        /\ StopNotice(s) = "none" <=> ~MayRelaunch(s)
        /\ s.enabled = "disabled" \/ ~s.installed => ~MayRelaunch(s)
        /\ s.installed /\ s.enabled # "disabled" /\ ~MayRelaunch(s) => s.loaded = "stopped"

(* connect reports a connection only on the word of the process it asked and, *)
(* for a new one, on a state file that process wrote after the baseline.      *)
ConnectIsConfirmed(n) ==
    \A record \in PidRecords, pid \in Pids, matches, fresh \in BOOLEAN,
       command \in {"connect", "other"}, ready \in BOOLEAN,
       reconnect \in {"failed", "already", "new"}, polls \in [1..n -> Polls] :
        LET state == [readable |-> TRUE, fresh |-> fresh, pid |-> pid, matches |-> matches]
            outcome == Connect(record, state, HandleControl(command, ready, reconnect), polls)
        IN  /\ outcome = "connected" =>
                 /\ reconnect = "new"
                 /\ \E i \in 1..n : /\ polls[i].state.pid = ConnectTarget(record, state)
                                    /\ polls[i].state.connected /\ polls[i].state.newer
                                    /\ \A j \in 1..i - 1 : polls[j].alive
            /\ outcome = "already connected" => reconnect = "already"

(* The update line is about automatic updates that are on; a failure that no  *)
(* longer matters gives way to the preflight's or to the pending restart.     *)
UpdateLineIsCurrent ==
    \A enabled, behind, skipped, pending \in BOOLEAN, error, preflight \in {"", "e1", "e2"} :
        LET line == UpdateLine(enabled, [error |-> error, skipped |-> skipped, behind |-> behind],
                               preflight, pending)
        IN  /\ ~enabled => line = "none"
            /\ line \in {"failed before", "skipped before"} => behind /\ error # ""
            /\ line = "restart" => pending /\ preflight = ""
=============================================================================
