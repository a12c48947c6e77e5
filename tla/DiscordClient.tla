---------------------------- MODULE DiscordClient ----------------------------
(***************************************************************************)
(* The IPC client of internal/presence: where it looks for Discord, what   *)
(* each place proves, and what an exchange leaves of the connection.       *)
(* Everything here is a function of what the operating system and the peer *)
(* answer; PresenceWriter uses the client by its outcomes only.            *)
(*                                                                         *)
(* An error is the set of the sentinels errors.Is finds in it.             *)
(***************************************************************************)
EXTENDS Naturals, Sequences, FiniteSets
LOCAL INSTANCE SequencesExt

-----------------------------------------------------------------------------
(* The places.  A path is <<directory, index>>, a directory <<base, nested>>. *)

NestedDirs == <<"", "snap.discord", "app/com.discordapp.Discord",
                "app/com.discordapp.DiscordCanary", "app/com.discordapp.DiscordPTB">>
Indexes == [i \in 1..10 |-> i - 1]

Distinct(seq) ==
    LET firsts == SelectSeq([i \in DOMAIN seq |-> i], LAMBDA i : \A j \in 1..i - 1 : seq[j] # seq[i])
    IN  [k \in DOMAIN firsts |-> seq[firsts[k]]]
PairsOf(first, second) ==
    FlattenSeq([i \in DOMAIN first |-> [j \in DOMAIN second |-> <<first[i], second[j]>>]])

\* The base directories and, in each, those of the packaged builds.
CandidateDirs(bases) == Distinct(PairsOf(Distinct(bases), NestedDirs))

\* The sockets of any other directory, by their index first; before orders the
\* directories by name.
GlobCandidates(found, before) ==
    SetToSortSeq(found, LAMBDA p, q : p[2] < q[2] \/ (p[2] = q[2] /\ <<p[1], q[1]>> \in before))

Candidates(bases, found, before) ==
    Distinct(PairsOf(CandidateDirs(bases), Indexes) \o GlobCandidates(found, before))

PipeCandidates == [i \in 1..10 |-> <<"pipe", Indexes[i]>>]

-----------------------------------------------------------------------------
(* A place.  A directory is private to its owner, the sticky /tmp, writable  *)
(* by everybody, gone, or cannot be read.                                     *)

Sockets ==
    [dir : {"private", "sticky tmp", "shared", "gone", "unreadable"},
     entry : {"absent", "file", "socket"}, mine : BOOLEAN,
     dial : {"accepts", "refuses", "vanished", "stalls"},
     swapped : BOOLEAN,     \* another file is there after the dial
     peerMine : BOOLEAN]

ValidateSocket(s) ==
    CASE s.dir = "gone" -> "absent"
      [] s.dir \in {"shared", "unreadable"} -> "inconclusive"
      [] s.entry # "socket" -> s.entry
      [] ~s.mine -> "foreign"
      [] OTHER -> "valid"

ValidationProvesEndpoint(verdict) == verdict \notin {"absent", "file"}
DialProvesEndpoint(dial) == dial \notin {"refuses", "vanished"}

\* What trying a place gives: a connection, and whether Discord runs there.
DialSocket(s) ==
    LET valid == ValidateSocket(s) = "valid"
        dialled == valid /\ s.dial = "accepts"
    IN  [made |-> dialled /\ ~s.swapped /\ s.peerMine,
         proves |-> IF valid THEN DialProvesEndpoint(s.dial)
                             ELSE ValidationProvesEndpoint(ValidateSocket(s)),
         stalls |-> valid /\ s.dial = "stalls"]

Pipes == [exists : BOOLEAN, opens : BOOLEAN, mine : BOOLEAN,
          image : {"Discord", "other", "unreadable"}]

\* An image that cannot be read is let through, and so is any on an override.
ValidatePipePeer(p, override) == p.mine /\ (override \/ p.image # "other")
DialPipe(p, override) ==
    [made |-> p.opens /\ ValidatePipePeer(p, override),
     proves |-> p.exists \/ p.opens, stalls |-> FALSE]

-----------------------------------------------------------------------------
(* The search.  A stalled dial takes a quarter of the two-second budget; the *)
(* context is found cancelled from the attempt number "cancelled" on.        *)

BudgetStalls == 4
NoError == {}
Lost(error) == [error |-> {error}, index |-> 0]

Dial(override, attempts, cancelled) ==
    LET Start == [done |-> FALSE, index |-> 0, proves |-> FALSE, stalls |-> 0, cut |-> FALSE]
        Try(acc, i) ==
            IF acc.done THEN acc
            ELSE IF i >= cancelled THEN [acc EXCEPT !.done = TRUE, !.cut = TRUE]
            ELSE IF acc.stalls = BudgetStalls THEN [acc EXCEPT !.done = TRUE]
            ELSE IF attempts[i].made THEN [acc EXCEPT !.done = TRUE, !.index = i]
            ELSE [acc EXCEPT !.proves = @ \/ attempts[i].proves,
                             !.stalls = @ + IF attempts[i].stalls THEN 1 ELSE 0]
        end == FoldLeft(Try, Start, [i \in DOMAIN attempts |-> i])
    IN  IF override = "relative" THEN Lost("override invalid")
        ELSE IF end.index # 0 THEN [error |-> NoError, index |-> end.index]
        ELSE IF end.cut \/ (cancelled <= Len(attempts) + 1 /\ ~end.done) THEN Lost("cancelled")
        ELSE Lost(IF end.proves THEN "unreachable" ELSE "not found")

-----------------------------------------------------------------------------
(* The exchanges.  What comes back for a frame: nothing in time, the end of   *)
(* the stream or an unacceptable frame, a frame that is no answer, an event.  *)

Replies == {"silence", "deadline", "cancelled", "broken", "no answer", "READY",
            "other event", "ERROR 4000", "ERROR"}
Sendings == {"sent", "failed", "cancelled"}

\* isTimeoutError also holds for the context's deadline.
Login(dialled, sent, reply) ==
    LET error ==
            CASE dialled # NoError -> dialled
              [] sent # "sent" -> {sent}
              [] reply = "silence" -> {"handshake timeout"}
              [] reply = "deadline" -> {"handshake timeout", "cancelled"}
              [] reply = "cancelled" -> {reply}
              [] reply = "READY" -> NoError
              [] OTHER -> {"failed"}
    IN  [connected |-> error = NoError, error |-> error]

IsPermanentActivityError(error) == error \cap {"invalid", "ERROR 4000"} # {}

SetActivity(connected, valid, sent, reply) ==
    IF ~valid THEN [connected |-> connected, error |-> {"invalid"}]
    ELSE IF ~connected THEN [connected |-> FALSE, error |-> {"failed"}]
    ELSE LET error == CASE sent # "sent" -> {sent}
                        [] reply \in {"READY", "other event"} -> NoError
                        [] reply = "ERROR 4000" -> {reply}
                        [] OTHER -> {"failed"}
         IN  [connected |-> error = NoError \/ IsPermanentActivityError(error), error |-> error]

-----------------------------------------------------------------------------
(* Only a socket of this user, held by a process of this user and still the   *)
(* one that was inspected, is ever connected to.                              *)
OnlyOwnEndpoints ==
    /\ \A s \in Sockets : DialSocket(s).made =>
         /\ s.mine /\ s.peerMine /\ ~s.swapped /\ DialSocket(s).proves
         /\ s.dir \in {"private", "sticky tmp"}
    /\ \A p \in Pipes, override \in BOOLEAN : DialPipe(p, override).made => p.mine

(* "Not found" is said only after every place was tried and none showed an    *)
(* endpoint, "connected" is the first place that takes the connection, and    *)
(* the time budget never turns an endpoint into "not found"                   *)
(* (dialDiscordIPC, formatDiscordStatus: claim no more than was established). *)
SearchIsTruthful(n) ==
    \A attempts \in [1..n -> {DialSocket(s) : s \in Sockets}], cancelled \in 1..n + 2 :
        LET end == Dial("none", attempts, cancelled)
        IN  /\ end.error = NoError => /\ attempts[end.index].made
                                      /\ \A i \in 1..end.index - 1 : ~attempts[i].made
            /\ end.error = {"not found"} =>
                 \A i \in 1..n : ~attempts[i].made /\ ~attempts[i].proves
            /\ end.error = {"unreachable"} => \E i \in 1..n : attempts[i].proves

(* No path is tried twice, every socket that exists is among the paths, and   *)
(* those of the known directories come first.                                 *)
SearchIsComplete(bases, found, before) ==
    LET paths == Candidates(bases, found, before)
        known == Len(CandidateDirs(bases)) * 10
    IN  /\ IsInjective(paths)
        /\ found \subseteq ToSet(paths)
        /\ \A i \in known + 1..Len(paths) : paths[i][1] \notin ToSet(CandidateDirs(bases))

(* What PresenceWriter's Unreachable, Refused and Published assume: an        *)
(* attempt ends without a connection and with an error that may pass, or with *)
(* the connection kept and either a permanent error or none.                  *)
AttemptsAreAsModelled ==
    \A connected, valid \in BOOLEAN, sent \in Sendings, dialled \in {NoError, {"not found"}, {"cancelled"}},
       first, reply \in Replies :
        LET login == Login(dialled, sent, first)
            ready == connected \/ login.connected
            set == SetActivity(ready, valid, sent, reply)
            error == IF ready THEN set.error ELSE login.error
            kept == ready /\ set.connected
        IN  kept <=> error = NoError \/ IsPermanentActivityError(error)
=============================================================================
