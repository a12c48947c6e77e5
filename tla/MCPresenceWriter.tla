-------------------------- MODULE MCPresenceWriter --------------------------
(***************************************************************************)
(* Instance of PresenceWriter for TLC: time scaled so that the throttle    *)
(* and the reapply interval are equal (both 15 s in the daemon) and the    *)
(* backoff starts below them and, in Delays, ends above them.              *)
(***************************************************************************)
EXTENDS PresenceWriter

Delays == <<1, 2, 4>>
ShortDelays == <<1, 2>>

\* The client behind the writer, on every answer a place and a peer can give.
Client == INSTANCE DiscordClient
ASSUME Client!OnlyOwnEndpoints
ASSUME Client!SearchIsTruthful(5)
ASSUME Client!SearchIsComplete(<<"run", "tmp", "run">>,
                               {<<<<"run", "snap.discord">>, 3>>, <<<<"run", "other">>, 2>>,
                                <<<<"tmp", "other">>, 2>>, <<<<"tmp", "new">>, 12>>},
                               {<<<<"run", "other">>, <<"tmp", "other">>>>})
ASSUME Client!AttemptsAreAsModelled
=============================================================================
