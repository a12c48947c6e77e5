----------------------------- MODULE MCSessions -----------------------------
(***************************************************************************)
(* Two process ids.  Under the first, a session of another user, then one  *)
(* of this user; under the second, a session of the same tool, then one of *)
(* another tool whose creation time cannot be read.                        *)
(***************************************************************************)
EXTENDS Sessions

MCPid == <<1, 1, 2, 2>>
MCTool == <<1, 1, 1, 2>>
MCPriority == <<1, 2>>

MCConfigs ==
    { [windows |-> FALSE, pin |-> None, switching |-> TRUE, disabled |-> {}],
      [windows |-> TRUE, pin |-> None, switching |-> TRUE, disabled |-> {}],
      [windows |-> FALSE, pin |-> 2, switching |-> FALSE, disabled |-> {1}] }

MCLooks ==
    { [tty |-> "quiet", work |-> "none"],
      [tty |-> "typed", work |-> "some"],
      [tty |-> "blind", work |-> "unknown"] }

\* Which tool a process is, over every short command line.
Matching == INSTANCE Registry
ASSUME Matching!ArgumentsDoNotMatch
ASSUME Matching!BestMatchWins
ASSUME Matching!AcceptedIsPublishable
ASSUME Matching!QuotingIsUndone
============================================================================
