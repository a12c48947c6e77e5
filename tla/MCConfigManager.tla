-------------------------- MODULE MCConfigManager --------------------------
(* A manager whose file is rewritten in the ways the issues report.          *)
EXTENDS ConfigManager

MCSaves ==
    {<<<<>>, <<"optout">>, <<"optout", "off">>>>,   \* truncate, then append line by line
     <<Missing, <<"torn">>, <<"on">>>>,             \* unlink, recreate, finish a torn line
     <<<<"invalid">>>>, <<<<"private">>>>}          \* replace by rename

MCStarts == {Missing, <<"optout", "off">>}

\* A small instance for the liveness properties: an opted-out file that is
\* truncated, torn and then opts out of one tool only, or is removed.
LiveSaves == {<<<<>>, <<"torn">>, <<"optout">>>>, <<Missing>>}
LiveStarts == {<<"off">>}

\* One tool's name is withheld, then presence is turned off.
PrivateSaves == {<<<<"private", "off">>>>}
PrivateStarts == {<<"on", "private">>}

\* What a configuration lets out, over every combination of a few settings.
Pub == INSTANCE Publishing
ASSUME Pub!NothingUnasked
ASSUME Pub!AccountNameIsHidden
ASSUME Pub!GuardCoversDisclosure

\* The document a configuration stands for: one tool that may be switched off
\* and one whose name may be withheld, everything else asked for.
Document(c) ==
    [Pub!Base EXCEPT !.enabled = c.enabled, !.smallImage = TRUE, !.collection = TRUE,
        !.tools = [x |-> IF c.optout THEN [enabled |-> FALSE] ELSE <<>>,
                   y |-> IF c.private THEN [toolName |-> FALSE] ELSE <<>>]]

(* The guard of ConfigManager is that of the whole configuration.             *)
ASSUME GuardsAgree ==
    \A prev, next \in Configs :
        PermissivenessLoosened(prev, next)
          <=> Pub!PermissivenessLoosened("linux", Document(prev), Document(next))
=============================================================================
