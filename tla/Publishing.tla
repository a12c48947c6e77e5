---------------------------- MODULE Publishing ----------------------------
(***************************************************************************)
(* What an activity may say of the user: from a configuration and a        *)
(* detection to the text that leaves the process (Config.Resolve and the   *)
(* directory rules of internal/config, buildActivity, and the mapping of   *)
(* internal/presence/activity.go), and the comparison of two               *)
(* configurations that guards a reload (permissivenessLoosened).           *)
(*                                                                         *)
(* A text is the tools it names and the part of the working directory it   *)
(* shows; the user's own words (fallback, call to action, buttons) are     *)
(* left out.  A path is a sequence of names, <<>> is the root.             *)
(***************************************************************************)
EXTENDS Naturals, Sequences, FiniteSets, TLC
LOCAL INSTANCE SequencesExt

Tools == {"x", "y"}
Systems == {"linux", "darwin", "windows"}
Flags == {"enabled", "toolName", "smallImage", "showDirectory", "basenameOnly"}

-----------------------------------------------------------------------------
(* Paths.  "Me" and "me" are the same name where case folds.                 *)

Folds(os) == os \in {"darwin", "windows"}
Canonical(os, path) == [i \in DOMAIN path |-> IF Folds(os) /\ path[i] = "Me" THEN "me" ELSE path[i]]
HasPrefix(os, path, prefix) == IsPrefix(Canonical(os, prefix), Canonical(os, path))
SamePath(os, p, q) == Canonical(os, p) = Canonical(os, q)

Unknown == <<"?">>
NoPath == <<"none">>

\* The names shown: home is the user's home directory, or Unknown.
DirectoryDisplay(os, cwd, home, basenameOnly) ==
    LET base == <<Last(cwd)>>
        parent == Front(cwd)
    IN  IF cwd = <<>> THEN <<>>
        ELSE IF SamePath(os, cwd, home) THEN <<"~">>
        ELSE IF basenameOnly THEN base
        ELSE IF SamePath(os, parent, home) THEN <<"~">> \o base
        ELSE IF parent = <<>> THEN base ELSE <<Last(parent)>> \o base

-----------------------------------------------------------------------------
(* A configuration is its global settings and, for each tool, the settings   *)
(* its override defines: a function on some of Flags and "allowlist".        *)

Resolve(config, tool) ==
    LET global == [f \in Flags \cup {"allowlist", "collection"} |-> config[f]]
        override == config.tools[tool]
    IN  IF ~config.enabled THEN global
        ELSE IF "enabled" \in DOMAIN override /\ ~override.enabled
        THEN [global EXCEPT !.enabled = FALSE]
        ELSE override @@ global

\* An empty allowlist allows every directory.
DirectoryAllowed(os, resolved, path) ==
    /\ resolved.enabled /\ resolved.showDirectory /\ path # NoPath
    /\ resolved.allowlist = {} \/ \E entry \in resolved.allowlist : HasPrefix(os, path, entry)

\* publishableOthers: each other tool's own identity policy.
PublishableOthers(config, others) ==
    SelectSeq(others, LAMBDA t : Resolve(config, t).enabled /\ Resolve(config, t).toolName)

-----------------------------------------------------------------------------
(* The activity.  format is the part of a customized details_format that     *)
(* matters, or "default".                                                    *)

Nothing == [tools |-> {}, directory |-> <<>>]
Naming(tools) == [tools |-> tools, directory |-> <<>>]
Showing(directory) == [tools |-> {}, directory |-> directory]
Formats == {"default", "plain", "tool", "dir", "both"}

\* collectionState names at most three of them.
CollectionState(others) == Naming(Range(SubSeq(others, 1, IF Len(others) < 3 THEN Len(others) ELSE 3)))

RenderDetails(format, tool, directory) ==
    [tools |-> IF format \in {"tool", "both"} THEN {tool} ELSE {},
     directory |-> IF format \in {"dir", "both"} THEN directory ELSE <<>>]

ActivityFromDetection(os, detection, options) ==
    LET named == IF options.toolName THEN Naming({detection.tool}) ELSE Nothing
        directory == IF options.showDirectory /\ detection.cwd # NoPath
                     THEN DirectoryDisplay(os, detection.cwd, options.home, options.basenameOnly)
                     ELSE <<>>
        collection == IF options.toolName /\ options.collection
                      THEN CollectionState(detection.others) ELSE Nothing
        custom == options.format # "default"
    IN  [name |-> named, largeImage |-> named,
         details |-> CASE custom -> IF options.toolName
                                    THEN RenderDetails(options.format, detection.tool, directory)
                                    ELSE Nothing
                       [] ~custom /\ collection # Nothing -> collection
                       [] OTHER -> Showing(directory),
         state |-> CASE custom -> IF directory # <<>> THEN Showing(directory) ELSE collection
                     [] ~custom /\ collection # Nothing -> Showing(directory)
                     [] OTHER -> Nothing,
         smallImage |-> IF options.toolName /\ options.smallImage /\ detection.others # <<>>
                        THEN Naming({Head(detection.others)}) ELSE Nothing]

Texts == {"name", "details", "state", "largeImage", "smallImage"}
Cleared == [t \in Texts |-> Nothing]

BuildActivity(os, config, detection, format, home) ==
    LET resolved == Resolve(config, detection.tool)
        showDirectory == DirectoryAllowed(os, resolved, detection.cwd)
    IN  IF ~resolved.enabled THEN Cleared
        ELSE ActivityFromDetection(os,
                 [tool |-> detection.tool, others |-> PublishableOthers(config, detection.others),
                  cwd |-> IF showDirectory THEN detection.cwd ELSE NoPath],
                 [toolName |-> resolved.toolName, smallImage |-> resolved.smallImage,
                  collection |-> config.collection, showDirectory |-> showDirectory,
                  basenameOnly |-> resolved.basenameOnly, format |-> format, home |-> home])

Named(activity) == UNION {activity[t].tools : t \in Texts}
Shown(activity) == {activity[t].directory : t \in Texts} \ {<<>>}

-----------------------------------------------------------------------------
(* The guard of a reload.                                                    *)

AllowlistCoverageLoosened(os, prev, next) ==
    /\ prev # next /\ prev # {}
    /\ next = {} \/ \E n \in next : \A p \in prev : ~HasPrefix(os, n, p)

PostureLoosened(os, prev, next) ==
    \/ \E f \in {"enabled", "toolName", "showDirectory", "smallImage", "collection"} : ~prev[f] /\ next[f]
    \/ prev.basenameOnly /\ ~next.basenameOnly
    \/ AllowlistCoverageLoosened(os, prev.allowlist, next.allowlist)

\* Every tool with an override in either, and "" for the ones with none.
NoOverride == <<>>
UnionToolIDs(prev, next) ==
    {t \in Tools : prev.tools[t] # NoOverride \/ next.tools[t] # NoOverride} \cup {""}

\* permissivenessLoosened with skipEnabledDimension as acceptReloadLocked
\* passes it: the enabled key has changed.
PermissivenessLoosened(os, prev, next) ==
    LET skip == prev.enabled # next.enabled
        seen == IF skip THEN [prev EXCEPT !.enabled = TRUE] ELSE prev
        Posture(config, id) ==
            Resolve([config EXCEPT !.tools = @ @@ ("" :> NoOverride)], id)
    IN  \E id \in UnionToolIDs(prev, next) :
            LET n == Posture(next, id)
                p == IF skip /\ id = "" THEN [Posture(seen, id) EXCEPT !.enabled = n.enabled]
                     ELSE Posture(seen, id)
            IN  PostureLoosened(os, p, n)

-----------------------------------------------------------------------------
(* The configurations the statements below are checked on: every combination *)
(* of the settings about names, or about directories, with every override of *)
(* one setting (and of enabled with toolName).                               *)

Base == [enabled |-> TRUE, toolName |-> TRUE, smallImage |-> FALSE, collection |-> FALSE,
         showDirectory |-> FALSE, basenameOnly |-> TRUE, allowlist |-> {},
         tools |-> [t \in Tools |-> NoOverride]]

Paths == {<<"h">>, <<"h", "me">>, <<"h", "Me">>, <<"h", "me", "a">>, <<"h", "Me", "a">>,
          <<"h", "me", "a", "b">>, <<>>}
Allowlists == {{}, {<<"h", "me">>}, {<<"h", "me", "a">>, <<"h">>}, {<<"h", "Me", "a">>}}

Settings(flags) == [flags -> BOOLEAN]
NameOverrides ==
    UNION {Settings(f) : f \in SUBSET {"enabled", "toolName"} \cup {{"smallImage"}}}
DirectoryOverrides ==
    UNION {Settings(f) : f \in {{}, {"enabled"}, {"showDirectory"}, {"basenameOnly"}}}
        \cup [{"allowlist"} -> Allowlists]

NameConfigs(others) ==
    {[g @@ Base EXCEPT !.tools = [x |-> o, y |-> other]] :
        g \in Settings({"enabled", "toolName", "smallImage", "collection"}),
        o \in NameOverrides, other \in others}
DirectoryConfigs ==
    {[g @@ [Base EXCEPT !.allowlist = list] EXCEPT !.tools = [x |-> o, y |-> NoOverride]] :
        g \in Settings({"enabled", "showDirectory", "basenameOnly"}),
        o \in DirectoryOverrides, list \in Allowlists}

Home == <<"h", "me">>
Detections(cwds) ==
    {[tool |-> "x", others |-> <<"y">>, cwd |-> c] : c \in cwds}
        \cup {[tool |-> "y", others |-> others, cwd |-> c] : others \in {<<>>, <<"x">>}, c \in cwds}

(* Nothing the user did not ask for leaves the process: a tool is named only  *)
(* when it is enabled and may be named, beside another one only if that one   *)
(* shows a collection or a small image, and a directory only under the        *)
(* featured tool's own rules, in any format (issues 564, 573, 592).           *)
NothingUnasked ==
    /\ \A config \in NameConfigs(NameOverrides), detection \in Detections({NoPath}), format \in Formats :
         \A t \in Named(BuildActivity("linux", config, detection, format, Home)) :
            LET featured == Resolve(config, detection.tool)
            IN  /\ Resolve(config, t).enabled /\ Resolve(config, t).toolName
                /\ featured.enabled /\ featured.toolName
                /\ t # detection.tool => config.collection \/ featured.smallImage
    /\ \A config \in DirectoryConfigs, detection \in Detections(Paths), format \in Formats :
         LET featured == Resolve(config, detection.tool)
         IN  \A shown \in Shown(BuildActivity("linux", config, detection, format, Home)) :
                /\ DirectoryAllowed("linux", featured, detection.cwd)
                /\ featured.basenameOnly => Len(shown) = 1

(* The account's name is the name of the home directory, and no directory is  *)
(* shown by it, in whatever case it is reported where case folds (issue 620). *)
AccountNameIsHidden ==
    \A os \in Systems, cwd \in Paths, basenameOnly \in BOOLEAN :
        \A k \in 1..Len(cwd) :
            SamePath(os, SubSeq(cwd, 1, k), Home)
              => cwd[k] \notin Range(DirectoryDisplay(os, cwd, Home, basenameOnly))

\* What a configuration may disclose: of whom beside whom, and of which directory.
May(os, config, cwds) ==
    UNION {LET activity == BuildActivity(os, config, d, format, Home)
               names == Named(activity) \cup UNION {Range(p) : p \in Shown(activity)}
           IN  {<<d.tool, d.cwd, n>> : n \in names} : d \in Detections(cwds), format \in Formats}

(* Whatever a new configuration may disclose that the old one did not is      *)
(* held back by the guard, be it by a global setting, by an override or by    *)
(* the loss of one; when the enabled key itself changes, which the caller     *)
(* judges, the old one counts as if it were on (issues 447, 518, 573, 591).   *)
GuardCoversDisclosure ==
    LET Disclosing(os, configs, cwds) ==
            {[config |-> c, may |-> May(os, c, cwds),
              mayIfOn |-> May(os, [c EXCEPT !.enabled = TRUE], cwds)] : c \in configs}
        Covers(os, configs, cwds) ==
            \A prev, next \in Disclosing(os, configs, cwds) :
               \/ next.may \subseteq IF prev.config.enabled = next.config.enabled
                                     THEN prev.may ELSE prev.mayIfOn
               \/ PermissivenessLoosened(os, prev.config, next.config)
    IN  /\ Covers("linux", NameConfigs({NoOverride, [toolName |-> FALSE]}), {NoPath})
        /\ \A os \in {"linux", "darwin"} :
             Covers(os, DirectoryConfigs, {<<"h", "me", "a", "b">>, <<"h", "Me", "a">>, <<"h">>})
=============================================================================
