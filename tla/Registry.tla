------------------------------ MODULE Registry ------------------------------
(***************************************************************************)
(* The tool registry (internal/registry): which tool a process is, and how *)
(* the catalog and the user's custom tools make one list.                  *)
(*                                                                         *)
(* A string that names a program is its base name and how it is spelled:   *)
(* bare, with a directory, or with an executable's extension or other      *)
(* case.  A regular expression is the set of strings it matches.           *)
(***************************************************************************)
EXTENDS Naturals, Sequences, FiniteSets
LOCAL INSTANCE SequencesExt

Shells == {"sh"}
Interpreters == {"python", "node"}
Names == {"tool", "other", "-m", "serve"} \cup Shells \cup Interpreters
Spellings == {"bare", "path", "exe"}
Strings == [base : Names, spelled : Spellings]
Empty == [base |-> "", spelled |-> "bare"]
Bare(name) == [base |-> name, spelled |-> "bare"]

-----------------------------------------------------------------------------
(* Who is a process?                                                         *)

NormalizeName(string) == string.base

FirstOf(sequence) == IF sequence = <<>> THEN Empty ELSE Head(sequence)

\* The first field that says anything decides.
IsShell(p) ==
    \E i \in 1..3 : LET fields == <<p.name, p.argv0, p.exe>>
                    IN  /\ NormalizeName(fields[i]) \in Shells
                        /\ \A j \in 1 .. i - 1 : fields[j] = Empty

\* Where the arguments name the program: behind an interpreter, and behind -m
\* of python.
EntrypointIndex(argv) ==
    IF argv = <<>> \/ NormalizeName(argv[1]) \notin Interpreters THEN 1
    ELSE IF Len(argv) > 2 /\ NormalizeName(argv[1]) = "python" /\ argv[2] = Bare("-m") THEN 3 ELSE 2

ProcessMatchIdentity(p) ==
    LET argv == IF p.argv # <<>> THEN p.argv ELSE p.cmdline
        entry == EntrypointIndex(argv)
    IN  [shell |-> FALSE,
         identities |-> ({p.name, p.argv0, p.exe, FirstOf(p.cmdline)}
                           \cup {argv[i] : i \in ({entry} \ {1}) \cap DOMAIN argv}) \ {Empty},
         subcommand |-> {argv[i] : i \in {entry + 1} \cap DOMAIN argv}]

ProcessIdentityForMatch(p) ==
    IF IsShell(p) THEN [shell |-> TRUE, identities |-> {}, subcommand |-> {}]
    ELSE ProcessMatchIdentity(p)

MatchesProcess(tool, identity) ==
    /\ ~identity.shell
    /\ \E s \in identity.identities : NormalizeName(s) = tool.match.name \/ s \in tool.match.regex
    /\ (identity.identities \cup identity.subcommand) \cap tool.exclude = {}

\* compareTools: the higher priority, then the earlier place.
Above(t, u) == t.priority > u.priority \/ (t.priority = u.priority /\ t.order < u.order)

\* MatchProcess walks the registry and keeps the best so far.
NoTool == [id |-> "none"]
MatchProcess(registry, p) ==
    LET identity == ProcessIdentityForMatch(p)
        Better(best, t) == IF MatchesProcess(t, identity) /\ (best = NoTool \/ Above(t, best)) THEN t ELSE best
    IN  FoldLeft(Better, NoTool, registry)

-----------------------------------------------------------------------------
(* The list: a custom tool takes the place of the one with its id, or the    *)
(* next one; newFromTools then gives a place to those without one and sorts. *)

Extended(tools, custom) ==
    LET at == {i \in DOMAIN tools : tools[i].id = custom.id}
    IN  IF at = {} THEN Append(tools, [custom EXCEPT !.order = Len(tools)])
        ELSE LET i == CHOOSE i \in at : TRUE
             IN  [tools EXCEPT ![i] = [custom EXCEPT !.order = tools[i].order]]

NewFromTools(tools) ==
    SortSeq([i \in DOMAIN tools |-> IF tools[i].order = 0 THEN [tools[i] EXCEPT !.order = i - 1] ELSE tools[i]],
            LAMBDA t, u : t.order < u.order)

New(catalog, custom) == NewFromTools(FoldLeft(Extended, catalog, custom))

-----------------------------------------------------------------------------
(* A custom tool's fields: lengths in characters, texts that hold a control  *)
(* character or none, and an icon that is given, derived from a slug, or the *)
(* generic logo.                                                             *)

MaxToolID == 3      \* 64 in the program
MaxName == 3        \* 128
MaxImage == 4       \* 256
Generic == [field |-> "url", length |-> 1, clean |-> TRUE, http |-> TRUE]

\* resolveIcon.
ResolveIcon(t) ==
    IF t.icon # {} THEN t.icon
    ELSE IF t.slug.length = 0 THEN {Generic}
    ELSE LET source == IF t.source = "" THEN IF t.slug.http THEN "url" ELSE "simpleicons" ELSE t.source
         IN  CASE source \in {"simpleicons", "lobehub"} ->   \* the slug, escaped, in a template
                    {[field |-> "url", length |-> t.slug.length + 1, clean |-> TRUE, http |-> TRUE]}
               [] source = "url" ->
                    {[field |-> "url", length |-> t.slug.length, clean |-> t.slug.clean, http |-> t.slug.http]}
               [] source = "key" ->
                    {[field |-> "key", length |-> t.slug.length, clean |-> t.slug.clean, http |-> FALSE]}
               [] OTHER -> {Generic}

\* ValidateCustomTool.
ValidCustomTool(t) ==
    /\ t.idLength <= MaxToolID
    /\ t.name.length \in 2..MaxName /\ t.name.clean
    /\ \A icon \in ResolveIcon(t) :
         /\ icon.length <= MaxImage /\ icon.clean
         /\ icon.field = "url" => icon.http

-----------------------------------------------------------------------------
(* A command line is read into words: quotes group, and an empty quoted word *)
(* counts.                                                                   *)

ArgvFromCmdline(line) ==
    LET Flush(s) == IF s.started THEN [s EXCEPT !.argv = Append(@, s.word), !.word = <<>>, !.started = FALSE] ELSE s
        Read(s, c) ==
            IF s.quote # ""
            THEN IF c = s.quote THEN [s EXCEPT !.quote = ""]
                 ELSE [s EXCEPT !.word = Append(@, c), !.started = TRUE]
            ELSE CASE c \in {"'", "\""} -> [s EXCEPT !.quote = c, !.started = TRUE]
                   [] c = " " -> Flush(s)
                   [] OTHER -> [s EXCEPT !.word = Append(@, c), !.started = TRUE]
    IN  Flush(FoldLeft(Read, [argv |-> <<>>, word |-> <<>>, quote |-> "", started |-> FALSE], line)).argv

-----------------------------------------------------------------------------
ToolWith(id, priority, exclude) ==
    [id |-> id, match |-> [name |-> "tool", regex |-> {}], exclude |-> exclude,
     priority |-> priority, order |-> 0]
ByRegex(id, priority) == [ToolWith(id, priority, {}) EXCEPT !.match = [name |-> "", regex |-> {[base |-> "tool", spelled |-> "path"]}]]

Arguments == {Bare(n) : n \in Names} \cup {[base |-> "tool", spelled |-> "path"]}
Argvs == UNION {[1..n -> Arguments] : n \in 0..3}
Process(argv) == [name |-> FirstOf(argv), argv0 |-> FirstOf(argv), exe |-> Empty, cmdline |-> argv, argv |-> argv]

(* A process is the tool it runs, in whatever way it is spelled or started,   *)
(* and never the one it is merely told about: an argument that is not the     *)
(* entry point can only take a match away, and a shell is nothing.            *)
ArgumentsDoNotMatch ==
    \A argv \in Argvs, tool \in {ToolWith("a", 0, {}), ByRegex("a", 0), ToolWith("a", 0, {Bare("serve")})} :
        LET entry == EntrypointIndex(argv)
            Matched(words) == MatchProcess(<<tool>>, Process(words)) # NoTool
        IN  /\ Matched(argv) => /\ ~IsShell(Process(argv))
                                /\ \E i \in {1, entry} \cap DOMAIN argv : argv[i].base = "tool"
            /\ Matched(argv) /\ entry \in DOMAIN argv => Matched(SubSeq(argv, 1, entry))
            /\ argv # <<>> /\ argv[1].base \in Interpreters \cup {"tool"} /\ entry \in DOMAIN argv
                 /\ argv[entry].base = "tool" /\ tool.match.regex = {} /\ tool.exclude = {}
               => Matched(argv)

(* The tool found is the best match, whatever the order of the catalog; a     *)
(* custom tool with a catalog id replaces that tool in its place, so it wins  *)
(* and loses the same ties.                                                   *)
BestMatchWins ==
    \A priorities \in [1..3 -> 0..1], customs \in UNION {[1..n -> {"a", "b", "d"}] : n \in 0..2}, boost \in 0..1 :
        LET catalog == [i \in 1..3 |-> [ToolWith(<<"a", "b", "c">>[i], priorities[i], {}) EXCEPT !.order = i - 1]]
            registry == New(catalog, [i \in DOMAIN customs |-> ToolWith(customs[i], boost, {})])
            found == MatchProcess(registry, Process(<<Bare("tool")>>))
            Place(id) == CHOOSE i \in DOMAIN registry : registry[i].id = id
        IN  /\ Cardinality({t.id : t \in Range(registry)}) = Len(registry)
            /\ \A i \in 1..3 : Place(catalog[i].id) = i
            /\ \A t \in Range(registry) : found.priority > t.priority
                                            \/ (found.priority = t.priority /\ Place(found.id) <= Place(t.id))

(* A custom tool that is accepted is one Discord is sent: the picture of its  *)
(* activity, the URL before the key, is one validateActivity lets through.    *)
Icons == [field : {"key", "url"}, length : {0, 4, 5}, clean : BOOLEAN, http : BOOLEAN]
Slugs == [length : {0, 3, 4, 5}, clean : BOOLEAN, http : BOOLEAN]
CustomTools ==
    [idLength : {3, 4}, name : [length : {1, 2, 4}, clean : BOOLEAN],
     source : {"", "url", "key", "lobehub", "?"}, slug : Slugs,
     icon : {{}} \cup {{i} : i \in {i \in Icons : i.length > 0}}]

AcceptedIsPublishable ==
    \A t \in CustomTools : ValidCustomTool(t) =>
        \A image \in ResolveIcon(t) : /\ image.length \in 1..MaxImage
                                      /\ image.field = "url" => image.http /\ image.clean

(* A command line written with quotes is read back word for word.             *)
QuotingIsUndone ==
    \A words \in UNION {[1..n -> UNION {[1..k -> {"a", " ", "'"}] : k \in 0..2}] : n \in 0..3} :
        LET Written(w) == <<"\"">> \o w \o <<"\"", " ">>
        IN  ArgvFromCmdline(FoldLeft(LAMBDA line, w : line \o Written(w), <<>>, words)) = words
=============================================================================
