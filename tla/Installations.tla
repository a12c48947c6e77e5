--------------------------- MODULE Installations ---------------------------
(***************************************************************************)
(* How termp was installed, and how "termp update" replaces it             *)
(* (internal/update and runUpdateForPlatform of cmd/termp): reading a      *)
(* release tag, recognising an installation by its path and its package    *)
(* manager, and the steps of an update up to the one that fails.           *)
(*                                                                         *)
(* A path is a sequence of names, and a name in capitals is the same name  *)
(* where case folds; a tag is a sequence of characters, in which "1" is    *)
(* any digit but 0 and "a" any letter.                                     *)
(***************************************************************************)
EXTENDS Naturals, Sequences, FiniteSets
LOCAL INSTANCE SequencesExt

-----------------------------------------------------------------------------
(* Release tags: parseVersion.                                               *)

Digits == {"0", "1"}
Letters == {"a", "v"}

\* strings.Split and strings.Cut.
RECURSIVE Split(_, _)
Split(text, c) ==
    IF c \notin Range(text) THEN <<text>>
    ELSE LET i == CHOOSE i \in DOMAIN text : text[i] = c /\ \A j \in 1 .. i - 1 : text[j] # c
         IN  <<SubSeq(text, 1, i - 1)>> \o Split(SubSeq(text, i + 1, Len(text)), c)

First(text, c) == {i \in DOMAIN text : text[i] = c /\ \A j \in 1 .. i - 1 : text[j] # c}
Before(text, c) == IF First(text, c) = {} THEN text ELSE SubSeq(text, 1, (CHOOSE i \in First(text, c) : TRUE) - 1)
After(text, c) == SubSeq(text, (CHOOSE i \in First(text, c) : TRUE) + 1, Len(text))

Numeric(id) == Range(id) \subseteq Digits
ValidNumericIdentifier(id) == id # <<>> /\ Numeric(id) /\ (Len(id) > 1 => id[1] # "0")
ValidBuildIdentifier(id) == id # <<>> /\ Range(id) \subseteq Digits \cup Letters \cup {"-"}
ValidPrereleaseIdentifier(id) ==
    ValidBuildIdentifier(id) /\ (Numeric(id) => Len(id) = 1 \/ id[1] # "0")

Unversioned == [core |-> <<>>, pre |-> <<>>]

ParseVersion(tag) ==
    LET bare == IF tag # <<>> /\ tag[1] = "v" THEN Tail(tag) ELSE tag
        release == Before(bare, "+")
        core == Split(Before(release, "-"), ".")
        pre == IF "-" \in Range(release) THEN Split(After(release, "-"), ".") ELSE <<>>
    IN  IF /\ "+" \in Range(bare) => \A id \in Range(Split(After(bare, "+"), ".")) : ValidBuildIdentifier(id)
           /\ Len(core) = 3 /\ \A id \in Range(core) : ValidNumericIdentifier(id)
           /\ \A id \in Range(pre) : ValidPrereleaseIdentifier(id)
        THEN [core |-> core, pre |-> pre] ELSE Unversioned

ValidReleaseTag(tag) == ParseVersion(tag) # Unversioned

-----------------------------------------------------------------------------
(* Recognising an installation.                                              *)

Fold(path) == [i \in DOMAIN path |-> CASE path[i] = "TERMP.EXE" -> "termp.exe" [] path[i] = "BIN" -> "bin"
                                       [] path[i] = "APPS" -> "apps" [] OTHER -> path[i]]
EqualFold(p, q) == Fold(p) = Fold(q)

IsHomebrewInstall(path, prefixes) ==
    \E prefix \in prefixes :
        /\ IsPrefix(prefix, path)
        /\ LET parts == SubSeq(path, Len(prefix) + 1, Len(path))
           IN  \/ Len(parts) = 5 /\ [parts EXCEPT ![3] = "*"] = <<"Cellar", "termp", "*", "bin", "termp">>
               \/ Len(parts) = 4 /\ [parts EXCEPT ![3] = "*"] = <<"Caskroom", "termp", "*", "termp">>

IsScoopInstall(path, roots) ==
    \E root \in roots :
        \/ EqualFold(path, root \o <<"shims", "termp.exe">>)
        \/ /\ Len(path) = Len(root) + 4
           /\ EqualFold([path EXCEPT ![Len(root) + 3] = "*"], root \o <<"apps", "termp", "*", "termp.exe">>)

\* Where case folds the two must also be one directory (os.SameFile).
IsDirectChildOf(path, dir, os, sameFile) ==
    \/ Front(path) = dir
    \/ os \in {"windows", "darwin"} /\ EqualFold(Front(path), dir) /\ sameFile

\* classifySystemPackage: who owns the file, or else who is there.
ClassifySystemPackage(owners, tools) ==
    LET Only(managers, default) == IF managers = {"dpkg"} THEN "debian"
                                   ELSE IF managers = {"rpm"} THEN "rpm" ELSE default
    IN  IF owners # {} THEN Only(owners, "system") ELSE Only(tools, "system")

\* detectInstall: the place is what evalSymlinks says, if it does.
DetectInstall(os, executable, resolves, resolved, owners, tools, goBins, sameFile, brew, scoop) ==
    IF ~resolves
    THEN IF os = "windows" /\ IsScoopInstall(executable, scoop) THEN "scoop" ELSE "generic"
    ELSE IF IsHomebrewInstall(resolved, brew) THEN "homebrew"
    ELSE IF os = "windows" /\ IsScoopInstall(resolved, scoop) THEN "scoop"
    ELSE IF os = "linux" /\ resolved = <<"usr", "bin", "termp">> THEN ClassifySystemPackage(owners, tools)
    ELSE IF \E bin \in goBins : IsDirectChildOf(resolved, bin, os, sameFile) THEN "go"
    ELSE "generic"

Methods == {"homebrew", "scoop", "debian", "rpm", "system", "go", "generic"}
SystemPackages == {"debian", "rpm", "system"}

-----------------------------------------------------------------------------
(* RPM: the first front end there is, and what it accepts unsigned.          *)

RPMManagers == <<"dnf", "zypper", "yum", "rpm">>
DetectRPMManager(available) ==
    LET found == SelectSeq(RPMManagers, LAMBDA m : m \in available)
    IN  IF found = <<>> THEN "" ELSE found[1]

\* zypperSupportsAllowUnsignedRPM; <<>> is a version nobody could read.
SupportsAllowUnsigned(version) ==
    version # <<>> /\ (version[1] > 1 \/ (version[1] = 1 /\ version[2] >= 14))

RPMInstallArgs(manager, zypper) ==
    CASE manager \in {"dnf", "yum"} -> <<manager, "install">>
      [] manager = "zypper" ->
           IF SupportsAllowUnsigned(zypper) THEN <<"zypper", "install", "--allow-unsigned-rpm">>
           ELSE <<"zypper", "--no-gpg-checks", "install">>
      [] manager = "rpm" -> <<"rpm", "-U">>
      [] OTHER -> <<>>

-----------------------------------------------------------------------------
(* The steps of an update.  Obstacles are the steps that would fail; checks  *)
(* that the method itself decides are among the obstacles of Update.         *)

Until(steps, obstacles) == \* the steps done before the first that fails
    LET failing == {i \in DOMAIN steps : steps[i] \in obstacles}
    IN  IF failing = {} THEN steps
        ELSE SubSeq(steps, 1, (CHOOSE i \in failing : \A j \in failing : i <= j) - 1)

PackageSteps ==
    <<"valid tag", "one package format", "package manager known", "architecture", "terminal", "sudo", "manager found",
      "create package file", "create checksums file", "download package", "download checksums",
      "verify checksum", "arguments", "install">>
GenericSteps ==
    <<"valid tag", "not windows", "install directory", "architecture", "create installer file",
      "download installer", "installer is not empty", "install">>

Steps(method) ==
    CASE method \in SystemPackages -> PackageSteps
      [] method = "generic" -> GenericSteps
      [] method = "scoop" -> <<"not scoop">>
      [] method = "go" -> <<"valid tag", "install">>
      [] method = "homebrew" -> <<"install">>

\* verifyPackageChecksum: exactly one line of two fields for the file, and
\* the digest it gives is the file's.
VerifyPackageChecksum(asset, lines) ==
    LET own == {i \in DOMAIN lines : Len(lines[i]) = 2 /\ lines[i][2] = "asset"}
    IN  /\ asset.size > 0 /\ Cardinality(own) = 1
        /\ \A i \in own : lines[i][1] # "malformed" /\ lines[i][1] = asset.digest

\* PerformUpdate: the steps it takes; it succeeds when it takes them all.
PerformUpdate(w) ==
    LET decided == (IF w.method = "system" THEN {"one package format"} ELSE {})
                     \cup (IF w.method = "rpm" /\ DetectRPMManager(w.managers) = ""
                           THEN {"package manager known"} ELSE {})
                     \cup (IF w.method = "scoop" THEN {"not scoop"} ELSE {})
                     \cup (IF w.os = "windows" THEN {"not windows"} ELSE {})
                     \cup (IF VerifyPackageChecksum(w.asset, w.lines) THEN {} ELSE {"verify checksum"})
    IN  Until(Steps(w.method), w.obstacles \cup decided)

Succeeds(w) == PerformUpdate(w) = Steps(w.method)

\* GuidanceForMethod: what the user is told to run; windows is told apart by
\* runUpdateForPlatform.
Guidance(w) ==
    CASE w.method \in {"homebrew", "scoop"} -> w.method
      [] w.method = "generic" /\ w.os = "windows" -> "archive"
      [] w.method \in SystemPackages ->
           IF {"valid tag", "architecture"} \cap w.obstacles # {} THEN "" ELSE w.method
      [] OTHER -> IF "valid tag" \in w.obstacles THEN "" ELSE w.method

\* runUpdateForPlatform: what it does and what it prints.
RunUpdate(w) ==
    LET nothing == [ran |-> <<>>, says |-> "latest", guidance |-> "", fails |-> FALSE]
    IN  CASE ~w.newer -> nothing
          [] w.newer /\ (w.method = "scoop" \/ (w.method = "generic" /\ w.os = "windows")) ->
               [nothing EXCEPT !.says = "available", !.guidance = Guidance(w)]
          [] OTHER ->
               IF Succeeds(w) THEN [nothing EXCEPT !.ran = PerformUpdate(w), !.says = "complete"]
               ELSE [ran |-> PerformUpdate(w), says |-> "failed",
                     guidance |-> IF w.method = "generic" THEN "termp update" ELSE Guidance(w),
                     fails |-> w.method \notin SystemPackages]

\* eligibleForUpdateAlert: the commands that end with a line about a release.
EligibleForAlert(command, known, terminal) ==
    terminal /\ (known \/ command = "help") /\ command \notin {"update", "version", "status", "completion"}

-----------------------------------------------------------------------------
Tags(n) == UNION {[1..k -> Digits \cup {"a", ".", "-"}] : k \in 5..n}
Joined(ids) == FoldLeft(LAMBDA text, id : text \o (IF text = <<>> THEN <<>> ELSE <<".">>) \o id, <<>>, ids)

(* A tag is read back as it was written: the identifiers between its dots are *)
(* what is compared, and no other text passes for a release.                  *)
TagsAreReadBack(n) ==
    \A tag \in Tags(n) :
        LET v == ParseVersion(tag)
        IN  /\ ValidReleaseTag(tag) =>
                 Joined(v.core) \o (IF v.pre = <<>> THEN <<>> ELSE <<"-">> \o Joined(v.pre)) = tag
            /\ ParseVersion(<<"v">> \o tag) = v /\ ParseVersion(tag \o <<"+", "a">>) = v
            /\ ~ValidReleaseTag(tag \o <<"+">>) /\ ~ValidReleaseTag(tag \o <<".">>)

Prefix == <<"opt">>
Paths == {<<"usr", "bin", "termp">>, <<"opt", "Cellar", "termp", "1", "bin", "termp">>,
          <<"opt", "Caskroom", "termp", "1", "termp">>, <<"opt", "Cellar", "other", "1", "bin", "termp">>,
          <<"scoop", "shims", "TERMP.EXE">>, <<"scoop", "APPS", "termp", "1", "termp.exe">>,
          <<"go", "bin", "termp">>, <<"go", "BIN", "termp">>, <<"go", "bin", "x", "termp">>}

(* A package manager is asked to update only what it may own: a file another  *)
(* one owns, or nobody can say who, is left to the user; and a build in a Go  *)
(* directory counts as one only where it is that directory.                   *)
OwnerDecides ==
    \A os \in {"linux", "darwin", "windows"}, path \in Paths, resolves, sameFile \in BOOLEAN,
       owners, tools \in SUBSET {"dpkg", "rpm"} :
        LET method == DetectInstall(os, path, resolves, path, owners, tools, {<<"go", "bin">>}, sameFile,
                                    {Prefix}, {<<"scoop">>})
        IN  /\ method = "debian" => "rpm" \notin owners /\ ("dpkg" \in owners \/ "dpkg" \in tools)
            /\ method = "rpm" => "dpkg" \notin owners /\ ("rpm" \in owners \/ "rpm" \in tools)
            /\ method \in SystemPackages <=> resolves /\ os = "linux" /\ path = <<"usr", "bin", "termp">>
            /\ method = "go" => path = <<"go", "bin", "termp">> \/ (os # "linux" /\ sameFile)
            /\ method = "scoop" => os = "windows"

Worlds ==
    [method : Methods, os : {"linux", "windows"}, newer : BOOLEAN,
     obstacles : {{}} \cup {{s} : s \in Range(PackageSteps) \cup Range(GenericSteps)},
     managers : {{}, {"rpm", "yum"}},
     asset : [size : 0..1, digest : {"d"}],
     lines : UNION {[1..k -> {<<"d", "asset">>, <<"e", "asset">>, <<"malformed", "asset">>,
                              <<"d", "other">>, <<"asset">>}] : k \in 0..2}]

(* What is installed was checked: a package only when the release's list has  *)
(* one line for it and that line is its digest, an installer only when it was *)
(* downloaded whole, and neither for a release that is not newer.             *)
NothingUncheckedIsInstalled ==
    \A w \in Worlds :
        LET ran == Range(RunUpdate(w).ran)
            listed == {i \in DOMAIN w.lines : w.lines[i] \in [1..2 -> {"d", "e", "malformed", "asset"}]
                                                /\ w.lines[i][2] = "asset"}
        IN  "install" \in ran =>
              /\ w.newer /\ w.method # "scoop"
              /\ w.method \in SystemPackages =>
                   w.asset.size > 0 /\ \E i \in listed : listed = {i} /\ w.lines[i][1] = w.asset.digest
              /\ w.method = "generic" =>
                   w.os # "windows" /\ {"download installer", "installer is not empty"} \subseteq ran

(* "Complete" is printed when and only when the installer ran to its end; a   *)
(* user who is left with the old version is told what to run, or the command  *)
(* fails.                                                                     *)
UpdateIsHonest ==
    \A w \in Worlds :
        LET result == RunUpdate(w)
        IN  /\ result.says = "complete" <=> "install" \in Range(result.ran)
            /\ w.newer /\ result.says # "complete" =>
                 \/ result.guidance # "" \/ result.fails
                 \/ {"valid tag", "architecture"} \cap w.obstacles # {}

(* Whatever front end is found can be asked to install, and a later zypper is *)
(* never asked in an older one's way.                                         *)
FrontEndsAreUsable ==
    /\ \A available \in SUBSET Range(RPMManagers), zypper \in {<<>>, <<1, 13>>, <<1, 14>>, <<2, 0>>} :
         DetectRPMManager(available) # "" =>
            LET args == RPMInstallArgs(DetectRPMManager(available), zypper)
            IN  args # <<>> /\ args[1] \in available
    /\ \A v, w \in (0..2) \X (12..15) :
         SupportsAllowUnsigned(v) /\ (v[1] < w[1] \/ (v[1] = w[1] /\ v[2] <= w[2])) => SupportsAllowUnsigned(w)
=============================================================================
