---------------------------- MODULE LogRotation ----------------------------
(***************************************************************************)
(* The daemon's log (rotatingLogWriter of cmd/termp): a file of bounded    *)
(* size and its older generations, which two processes may write under one *)
(* lock, besides what a panic writes through stderr.                       *)
(*                                                                         *)
(* A state has the records of each generation, 0 the current one, and what *)
(* every process has open.  A record is its number, its length, whether it *)
(* came through Write, and the rotations begun since.                      *)
(***************************************************************************)
EXTENDS Naturals, Sequences, FiniteSets
LOCAL INSTANCE SequencesExt

MaxBytes == 2       \* 1 MiB in the program
Retained == 2       \* 3
Generations == 0..Retained
Removed == Retained + 1     \* open, but no longer a generation
Closed == Retained + 2
Places == 0..Closed
Writers == 1..2

Size(s) == FoldLeft(LAMBDA n, r : n + r.length, 0, s.file[0])
BoundLogRecord(length) == IF length <= MaxBytes THEN length ELSE MaxBytes
RotationNeeded(s, next) == Size(s) >= MaxBytes \/ (Size(s) > 0 /\ next > MaxBytes - Size(s))

\* A step of a process: the state, and whether it has not failed.
Done(s) == [state |-> s, ok |-> TRUE]
Fail(s) == [state |-> s, ok |-> FALSE]
Then(step, Next(_)) == IF step.ok THEN Next(step.state) ELSE step

\* All that has generation g open, or any other.
Reopened(s, place) ==
    [s EXCEPT !.log = [w \in Writers |-> place[s.log[w]]], !.stderr = [w \in Writers |-> place[s.stderr[w]]]]

RemoveOldest(s) ==
    [Reopened(s, [p \in Places |-> IF p = Retained THEN Removed ELSE p]) EXCEPT !.file[Retained] = <<>>]
Rename(s, g) ==
    [Reopened(s, [p \in Places |-> IF p = g THEN g + 1 ELSE IF p = g + 1 THEN Removed ELSE p])
        EXCEPT !.file[g + 1] = s.file[g], !.file[g] = <<>>]

\* openCurrentLocked: the log is opened when it is not the current file.
OpenCurrent(s, w, fails) ==
    LET opened == [s EXCEPT !.log[w] = 0]
        closed == [s EXCEPT !.log[w] = Closed]
    IN  CASE s.log[w] = 0 -> Done(s)
          [] s.log[w] # 0 /\ "open" \in fails -> Fail(closed)
          [] s.log[w] # 0 /\ "open" \notin fails /\ ~s.redirected[w] -> Done(opened)
          [] OTHER -> IF "redirect" \in fails THEN Fail(closed) ELSE Done([opened EXCEPT !.stderr[w] = 0])

\* rotateLocked: from the oldest on; what cannot be renamed ends it.
Rotate(s, w, fails) ==
    LET begun == [s EXCEPT !.log[w] = Closed,
                           !.file = [g \in Generations |-> [i \in DOMAIN s.file[g] |->
                                        [s.file[g][i] EXCEPT !.age = @ + 1]]]]
        Move(step, g) ==
            Then(step, LAMBDA t : IF <<"rename", "rename 1">>[g + 1] \in fails THEN Fail(t) ELSE Done(Rename(t, g)))
        moved == FoldLeft(Move, IF "close" \in fails \/ "remove" \in fails THEN Fail(begun) ELSE Done(RemoveOldest(begun)),
                          [i \in 1..Retained |-> Retained - i])
    IN  Then(moved, LAMBDA t : OpenCurrent(t, w, {IF f = "open rotated" THEN "open" ELSE f : f \in fails \ {"open"}}))

RotateIfNeeded(s, w, next, fails) ==
    IF "stat" \in fails THEN Fail(s)
    ELSE IF RotationNeeded(s, next) THEN Rotate(s, w, fails) ELSE Done(s)

\* Write: a rotation that fails does not keep the record out.
Write(s, w, record, fails) ==
    LET bounded == [record EXCEPT !.length = BoundLogRecord(@)]
        opened == OpenCurrent(s, w, fails)
        rotated == Then(opened, LAMBDA t : RotateIfNeeded(t, w, bounded.length, fails))
        ready == IF opened.ok /\ ~rotated.ok /\ "stat" \notin fails
                 THEN OpenCurrent(rotated.state, w, {IF f = "reopen" THEN "open" ELSE f : f \in fails \cap {"reopen", "redirect"}}) ELSE rotated
    IN  IF ~ready.ok \/ "write" \in fails THEN Fail(ready.state)
        ELSE [state |-> [ready.state EXCEPT !.file[0] = Append(@, bounded)], ok |-> rotated.ok]

RedirectStderr(s, w, fails) ==
    Then(Then(OpenCurrent(s, w, fails), LAMBDA t : RotateIfNeeded(t, w, 0, fails)),
         LAMBDA t : IF "redirect" \in fails THEN Fail(t)
                    ELSE Done([t EXCEPT !.stderr[w] = 0, !.redirected[w] = TRUE]))

\* newRotatingLogWriter, for a process that had none.
NewWriter(s, w, fails) ==
    LET none == [s EXCEPT !.log[w] = Closed, !.stderr[w] = Closed, !.redirected[w] = FALSE]
    IN  Then(OpenCurrent(none, w, fails), LAMBDA t : RotateIfNeeded(t, w, 0, fails))

\* A panic, or a library, writes to stderr whatever it is open on.
WriteStderr(s, w, record) ==
    IF s.stderr[w] \in Generations THEN [s EXCEPT !.file[s.stderr[w]] = Append(@, record)] ELSE s

-----------------------------------------------------------------------------
Failures == {{}} \cup {{f} : f \in {"open", "stat", "close", "remove", "rename", "rename 1", "open rotated",
                                    "redirect", "write"}}
                 \cup {{f, "reopen"} : f \in {"close", "rename", "open rotated"}}

Record(n, length, managed) == [n |-> n, length |-> length, managed |-> managed, age |-> 0]
Full == [file |-> [g \in Generations |-> <<[Record(Retained - g, MaxBytes, TRUE) EXCEPT !.age = g]>>],
         log |-> <<0, Closed>>, stderr |-> <<0, Closed>>, redirected |-> <<TRUE, FALSE>>]

\* What one more operation, the n-th, makes of a state.
Written(n, s, failures) ==
    {[from |-> s, w |-> w, n |-> n, fails |-> fails, to |-> Write(s, w, Record(n, length, TRUE), fails)] :
        w \in {v \in Writers : v = 1 \/ s.log[2] # Closed}, length \in {1, MaxBytes + 1}, fails \in failures}
Others(n, s, failures) ==
    {RedirectStderr(s, w, fails).state : w \in {v \in Writers : s.log[v] # Closed}, fails \in failures}
      \cup {NewWriter(s, 2, fails).state : fails \in failures}
      \cup {WriteStderr(s, w, Record(n, MaxBytes, FALSE)) : w \in Writers}

Reached[n \in 0..4] ==
    IF n = 0 THEN {Full}
    ELSE LET before == Reached[n - 1]
         IN  UNION {{t.to.state : t \in Written(Retained + n, s, Failures)}
                       \cup Others(Retained + n, s, {{}, {"rename"}}) : s \in before}

Numbers(s, managed) ==
    LET file == FlattenSeq([i \in 1..Retained + 1 |-> s.file[Retained + 1 - i]])
    IN  SelectSeq(file, LAMBDA r : managed => r.managed)
Kept(s) == {r.n : r \in Range(Numbers(s, FALSE))}

(* A record is given up only with the oldest generation, after as many        *)
(* rotations as there are generations, whatever failed in them and whoever    *)
(* began them, and the records of the log stay in the order they were written.*)
RecordsAgeInOrder(n) ==
    \A s \in Reached[n] :
        /\ \A i, j \in DOMAIN Numbers(s, TRUE) : i < j => Numbers(s, TRUE)[i].n < Numbers(s, TRUE)[j].n
        /\ \A t \in Written(Retained + n + 1, s, Failures) :
             \A r \in Range(Numbers(s, FALSE)) : r.n \in Kept(t.to.state) \/ r.age >= Retained

(* A record is in the current file unless that file could not be opened,      *)
(* looked at or written: a failed rotation alone loses none; and after a      *)
(* successful write stderr goes to the current file too (issue 604).          *)
RecordsAreWritten(n) ==
    \A s \in Reached[n] : \A t \in Written(Retained + n + 1, s, Failures) :
        LET end == t.to.state
            last == IF end.file[0] = <<>> THEN 0 ELSE Last(end.file[0]).n
        IN  /\ t.to.ok \/ t.fails \cap {"open", "stat", "reopen", "redirect", "write"} = {} => last = t.n
            /\ t.to.ok /\ end.redirected[t.w] => end.stderr[t.w] = 0

(* Unless a rotation fails or stderr is written directly, no generation grows *)
(* past the cap, even by a record that is longer (issue 563).                 *)
CapHolds ==
    LET Capped(s) == \A g \in Generations : FoldLeft(LAMBDA k, r : k + r.length, 0, s.file[g]) <= MaxBytes
        Writing[n \in 0..5] == IF n = 0 THEN {Full} ELSE UNION {{t.to.state : t \in Written(n, s, {{}})} : s \in Writing[n - 1]}
    IN  \A n \in 0..5 : \A s \in Writing[n] : Capped(s)
=============================================================================
