---------------------------- MODULE ActivityText ----------------------------
(***************************************************************************)
(* The text of an activity on its way to Discord: sanitized, bounded,      *)
(* validated and laid out (internal/terminaltext, and normalizeActivity,   *)
(* validateActivity and newSetActivityPayload of internal/presence).       *)
(*                                                                         *)
(* A raw text is a sequence of characters: "c" is drawn, " " is a space,   *)
(* "br" breaks the line, "inv" is a control or invisible character and     *)
(* "seq" a terminal sequence.  "..." is the one-character ellipsis.        *)
(***************************************************************************)
EXTENDS Naturals, Sequences, FiniteSets
LOCAL INSTANCE SequencesExt

MinText == 2
MaxText == 4        \* 128 in the program
MaxImage == 5       \* 256
MaxLabel == 3       \* 32
MaxButtons == 2

RawCharacters == {"c", " ", "br", "inv", "seq"}
Drawn == {"c", " ", ";", "..."}

-----------------------------------------------------------------------------
(* Sanitizing.                                                               *)

Separator == <<" ", ";", " ">>

\* Sanitize drops what is not drawn.
Sanitize(text) == SelectSeq(text, LAMBDA c : c \in Drawn)

\* SanitizeSingleLine: a run of breaks and spaces with a break in it is one
\* separator, none at either end; what is not drawn goes after that.
RunAt(text, i) == text[i] \in {" ", "br"}
BreaksAround(text, i) ==
    \E j, k \in DOMAIN text : /\ j <= i /\ i <= k
                              /\ \A m \in j..k : RunAt(text, m)
                              /\ \E m \in j..k : text[m] = "br"

SanitizeSingleLine(text) ==
    LET n == Len(text)
        Folded(i) == BreaksAround(text, i)
        Piece(i) == IF ~Folded(i) THEN <<text[i]>>
                    ELSE IF (i > 1 /\ Folded(i - 1)) \/ i = 1 THEN <<>>
                    ELSE IF \A j \in i..n : Folded(j) THEN <<>> ELSE Separator
    IN  Sanitize(FoldLeft(\o, <<>>, [i \in 1..n |-> Piece(i)]))

-----------------------------------------------------------------------------
(* Bounding.                                                                 *)

BoundActivityText(text, min, max) ==
    IF Len(text) \in 1 .. min - 1 THEN <<>>
    ELSE IF Len(text) <= max THEN text
    ELSE SubSeq(text, 1, max - 1) \o <<"...">>

\* activityTextFields: the one list of fields, with their bounds.
Minimum == [name |-> 0, details |-> MinText, state |-> MinText, largeText |-> MinText,
            smallText |-> MinText, largeKey |-> 0, smallKey |-> 0]
Maximum == [f \in DOMAIN Minimum |-> IF f \in {"largeKey", "smallKey"} THEN MaxImage ELSE MaxText]

-----------------------------------------------------------------------------
(* An activity: its text fields, its buttons, and the validity of its URLs,  *)
(* which are refused, never changed.  A button's label is a text.            *)

NormalizeActivity(a) ==
    LET labels == [i \in DOMAIN a.buttons |-> BoundActivityText(SanitizeSingleLine(a.buttons[i]), 1, MaxLabel)]
    IN  [a EXCEPT !.text = [f \in DOMAIN Minimum |->
                               BoundActivityText(SanitizeSingleLine(a.text[f]), Minimum[f], Maximum[f])],
                  !.buttons = SelectSeq(labels, LAMBDA l : l # <<>>)]

\* validateActivity, with ValidateButtons: the reasons to refuse it.
ValidateActivity(a) ==
    {f \in DOMAIN Minimum : Len(a.text[f]) > Maximum[f] \/ Len(a.text[f]) \in 1 .. Minimum[f] - 1}
      \cup (IF a.urlsValid THEN {} ELSE {"url"})
      \cup (IF /\ Len(a.buttons) <= MaxButtons
               /\ \A l \in Range(a.buttons) : Len(l) \in 1..MaxLabel /\ Range(l) \subseteq Drawn
            THEN {} ELSE {"buttons"})

\* newSetActivityPayload: an image is its URL, or else its key; its text goes
\* with the image only.
ImageValue(a, image) ==
    CASE image = "large" -> IF a.largeURL # "" THEN "url" ELSE IF a.text.largeKey # <<>> THEN "key" ELSE ""
      [] image = "small" -> IF a.smallURL # "" THEN "url" ELSE IF a.text.smallKey # <<>> THEN "key" ELSE ""

Payload(a) ==
    [text |-> [f \in DOMAIN Minimum |->
                 CASE f = "largeText" -> IF ImageValue(a, "large") # "" THEN a.text[f] ELSE <<>>
                   [] f = "smallText" -> IF ImageValue(a, "small") # "" THEN a.text[f] ELSE <<>>
                   [] OTHER -> a.text[f]],
     buttons |-> a.buttons,
     assets |-> ImageValue(a, "large") # "" \/ ImageValue(a, "small") # ""]

\* activityButtons: the tool's buttons, then the call to action if there is room.
ActivityButtons(buttons, cta) ==
    LET own == SubSeq(buttons, 1, IF Len(buttons) < MaxButtons THEN Len(buttons) ELSE MaxButtons)
    IN  IF Len(own) < MaxButtons THEN own \o cta ELSE own

\* ActivityFromDetectionWithOmissions reports a field too short to be sent.
Omitted(text) == Len(SanitizeSingleLine(text)) \in 1 .. MinText - 1

-----------------------------------------------------------------------------
Texts(n) == UNION {[1..k -> RawCharacters] : k \in 0..n}

Blank == [text |-> [f \in DOMAIN Minimum |-> <<>>], buttons |-> <<>>, urlsValid |-> TRUE,
          largeURL |-> "", smallURL |-> ""]
With(field, text) == [Blank EXCEPT !.text[field] = text]

(* No text can have an activity refused: whatever a field or a label holds,   *)
(* the normalized activity is valid as long as its URLs are (issue 436).      *)
NormalizedIsValid(n) ==
    /\ \A f \in DOMAIN Minimum, text \in Texts(n) : ValidateActivity(NormalizeActivity(With(f, text))) = {}
    /\ \A own \in UNION {[1..k -> Texts(1) \cup {<<"c", "c", "br", "c">>}] : k \in 0..3},
          cta \in {<<>>} \cup {<<l>> : l \in Texts(1)} :
         ValidateActivity(NormalizeActivity([Blank EXCEPT !.buttons = ActivityButtons(own, cta)])) = {}

(* Nothing invisible is sent, and what is dropped for its length is what the  *)
(* mapping reports, neither more nor less (issue 445).                        *)
OmissionsAreReported(n) ==
    \A f \in {"details", "state", "largeText", "smallText"}, text \in Texts(n) :
        LET sent == NormalizeActivity(With(f, text)).text[f]
        IN  /\ Range(sent) \subseteq Drawn
            /\ Omitted(text) <=> sent = <<>> /\ SanitizeSingleLine(text) # <<>>

(* Words of two lines are never joined, and a text that fits once sanitized   *)
(* is sent whole: bounding comes last (issues 436 and 445).                   *)
LinesStayApart(n) ==
    \A text \in Texts(n) :
        LET line == SanitizeSingleLine(text)
        IN  /\ \A i, j \in DOMAIN text :
                 i < j /\ text[i] = "c" /\ text[j] = "c" /\ (\E k \in i..j : text[k] = "br")
                   => \E k \in DOMAIN line : line[k] = ";"
            /\ Len(line) \in MinText..MaxText => NormalizeActivity(With("details", text)).text.details = line

(* Normalizing twice is normalizing once: the writer may apply an activity it *)
(* already sent.                                                              *)
NormalizingSettles(n) ==
    \A f \in {"name", "details"}, text \in Texts(n) :
        LET once == NormalizeActivity(With(f, text))
        IN  NormalizeActivity(once) = once

(* The text of an image is sent with an image only, and no empty assets.      *)
ImageTextNeedsImage ==
    \A key, label \in {<<>>, <<"c", "c">>}, url \in {"", "u"} :
        LET a == [With("largeText", label) EXCEPT !.text.largeKey = key, !.largeURL = url]
            sent == Payload(NormalizeActivity(a))
        IN  /\ sent.text.largeText # <<>> => sent.assets
            /\ sent.assets <=> key # <<>> \/ url # ""
=============================================================================
