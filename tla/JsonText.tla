------------------------------ MODULE JsonText ------------------------------
(***************************************************************************)
(* Texts in JSON strings: what platformchannel.c escapes when it writes    *)
(* one, and what Flutter writes into a JSON string and reads out of one.   *)
(* A text is a sequence of characters, a character a string of TLA+; "NL"  *)
(* stands for the control characters that are escaped.                     *)
(***************************************************************************)
EXTENDS Integers, Sequences, SequencesExt, FiniteSetsExt

Quote == "\""
Backslash == "\\"
NeedsEscape == {"NL", Quote, Backslash}

(* The write pass.  A quote is written as the escape of a tab.             *)
Escape(c) ==
    CASE c = "NL" -> <<Backslash, "n">>
      [] c = Quote -> <<Backslash, "t">>
      [] c = Backslash -> <<Backslash, Backslash>>
      [] OTHER -> <<c>>
Escaped(text) == FlattenSeq([i \in 1..Len(text) |-> Escape(text[i])])

(* Flutter.                                                                *)
FlutterEscape(c) ==
    CASE c = "NL" -> <<Backslash, "n">>
      [] c \in {Quote, Backslash} -> <<Backslash, c>>
      [] OTHER -> <<c>>
FlutterWrites(text) == FlattenSeq([i \in 1..Len(text) |-> FlutterEscape(text[i])])

Unescape(acc, c) ==
    IF acc.escaped
    THEN [escaped |-> FALSE,
          text |-> Append(acc.text, CASE c = "n" -> "NL" [] c = "t" -> "TAB" [] OTHER -> c)]
    ELSE IF c = Backslash THEN [acc EXCEPT !.escaped = TRUE]
    ELSE [acc EXCEPT !.text = Append(@, c)]
FlutterUnescapes(chars) ==
    FoldLeft(Unescape, [escaped |-> FALSE, text |-> <<>>], chars).text
=============================================================================
