----------------------------- MODULE MCCmdline -----------------------------
(***************************************************************************)
(* The line editor on a small terminal, and what becomes of lines.  A      *)
(* behaviour edits within a line with all editing keys, or enters lines    *)
(* and recalls them, or types a text that is given to execute, or one that *)
(* is read as a numeral.                                                   *)
(***************************************************************************)
EXTENDS Cmdline, Execute, Numbers

VARIABLES
    doing,
    text    \* what is given to execute or strtol

Editing ==
    {"f", " ", "^@", "^A", "^B", "^D", "^E", "^F", "^H", "^K", "^U", "^W", "^Y", "^X", "ESC"}
Recalling == {"^A", "^H", "^P", "^N", "ENTER"}

(* A letter, the blank, quotes and backslash; and digits, with which both limits
   of an 8-bit long and their neighbours can be written. *)
ForWords == {"f", " ", "\"", "'", "\\"}
ForNumbers == {"0", "1", "2", "7", "8", "f"}

(* Bounds: the length of these texts. *)
WordsLength == 6
NumberLength == 4

MCInit ==
    /\ Init
    /\ doing \in {"editing", "recalling", "words", "numbers"}
    /\ text = << >>

(* A text as long as its bound gives way to the next. *)
Type(chars, length) ==
    /\ \E ch \in chars :
          text' = Append(IF Len(text) < length THEN text ELSE << >>, ch)
    /\ UNCHANGED vars

MCNext ==
    /\ \/ /\ doing = "editing"
          /\ \E key \in Editing \cup PrefixedKeys : Strike(key)
          /\ UNCHANGED text
       \/ /\ doing = "recalling"
          /\ \E key \in Recalling : Strike(key)
          /\ UNCHANGED text
       \/ \* Lines are told apart by their lengths, and only blanks are not kept.
          /\ doing = "recalling"
          /\ \E key \in Char : Range(cmdline.line) \subseteq {key} /\ Strike(key)
          /\ UNCHANGED text
       \/ doing = "words" /\ Type(ForWords, WordsLength)
       \/ doing = "numbers" /\ Type(ForNumbers, NumberLength)
    /\ UNCHANGED doing

MCSpec == MCInit /\ [][MCNext]_<<vars, doing, text>>

-----------------------------------------------------------------------------
(* Properties of texts *)

(* The line in the editor, at any moment, and any text are cut into their words
   (commandline, execute). *)
ArgumentsAreWords == \A line \in {cmdline.line, text} : LineIsCutIntoWords(line)

(* Digits are read for the number they stand for (strtol, which reads the
   arguments of command_d and the timezone). *)
NumbersAreRead ==
    doing = "numbers" =>
        \A base \in {10, 16} : Range(text) \subseteq Range(Numeral(base)) => IsRead(text, base)

(* A number and its negative are printed as what they are (kdoprnt). *)
NumbersArePrinted ==
    doing = "numbers" =>
        \A n \in {Clamped(Magnitude(text)[16]), Clamped(-Magnitude(text)[16])},
           conversion \in {"d", "u", "o", "x"}, lflag \in SUBSET Flags, width \in {0, 5} :
            IsPrinted(n, conversion, lflag, width)
=============================================================================
