------------------------------ MODULE Execute ------------------------------
(***************************************************************************)
(* user/cmdline.c, execute: a line is cut into arguments where it stands.  *)
(* A pointer p reads each character once; q writes behind it what is left  *)
(* of the argument when quotes and backslashes are gone.  A function of    *)
(* the command gets pointers to the pieces.                                *)
(***************************************************************************)
EXTENDS CmdlineOps

CONSTANT MAXARGV    \* pointers there is room for

ASSUME MaxArgvAssumption == MAXARGV \in Nat /\ MAXARGV > 0

QUOTES == {"\"", "'"}
BACKSLASH == "\\"

-----------------------------------------------------------------------------
(* execute *)

(* The line with the NUL behind it, where the arguments begin, q, the quote
   that is open, and what p is in: blanks, an argument, an argument behind a
   backslash, or what is not looked at any more. *)
Start(s) ==
    [buf |-> Append(s, NUL), argv |-> << >>, q |-> 0, quote |-> NUL, in |-> "blanks"]

Write(st, ch) == [st EXCEPT !.buf[st.q] = ch, !.q = @ + 1]

(* Mutant of Cut: the NUL goes to p only. *)
Cut_at_p(st, p) ==
    [st EXCEPT !.in = IF @ = "argument" /\ st.buf[p] # NUL THEN "blanks" ELSE "rest",
               !.buf[p] = NUL]

(* The argument ends: a NUL at q, and one at p. *)
Cut(st, p) ==
    [st EXCEPT !.in = IF st.buf[p] = NUL THEN "rest" ELSE "blanks",
               !.buf[st.q] = NUL, !.buf[p] = NUL]

InArgument(st, p) ==
    LET ch == st.buf[p]
    IN  CASE ch = NUL -> Cut(st, p)
          [] ch = BLANK /\ st.quote = NUL -> Cut(st, p)
          [] ch \in QUOTES /\ st.quote = NUL -> [st EXCEPT !.quote = ch]
          [] ch \in QUOTES /\ st.quote = ch -> [st EXCEPT !.quote = NUL]
          [] ch = BACKSLASH -> [st EXCEPT !.in = "escaped"]
          [] OTHER -> Write(st, ch)

(* The last pointer there is room for gets the rest of the line as it is. *)
NewArgument(st, p) ==
    LET argv == Append(st.argv, p)
    IN  IF Len(argv) >= MAXARGV THEN [st EXCEPT !.argv = argv, !.in = "rest"]
        ELSE InArgument([st EXCEPT !.argv = argv, !.q = p, !.in = "argument"], p)

Read(st, p) ==
    CASE st.in = "blanks" ->
            IF st.buf[p] = BLANK THEN st
            ELSE IF st.buf[p] = NUL THEN [st EXCEPT !.in = "rest"]
            ELSE NewArgument(st, p)
      [] st.in = "argument" -> InArgument(st, p)
      [] st.in = "escaped" ->
            IF st.buf[p] = NUL THEN Cut(st, p)
            ELSE [Write(st, st.buf[p]) EXCEPT !.in = "argument"]
      [] st.in = "rest" -> st

(* The string that a pointer into the buffer stands for. *)
StringAt(buf, p) == SubSeq(buf, p, Min({k \in p..Len(buf) : buf[k] = NUL}) - 1)

(* The arguments of the command. *)
execute(s) ==
    LET end == FoldLeft(Read, Start(s), [p \in 1..(Len(s) + 1) |-> p])
    IN  [k \in 1..Len(end.argv) |-> StringAt(end.buf, end.argv[k])]

-----------------------------------------------------------------------------
(* What the arguments of a line are, said without a buffer. *)

(* A character behind a backslash that is not itself behind one. *)
Escaped(s) ==
    LET e[k \in 0..Len(s)] == k > 1 /\ s[k - 1] = BACKSLASH /\ ~e[k - 1]
    IN  e

(* The quote that is open behind the first k characters. *)
Open(s) ==
    LET o[k \in 0..Len(s)] ==
            IF k = 0 THEN NUL
            ELSE IF s[k] \notin QUOTES \/ Escaped(s)[k] THEN o[k - 1]
            ELSE CASE o[k - 1] = NUL -> s[k]
                   [] o[k - 1] = s[k] -> NUL
                   [] OTHER -> o[k - 1]
    IN  o

(* Each character parts words, or is text of one, or a mark that only quotes. *)
Kind(s, k) ==
    IF Escaped(s)[k] THEN "text"
    ELSE CASE s[k] = BLANK -> IF Open(s)[k] = NUL THEN "parts" ELSE "text"
           [] s[k] \in QUOTES -> IF Open(s)[k] # Open(s)[k - 1] THEN "mark" ELSE "text"
           [] s[k] = BACKSLASH -> "mark"
           [] OTHER -> "text"

(* Words lie between blanks that part; those that do not fit are one with the
   last that does. *)
Words(s) ==
    LET kind == [k \in 1..Len(s) |-> Kind(s, k)]
        Increasing(S) == InOrder(S, [k \in S |-> k])
        starts == Increasing(
            {k \in 1..Len(s) : kind[k] # "parts" /\ (k = 1 \/ kind[k - 1] = "parts")})
        End(k) == Min({j \in k..Len(s) : kind[j] = "parts"} \cup {Len(s) + 1}) - 1
        Text(i, j) == LET at == Increasing({k \in i..j : kind[k] = "text"})
                      IN  [n \in 1..Len(at) |-> s[at[n]]]
    IN  [n \in 1..Min({Len(starts), MAXARGV}) |->
            IF n = MAXARGV THEN SubSeq(s, starts[n], Len(s))
            ELSE Text(starts[n], End(starts[n]))]

-----------------------------------------------------------------------------
(* Property *)

(* Cutting a line in place gives its words: what is written behind q is never
   read again through p, no quote is open across arguments, and no NUL is cut
   into an argument or left out behind one (execute). *)
LineIsCutIntoWords(s) == execute(s) = Words(s)
=============================================================================
