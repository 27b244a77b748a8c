----------------------------- MODULE CmdlineOps -----------------------------
(***************************************************************************)
(* user/cmdline.c: the line editor.  A struct cmdline is a record; a       *)
(* function of the editor is an operator that gives the struct it leaves   *)
(* behind.  What cmdputc sends goes to a terminal, kept in the same        *)
(* record, that knows printing characters and the backspace; beeps change  *)
(* nothing and are left out.                                               *)
(*                                                                         *)
(* Positions count from zero, as in the code: the character at position p  *)
(* of a line is its element p + 1.                                         *)
(***************************************************************************)
EXTENDS Integers, SequencesExt

CONSTANTS
    WordChar,   \* characters of words: letters, digits, '_'
    OtherChar,  \* printing characters that are not, the blank among them
    LINESIZE,   \* characters a line and the kill buffer hold
    HISTSIZE    \* characters the history ring holds

Char == WordChar \cup OtherChar

NUL == "NUL"
BLANK == " "
BS == "BS"

(* What the constants must be like: the ring holds two whole lines, 2 * (127 + 1)
   characters in the source. *)
Fits ==
    /\ BLANK \in OtherChar /\ {NUL, BS} \cap Char = {}
    /\ LINESIZE \in Nat /\ LINESIZE > 0
    /\ HISTSIZE \in Nat /\ HISTSIZE >= 2 * (LINESIZE + 1)

ASSUME FitsAssumption == Fits

(* The members of a finite set as a sequence, those with the smaller key first. *)
InOrder(S, key) ==
    [n \in 1..Cardinality(S) |->
        CHOOSE x \in S : Cardinality({y \in S : key[y] < key[x]}) = n - 1]

-----------------------------------------------------------------------------
(* The terminal: the cells behind the prompt, and the cursor. *)

ClearTerminal == [cells |-> << >>, cursor |-> 0]

cmdputc(t, ch) ==
    IF ch = BS
    THEN [t EXCEPT !.cursor = @ - 1]
    ELSE [cells |-> IF t.cursor < Len(t.cells)
                    THEN [t.cells EXCEPT ![t.cursor + 1] = ch]
                    ELSE Append(t.cells, ch),
          cursor |-> t.cursor + 1]

Echo(t, s) == FoldLeft(cmdputc, t, s)

Times(ch, n) == [k \in 1..n |-> ch]

(* f applied n times. *)
Repeat(f(_), c, n) == FoldLeft(LAMBDA x, k : f(x), c, Times(0, n))

-----------------------------------------------------------------------------
(* Editing *)

len(c) == Len(c.line)

(* line[pos .. len - 1]. *)
Rest(c) == SubSeq(c.line, c.pos + 1, len(c))

cmdline_reset(c) ==
    [c EXCEPT !.line = << >>, !.pos = 0, !.mark = 0, !.validmark = FALSE,
              !.prefix = "none", !.histcur = -1, !.term = ClearTerminal]

cmdline_init ==
    [line |-> << >>, pos |-> 0, mark |-> 0, validmark |-> FALSE, prefix |-> "none",
     killbuf |-> << >>, histbuf |-> [i \in 0..(HISTSIZE - 1) |-> NUL], histptr |-> 0,
     histcur |-> 0, hist_pending |-> FALSE, term |-> ClearTerminal]

clearkillbuffer(c) == [c EXCEPT !.killbuf = << >>]

(* Mutant of appendkillbuffer: always at the end. *)
appendkillbuffer_end(kill, ch, append) ==
    IF append = "NOAPPEND" \/ Len(kill) >= LINESIZE THEN kill ELSE Append(kill, ch)

appendkillbuffer(kill, ch, append) ==
    IF append = "NOAPPEND" \/ Len(kill) >= LINESIZE THEN kill
    ELSE IF append = "APPENDTOKILL" THEN Append(kill, ch) ELSE <<ch>> \o kill

(* The character at position p belongs to a word; line[len] is a NUL. *)
InwordAt(c, p) == p < len(c) /\ c.line[p + 1] \in WordChar

setmark(c) == [c EXCEPT !.validmark = TRUE, !.mark = c.pos]

getmark(c) == IF c.mark > len(c) THEN len(c) ELSE c.mark

(* n steps, or as many as there are. *)
forward(c, n) ==
    LET m == Min({n, len(c) - c.pos})
    IN  [c EXCEPT !.pos = @ + m, !.term = Echo(@, SubSeq(c.line, c.pos + 1, c.pos + m))]

backward(c, n) ==
    LET m == Min({n, c.pos})
    IN  [c EXCEPT !.pos = @ - m, !.term = Echo(@, Times(BS, m))]

MoveTo(c, p) == IF p < c.pos THEN backward(c, c.pos - p) ELSE forward(c, p - c.pos)

beginning_of_line(c) == backward(c, c.pos)
end_of_line(c) == forward(c, len(c) - c.pos)

(* Mutants of delete: the last character stays on the terminal; the mark does
   not move with the text. *)
delete_leaves_last(c, append) ==
    IF Rest(c) = << >> THEN c
    ELSE [c EXCEPT
            !.killbuf = appendkillbuffer(@, Head(Rest(c)), append),
            !.line = RemoveAt(@, c.pos + 1),
            !.term = Echo(@, Tail(Rest(c)) \o Times(BS, Len(Rest(c)) - 1)),
            !.mark = IF c.pos < @ THEN @ - 1 ELSE @]
delete_keeps_mark(c, append) ==
    IF Rest(c) = << >> THEN c
    ELSE [c EXCEPT
            !.killbuf = appendkillbuffer(@, Head(Rest(c)), append),
            !.line = RemoveAt(@, c.pos + 1),
            !.term = Echo(@, Tail(Rest(c)) \o <<BLANK>> \o Times(BS, Len(Rest(c))))]

(* The character at the cursor goes; the terminal gets what was behind it, a
   blank, and as many backspaces. *)
delete(c, append) ==
    IF Rest(c) = << >> THEN c
    ELSE [c EXCEPT
            !.killbuf = appendkillbuffer(@, Head(Rest(c)), append),
            !.line = RemoveAt(@, c.pos + 1),
            !.term = Echo(@, Tail(Rest(c)) \o <<BLANK>> \o Times(BS, Len(Rest(c)))),
            !.mark = IF c.pos < @ THEN @ - 1 ELSE @]

backspace(c, append) == IF c.pos = 0 THEN c ELSE delete(backward(c, 1), append)

(* Mutant of insert: no limit. *)
insert_unbounded(c, ch) ==
    [c EXCEPT !.line = InsertAt(@, c.pos + 1, ch),
              !.term = Echo(@, <<ch>> \o Rest(c) \o Times(BS, Len(Rest(c)))),
              !.pos = @ + 1,
              !.mark = IF @ > c.pos + 1 THEN @ + 1 ELSE @]

insert(c, ch) ==
    IF len(c) >= LINESIZE THEN c
    ELSE [c EXCEPT !.line = InsertAt(@, c.pos + 1, ch),
                   !.term = Echo(@, <<ch>> \o Rest(c) \o Times(BS, Len(Rest(c)))),
                   !.pos = @ + 1,
                   !.mark = IF @ > c.pos + 1 THEN @ + 1 ELSE @]

insertstr(c, s) == FoldLeft(insert, c, s)

(* The nearest position in S from p on, and the nearest before p, or the end of
   the line. *)
NextIn(c, S, p) == Min({q \in S : q >= p} \cup {len(c)})
AfterLastIn(S, p) == Max({q + 1 : q \in {r \in S : r < p}} \cup {0})

In(c) == {p \in 0..len(c) : InwordAt(c, p)}
Out(c) == (0..len(c)) \ In(c)

(* To the beginning of the next word, of this or the last one; past the end of
   this or the next word. *)
forward_word(c) == MoveTo(c, NextIn(c, In(c), NextIn(c, Out(c), c.pos)))
backward_word(c) ==
    IF c.pos = 0 THEN c
    ELSE MoveTo(c, AfterLastIn(Out(c), AfterLastIn(In(c), c.pos)))

delete_word(c) ==
    LET end == NextIn(c, Out(c), NextIn(c, In(c), c.pos))
    IN  IF c.pos >= len(c) THEN c
        ELSE Repeat(LAMBDA x : delete(x, "APPENDTOKILL"), clearkillbuffer(c), end - c.pos)

backward_delete_word(c) ==
    LET start == AfterLastIn(Out(c), AfterLastIn(In(c), c.pos))
    IN  IF c.pos = 0 THEN c
        ELSE Repeat(LAMBDA x : backspace(x, "APPENDTOKILLREV"), clearkillbuffer(c),
                    c.pos - start)

killregion(c) ==
    LET r == getmark(c) - c.pos
    IN  IF ~c.validmark THEN c
        ELSE IF r < 0
        THEN Repeat(LAMBDA x : backspace(x, "APPENDTOKILLREV"), clearkillbuffer(c), -r)
        ELSE Repeat(LAMBDA x : delete(x, "APPENDTOKILL"), clearkillbuffer(c), r)

swapmark(c) == IF ~c.validmark THEN c ELSE MoveTo(setmark(c), getmark(c))

killtoend(c) ==
    IF c.pos >= len(c) THEN c
    ELSE Repeat(LAMBDA x : delete(x, "APPENDTOKILL"), clearkillbuffer(c), len(c) - c.pos)

(* Mutant of killline: what is behind the cursor stays. *)
killline_from_cursor(c, cut) ==
    IF len(c) = 0 THEN c
    ELSE Repeat(LAMBDA x : backspace(x, IF cut THEN "APPENDTOKILLREV" ELSE "NOAPPEND"),
                IF cut THEN clearkillbuffer(c) ELSE c, len(c))

killline(c, cut) ==
    IF len(c) = 0 THEN c
    ELSE Repeat(LAMBDA x : backspace(x, IF cut THEN "APPENDTOKILLREV" ELSE "NOAPPEND"),
                end_of_line(IF cut THEN clearkillbuffer(c) ELSE c), len(c))

yank(c) == insertstr(c, c.killbuf)

-----------------------------------------------------------------------------
(* The history: a ring of lines, each with a NUL behind it *)

HistIndex == 0..(HISTSIZE - 1)

HISTPTR_FORWARD(i) == IF i >= HISTSIZE - 1 THEN 0 ELSE i + 1
HISTPTR_BACKWARD(i) == IF i = 0 THEN HISTSIZE - 1 ELSE i - 1

Around(i, n) == (i + n) % HISTSIZE

(* Steps from i to the nearest NUL, forward and backward. *)
ToNul(buf, i) == Min({n \in HistIndex : buf[Around(i, n)] = NUL})
BackToNul(buf, i) == Min({n \in HistIndex : buf[Around(i, HISTSIZE - n)] = NUL})

(* Where the line begins that ends before the NUL before i. *)
LineBefore(buf, i) ==
    LET last == HISTPTR_BACKWARD(HISTPTR_BACKWARD(i))
    IN  HISTPTR_FORWARD(Around(last, HISTSIZE - BackToNul(buf, last)))

allspace(s) == \A i \in 1..Len(s) : s[i] = BLANK

(* Mutant of addhist: the rest of the oldest line is left. *)
addhist_leaves_oldest(c, s) ==
    LET start == IF c.hist_pending THEN LineBefore(c.histbuf, c.histptr) ELSE c.histptr
        end == Around(start, Len(s))
        written == [i \in HistIndex |-> IF Around(i, HISTSIZE - start) < Len(s)
                                        THEN s[Around(i, HISTSIZE - start) + 1]
                                        ELSE c.histbuf[i]]
        d == [c EXCEPT !.histptr = start, !.hist_pending = FALSE]
    IN  IF allspace(s) THEN d
        ELSE [d EXCEPT !.histbuf = [written EXCEPT ![end] = NUL],
                       !.histptr = HISTPTR_FORWARD(end),
                       !.histcur = -1]

(* A line is written over the oldest ones, and what is left of the last of them
   is deleted.  A pending line is taken back first. *)
addhist(c, s) ==
    LET start == IF c.hist_pending THEN LineBefore(c.histbuf, c.histptr) ELSE c.histptr
        end == Around(start, Len(s))
        written == [i \in HistIndex |-> IF Around(i, HISTSIZE - start) < Len(s)
                                        THEN s[Around(i, HISTSIZE - start) + 1]
                                        ELSE c.histbuf[i]]
        oldest == {Around(end, n) : n \in 0..ToNul(written, end)}
        d == [c EXCEPT !.histptr = start, !.hist_pending = FALSE]
    IN  IF allspace(s) THEN d
        ELSE [d EXCEPT !.histbuf = [i \in HistIndex |->
                                        IF i \in oldest THEN NUL ELSE written[i]],
                       !.histptr = HISTPTR_FORWARD(end),
                       !.histcur = -1]

(* The index that fetch_from_history reads n steps after i: it turns round one
   short of the end of the ring. *)
FetchIndex(i, n) ==
    IF n = 0 THEN i
    ELSE IF i = HISTSIZE - 1 THEN (n - 1) % (HISTSIZE - 1)
    ELSE (i + n) % (HISTSIZE - 1)

fetch_from_history(c) ==
    LET At(n) == c.histbuf[FetchIndex(c.histcur, n)]
        n == Min({m \in 0..HISTSIZE : At(m) = NUL})
    IN  insertstr(c, [k \in 1..n |-> At(k - 1)])

Recall(c, start) == fetch_from_history(killline([c EXCEPT !.histcur = start], FALSE))

(* The line that prevhist leaves is kept as the newest, pending. *)
Leave(c) ==
    IF c.histcur >= 0 THEN c
    ELSE IF allspace(c.line) THEN [c EXCEPT !.histcur = c.histptr]
    ELSE [addhist(c, c.line) EXCEPT !.hist_pending = TRUE, !.histcur = c.histptr]

prevhist(c) ==
    LET d == Leave(c)
    IN  IF c.histptr = c.histcur THEN c
        ELSE IF d.histbuf[HISTPTR_BACKWARD(HISTPTR_BACKWARD(d.histcur))] = NUL THEN d
        ELSE Recall(d, LineBefore(d.histbuf, d.histcur))

nexthist(c) ==
    LET next == Around(c.histcur, ToNul(c.histbuf, c.histcur) + 1)
    IN  IF c.histcur < 0 \/ next = c.histptr THEN c ELSE Recall(c, next)
=============================================================================
