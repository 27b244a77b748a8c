------------------------------ MODULE Cmdline ------------------------------
(***************************************************************************)
(* The line editor at work: the keys that reach cmdline_input one by one,  *)
(* and the commands that commandline takes from it.                        *)
(***************************************************************************)
EXTENDS CmdlineOps

CONSTANTS
    Keys,           \* keys struck
    PrefixedKeys    \* keys struck after ESC or ^X

VARIABLES
    cmdline,        \* the struct cmdline
    kept            \* the last lines put into the history, oldest first

vars == <<cmdline, kept>>

(* No more lines than these can be in the ring. *)
MaxKept == HISTSIZE \div 2

Newest(s) == SubSeq(s, Max({1, Len(s) - MaxKept + 1}), Len(s))

-----------------------------------------------------------------------------

Init ==
    /\ cmdline = cmdline_reset(cmdline_init)
    /\ kept = << >>

(* cmdline_input and commandline, for the keys that leave a command: the line
   goes to the history, is executed, and a new one begins. *)
Enter ==
    /\ cmdline' = cmdline_reset(addhist(cmdline, cmdline.line))
    /\ LET others == IF cmdline.hist_pending THEN Front(kept) ELSE kept
       IN  kept' = IF allspace(cmdline.line) THEN others
                   ELSE Newest(Append(others, cmdline.line))

(* What a key does to the struct. *)
Plain(c, key) ==
    CASE key = "ESC" -> [c EXCEPT !.prefix = "esc"]
      [] key = "^X" -> [c EXCEPT !.prefix = "cex"]
      [] key = "^@" -> setmark(c)
      [] key = "^A" -> beginning_of_line(c)
      [] key = "^B" -> backward(c, 1)
      [] key = "^D" -> delete(c, "NOAPPEND")
      [] key = "^E" -> end_of_line(c)
      [] key = "^F" -> forward(c, 1)
      [] key = "^H" -> backspace(c, "NOAPPEND")
      [] key = "^K" -> killtoend(c)
      [] key = "^N" -> nexthist(c)
      [] key = "^P" -> prevhist(c)
      [] key = "^U" -> killline(c, TRUE)
      [] key = "^W" -> killregion(c)
      [] key = "^Y" -> yank(c)
      [] OTHER -> IF key \in Char THEN insert(c, key) ELSE c

Prefixed(c, key) ==
    CASE c.prefix = "cex" /\ key = "^X" -> swapmark(c)
      [] c.prefix = "esc" /\ key = "f" -> forward_word(c)
      [] c.prefix = "esc" /\ key = "b" -> backward_word(c)
      [] c.prefix = "esc" /\ key = "d" -> delete_word(c)
      [] c.prefix = "esc" /\ key = "^H" -> backward_delete_word(c)
      [] OTHER -> c

(* A key while a line is edited. *)
Edit(key) ==
    /\ cmdline' = IF cmdline.prefix = "none" THEN Plain(cmdline, key)
                  ELSE [Prefixed(cmdline, key) EXCEPT !.prefix = "none"]
    /\ kept' = IF cmdline'.hist_pending /\ ~cmdline.hist_pending
               THEN Newest(Append(kept, cmdline.line)) ELSE kept

(* One key, struck plainly or behind a prefix. *)
Strike(key) ==
    \/ cmdline.prefix = "none" /\ key \in Keys \ {"ENTER"} /\ Edit(key)
    \/ cmdline.prefix = "none" /\ key \in Keys \cap {"ENTER"} /\ Enter
    \/ cmdline.prefix # "none" /\ key \in PrefixedKeys /\ Edit(key)

cmdline_input == \E key \in Keys \cup PrefixedKeys : Strike(key)

Spec == Init /\ [][cmdline_input]_vars

-----------------------------------------------------------------------------
(* Properties *)

(* Line and kill buffer stay within their LINESIZE characters, the positions
   within the line, and the history's indices within the ring. *)
TypeOK ==
    /\ cmdline.line \in Seq(Char) /\ len(cmdline) <= LINESIZE
    /\ cmdline.killbuf \in Seq(Char) /\ Len(cmdline.killbuf) <= LINESIZE
    /\ cmdline.pos \in 0..len(cmdline)
    /\ cmdline.histbuf \in [HistIndex -> Char \cup {NUL}]
    /\ cmdline.histptr \in HistIndex
    /\ cmdline.histcur \in HistIndex \cup {-1}
    /\ cmdline.prefix \in {"none", "esc", "cex"}

(* The editor never redraws: it sends the characters that change, a blank over
   the last one, and backspaces.  After every key the terminal shows the line
   and nothing else, with the cursor where the next character goes. *)
ScreenShowsLine ==
    /\ cmdline.term.cursor = cmdline.pos
    /\ SubSeq(cmdline.term.cells, 1, len(cmdline)) = cmdline.line
    /\ allspace(SubSeq(cmdline.term.cells, len(cmdline) + 1, Len(cmdline.term.cells)))

(* The mark follows the text that is deleted before it, by whichever key: it
   never lies behind the end of the line (getmark's clamp has nothing to do). *)
MarkInLine == cmdline.mark \in 0..len(cmdline)

(* killregion, killtoend, killline and the two word deletions work forward or
   backward a character at a time: what any of them takes away, yank puts back
   as it was. *)
KillIsYankable ==
    [][Len(cmdline'.line) < len(cmdline)
       /\ cmdline'.killbuf # << >> /\ cmdline'.killbuf # cmdline.killbuf
       => yank(cmdline').line = cmdline.line]_vars

(* The lines in the ring, from histptr round. *)
LineAt(buf, i) == [k \in 1..ToNul(buf, i) |-> buf[Around(i, k - 1)]]
LineStarts(buf) ==
    {i \in HistIndex : buf[i] # NUL /\ buf[HISTPTR_BACKWARD(i)] = NUL}
InRing(c, S) ==
    LET starts == InOrder(S, [i \in S |-> Around(i, HISTSIZE - c.histptr)])
    IN  [k \in 1..Len(starts) |-> LineAt(c.histbuf, starts[k])]

(* Lines overwrite the oldest ones in a ring without an index, pending lines
   are put in and taken back, and only NULs tell lines apart: behind histptr
   the ring always holds the newest lines, whole, in order, and at least the
   last of them.  (A line at histptr itself is the oldest, or one taken back.) *)
RingIsHistory ==
    LET lines == InRing(cmdline, LineStarts(cmdline.histbuf) \ {cmdline.histptr})
    IN  /\ IsSuffix(lines, kept)
        /\ kept # << >> => lines # << >>

(* A line comes back from the ring. *)
Recalls ==
    /\ cmdline'.histcur \notin {-1, cmdline.histcur}
    /\ cmdline'.line \notin {<< >>, cmdline.line}

(* ^P and ^N delete what is on the line, wherever the cursor is, and insert a
   line of the ring a character at a time: away from the last element of the
   ring the line is then the one at histcur, nothing of the old one left. *)
ShowsRecalled ==
    LET buf == cmdline'.histbuf
        cur == cmdline'.histcur
    IN  Recalls /\ HISTSIZE - 1 \notin {Around(cur, n) : n \in 0..ToNul(buf, cur)}
        => cmdline'.line = LineAt(buf, cur)

RecallsTheLine == [][ShowsRecalled]_vars

(* "delete oldest history" (cmdline.c:536): only the oldest lines are given up,
   so what ^P or ^N brings back is a whole line of the ring, wherever it is. *)
RecallsALine ==
    [][Recalls => \E i \in LineStarts(cmdline'.histbuf) :
                        cmdline'.line = LineAt(cmdline'.histbuf, i)]_vars
=============================================================================
