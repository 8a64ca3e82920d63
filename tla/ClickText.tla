----------------------------- MODULE ClickText -----------------------------
(***************************************************************************)
(* What a click on a tmux pane means (click.rs, resolve): tmux tells where *)
(* the click was and the row that was there; three captures of the screen  *)
(* are then taken, one of them with wrapped rows joined, to find the whole *)
(* logical line the row belongs to.  The screen scrolls and is redrawn     *)
(* meanwhile.                                                              *)
(*                                                                         *)
(* Text is a sequence of cells, and a link is a run of cells without a     *)
(* blank: which runs are links, and of what kind, is left out.             *)
(***************************************************************************)
EXTENDS Naturals, Sequences, FiniteSets, SequencesExt

CONSTANTS
  Width, Height,   \* of the pane
  Cells, Blank,    \* what a cell shows; a blank
  Texts,           \* what programs print: sequences of logical lines
  MaxChanges       \* bound on what the screen does during one click

ASSUME TextAssumption ==
  /\ Width \in Nat \ {0} /\ Height \in Nat \ {0} /\ MaxChanges \in Nat
  /\ Blank \in Cells /\ \A t \in Texts : t \in Seq(Seq(Cells))

VARIABLES
  text,      \* the logical lines
  top,       \* rows that have scrolled off the screen
  past,      \* captures of what is no longer on the screen
  changes,   \* how often the screen has changed since the click
  reader,    \* where the click handler stands
  click,     \* the row, the column and the row's text as tmux reports them
  physical,  \* the first capture
  joined,    \* the second capture
  answer     \* the run of cells the click resolves to

textVars == <<text, top, past, changes, reader, click, physical, joined, answer>>

-----------------------------------------------------------------------------
(* tmux: the screen and its two representations.                           *)

None == <<>>
Trim(s) == LET used == {i \in 1..Len(s) : s[i] # Blank}
           IN SubSeq(s, 1, IF used = {} THEN 0 ELSE CHOOSE i \in used : \A j \in used : j <= i)
Wrapped(i, line) ==
  [r \in 1..(IF line = <<>> THEN 1 ELSE (Len(line) + Width - 1) \div Width) |->
     [line |-> i, at |-> (r - 1) * Width,
      cells |-> SubSeq(line, (r - 1) * Width + 1, IF r * Width < Len(line) THEN r * Width ELSE Len(line))]]
Rows(t) == FlattenSeq([i \in DOMAIN t |-> Wrapped(i, t[i])])
Screen(t, n) ==     \* below the text the screen is empty
  [y \in 1..Height |-> IF n + y <= Len(Rows(t)) THEN Rows(t)[n + y]
                       ELSE [line |-> Len(t) + n + y, at |-> 0, cells |-> <<>>]]
Capture(t, n) == [y \in 1..Height |-> Trim(Screen(t, n)[y].cells)]
(* With -J the rows of a line are joined, trailing blanks kept.            *)
Starts(s) == {y \in 1..Height : y = 1 \/ s[y].line # s[y - 1].line}
Start(s, k) == CHOOSE y \in Starts(s) : Cardinality({z \in Starts(s) : z <= y}) = k
End(s, y) == CHOOSE z \in y..Height : /\ s[z].line = s[y].line
                                      /\ z = Height \/ s[z + 1].line # s[y].line
OnScreen(t, s, y) == IF s[y].cells = <<>> THEN <<>>     \* of the line that begins at y
                     ELSE SubSeq(t[s[y].line], s[y].at + 1, s[End(s, y)].at + Len(s[End(s, y)].cells))
CaptureJoined(t, n) ==
  LET s == Screen(t, n) IN [k \in 1..Cardinality(Starts(s)) |-> OnScreen(t, s, Start(s, k))]

Shows(t, n) ==
  /\ changes < MaxChanges /\ changes' = changes + 1
  /\ n < Len(Rows(t)) /\ text' = t /\ top' = n
  /\ past' = IF Capture(t, n) = Capture(text, top) THEN past ELSE past \cup {Capture(text, top)}
  /\ UNCHANGED <<reader, click, physical, joined, answer>>
Scroll == Shows(text, top + 1)
Redraw == \E t \in Texts \ {text} : Shows(t, top)

-----------------------------------------------------------------------------
(* The click handler.                                                      *)

(* from_line: the run of cells under the click.                            *)
RunAt(s, x) ==
  IF x < 1 \/ x > Len(s) THEN None
  ELSE IF s[x] = Blank THEN None
  ELSE LET from == CHOOSE i \in 1..x : /\ \A j \in i..x : s[j] # Blank
                                       /\ i = 1 \/ s[i - 1] = Blank
           to == CHOOSE i \in x..Len(s) : /\ \A j \in x..i : s[j] # Blank
                                          /\ i = Len(s) \/ s[i + 1] = Blank
       IN SubSeq(s, from, to)

(* click_row: the row reported, or the only one with the same text.        *)
ClickRow ==
  LET same == {y \in DOMAIN physical : physical[y] = click.row} IN
  IF click.y \in same THEN {click.y} ELSE IF Cardinality(same) = 1 THEN same ELSE {}

(* from_joined_capture: rows are matched with the lines they begin.        *)
Place == [line : Nat \ {0}, y : Nat \ {0}, used : Nat, matched : BOOLEAN]
Fresh(line, y) == [line |-> line, y |-> y, used |-> 0, matched |-> FALSE]
Partway(line, y, used) == [line |-> line, y |-> y, used |-> used, matched |-> TRUE]
Match(rows, lines, row, x) ==
  LET from[p \in Place] ==
        IF p.line > Len(lines) \/ p.y > Len(rows) THEN None
        ELSE LET part == rows[p.y]
                 line == lines[p.line]
                 fits == IsPrefix(part, SubSeq(line, p.used + 1, Len(line)))
                 whole == RunAt(line, x + p.used)
             IN IF fits
                THEN IF p.y = row THEN IF whole # None THEN whole ELSE RunAt(part, x)
                     ELSE IF p.used + Len(part) >= Len(line) THEN from[Fresh(p.line + 1, p.y + 1)]
                     ELSE from[Partway(p.line, p.y + 1, p.used + Len(part))]
                ELSE IF p.matched THEN from[Fresh(p.line + 1, p.y)]
                ELSE IF p.y = row THEN RunAt(part, x)
                ELSE from[Fresh(p.line + 1, p.y + 1)]
  IN from[Fresh(1, 1)]

(* Without a capture, tmux's own copy of the row has to do.                *)
FromRow == RunAt(click.row, click.x)

(* Is all of the run around a cell of a line on the screen?                *)
Visible(t, n, line, x) ==
  \A i \in 1..Len(t[line]) : (\A j \in (i..x) \cup (x..i) : t[line][j] # Blank) =>
    \E y \in 1..Height : LET s == Screen(t, n)[y]
                         IN s.line = line /\ i \in s.at + 1..s.at + Len(s.cells)

Reads(from, to) == reader = from /\ reader' = to
Still == UNCHANGED <<text, top, past, changes>>
Press ==
  /\ Reads("idle", "first") /\ Still /\ UNCHANGED <<physical, joined, answer>>
  /\ \E y \in 1..Height : \E x \in 1..Width :
       LET s == Screen(text, top)[y] IN
       /\ x <= Len(s.cells) /\ s.cells[x] # Blank
       /\ click' = [y |-> y, x |-> x, row |-> Trim(s.cells), meant |-> RunAt(text[s.line], s.at + x),
                    whole |-> Visible(text, top, s.line, s.at + x)]
FirstCapture ==
  /\ \/ Reads("first", "second") /\ physical' = Capture(text, top) /\ UNCHANGED answer
     \/ Reads("first", "resolved") /\ answer' = FromRow /\ UNCHANGED physical
  /\ Still /\ UNCHANGED <<click, joined>>
SecondCapture ==
  /\ \/ Reads("second", "third") /\ joined' = CaptureJoined(text, top) /\ UNCHANGED answer
     \/ Reads("second", "resolved") /\ answer' = FromRow /\ UNCHANGED joined
  /\ Still /\ UNCHANGED <<click, physical>>
(* fault: the screen is not looked at a second time                        *)
SteadyAlways(now) == TRUE
Steady(now) == now = physical
ThirdCapture ==
  /\ Reads("third", "resolved") /\ Still /\ UNCHANGED <<click, physical, joined>>
  /\ \/ answer' = None            \* the capture fails
     \/ /\ ~Steady(Capture(text, top)) /\ answer' = None
     \/ /\ Steady(Capture(text, top))
        /\ answer' = IF ClickRow = {} THEN FromRow
                     ELSE LET found == Match(physical, joined, CHOOSE y \in ClickRow : TRUE, click.x)
                          IN IF found = None THEN FromRow ELSE found

NoClick == [y |-> 0, x |-> 0, row |-> <<>>, meant |-> None, whole |-> FALSE]
TextInit ==
  /\ text \in Texts /\ top \in 0..Len(Rows(text)) - 1 /\ past = {} /\ changes = 0
  /\ reader = "idle" /\ click = NoClick /\ physical = <<>> /\ joined = <<>> /\ answer = None
ReaderStep == Press \/ FirstCapture \/ SecondCapture \/ ThirdCapture

-----------------------------------------------------------------------------
(* Whatever the screen does between the click and the captures, the answer *)
(* is the link that was clicked or a piece of it, never the text of        *)
(* another; it is the whole link if the screen did not move and showed     *)
(* all of it (from_capture, click_row, from_joined_capture: "opening the   *)
(* wrong file is worse than asking the user to click again").  Once the    *)
(* screen has changed, equal rows of different links cannot be told apart, *)
(* nor a screen that never moved from one that moved and came back.        *)
Pieces(run) == {SubSeq(run, i, j) : i, j \in 1..Len(run)}
Twins == \E t \in Texts : \E r \in Range(Rows(t)) :
           Trim(r.cells) = click.row /\ RunAt(t[r.line], r.at + click.x) # click.meant
CameBack == physical \in past /\ physical = Capture(text, top)
RightText ==
  reader = "resolved" /\ answer # None =>
    /\ changes = 0 \/ ~(Twins \/ CameBack) => answer \in Pieces(click.meant)
    /\ changes = 0 /\ click.whole /\ joined # <<>> => answer = click.meant

(* It takes that no row ends in blanks, which the captures disagree about. *)
Unpadded(texts) == \A t \in texts : \A r \in Range(Rows(t)) : Trim(r.cells) = r.cells
=============================================================================
