-------------------------------- MODULE Screen --------------------------------
(***************************************************************************)
(* The console in the browser: screen_poll reads the text screen once a    *)
(* second, appends the lines it takes for new to ScreenHistory and sends   *)
(* them to the viewers; /sniffbox/screen shows the history.                *)
(***************************************************************************)
EXTENDS Naturals, SequencesExt

CONSTANTS Texts,      \* what a line of the console may hold; "" is a blank one
          Rows,       \* the rows of the screen
          HistoryCap, \* ScreenHistory::cap
          ViewWindow, \* IDLE_WINDOW, in polls
          MaxPrints

\* What is kept is more than what a screen shows (5000 lines, and at most 255 rows).
ASSUME ScreenConstants == Rows \in Nat \ {0} /\ HistoryCap \in Nat /\ Rows < HistoryCap

VARIABLES console,    \* the rows from the first that was written on
          seen,       \* prev_lines
          history,    \* ScreenHistory::lines
          viewers,    \* ScreenHistory::subscriber_count
          quiet,      \* the IdleGate
          prints

screenVars == <<console, seen, history, viewers, quiet, prints>>

ScreenInit == /\ console = <<>> /\ seen = <<>> /\ history = <<>>
              /\ viewers = 0 /\ quiet = 0 /\ prints = 0

\* Something prints a line, and the screen scrolls when it is full.
Prints == /\ prints < MaxPrints
          /\ \E t \in Texts : LET rows == Append(console, t) IN
               console' = IF Len(rows) > Rows THEN Tail(rows) ELSE rows
          /\ prints' = prints + 1
          /\ UNCHANGED <<seen, history, viewers, quiet>>

Views == viewers' = 1 - viewers /\ UNCHANGED <<console, seen, history, quiet, prints>>

Ending(s, n) == SubSeq(s, Len(s) - n + 1, Len(s))

\* read_screen, render_colored and render_plain: a newline ends every row, the
\* blank rows at the bottom leave one, and split('\n') then finds a last line
\* that is empty.
Rendered ==
    LET written == {i \in DOMAIN console : console[i] # ""}
        rows == IF written = {} THEN <<"">>
                ELSE SubSeq(console, 1, CHOOSE i \in written : \A j \in written : j <= i)
    IN Append(rows, "")

\* diff_new_lines: the lines after the longest end of `old` that `new` begins
\* with.
DiffByShift(old, new) ==
    LET fits == {k \in 0..Len(old) : IsPrefix(Ending(old, k), new)}
        most == CHOOSE k \in fits : \A j \in fits : j <= k
    IN SubSeq(new, Len(old) - most + 1, Len(new))
DiffNewLines(old, new) ==
    LET fits == {k \in 0..Len(old) : IsPrefix(Ending(old, k), new)}
        most == CHOOSE k \in fits : \A j \in fits : j <= k
    IN SubSeq(new, most + 1, Len(new))

\* push_lines
Pushed(lines) == LET all == history \o lines IN
                 IF Len(all) > HistoryCap THEN Ending(all, HistoryCap) ELSE all

\* One turn of screen_poll::run.
Polls == /\ quiet' = IF viewers > 0 THEN 0 ELSE IF quiet > ViewWindow THEN quiet ELSE quiet + 1
         /\ IF quiet' > ViewWindow THEN UNCHANGED <<history, seen>>
            ELSE history' = Pushed(DiffNewLines(seen, Rendered)) /\ seen' = Rendered
         /\ UNCHANGED <<console, viewers, prints>>

ScreenNext == Prints \/ Views \/ Polls
ScreenSpec == ScreenInit /\ [][ScreenNext]_screenVars /\ WF_screenVars(Polls)

-----------------------------------------------------------------------------
(* Properties *)

\* However the screen scrolled, was overwritten or went unread, the history
\* ends with the screen as it was last read: no line of it is missing and none
\* is out of place.
EndsWithScreen == IsSuffix(seen, history)

=============================================================================
