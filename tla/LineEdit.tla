------------------------------ MODULE LineEdit ------------------------------
(***************************************************************************)
(* Line editing: linenoise (src/linenoise/linenoise.c) driven one byte at  *)
(* a time by the sessions of src/hal/hal.c and kernel/linenoise.py.  Each  *)
(* shell has a session of its own; the history belongs to all of them.     *)
(*                                                                         *)
(* Text is a sequence of one-byte characters.  A session is fed ONE byte   *)
(* per call and read() returns 0 for the bytes that linenoise asks for     *)
(* beyond it, so the rest of an escape sequence is an uninitialised array: *)
(* what ESC does is a choice among all the sequences that are recognised.  *)
(***************************************************************************)
EXTENDS Integers, Sequences, SequencesExt, FiniteSetsExt

CONSTANTS Slots,        \* LN_MAX_SESSIONS
          BufLen,       \* LN_BUF_SIZE - 1, what linenoiseEditStart leaves of the buffer
          MaxHistory    \* history_max_len

Space == " "
Chars == {"a", Space}
Text == BoundedSeq(Chars, BufLen)

VARIABLES session,      \* ln_sessions: in_use, buf, pos, history_index, completion_idx; whether
                        \* len and pos are past the buffer; draft (history)
          history,      \* the lines, and which of them a shell has added (history)
          lost          \* a freed entry was a line, or was not there (history)

vars == <<session, history, lost>>

Closed == [in_use |-> FALSE, buf |-> <<>>, pos |-> 0, index |-> 0, comp |-> -1, over |-> FALSE,
           draft |-> <<>>]

TypeOK ==
    /\ session \in [1 .. Slots -> [in_use : BOOLEAN, buf : Text, pos : 0 .. BufLen,
                                   index : 0 .. MaxHistory, comp : -1 .. 0, over : BOOLEAN,
                                   draft : Text]]
    /\ \A i \in DOMAIN history : history[i] \in [text : Text, line : BOOLEAN]
    /\ lost \in BOOLEAN

Init == /\ session = [s \in 1 .. Slots |-> Closed]
        /\ history = <<>>
        /\ lost = FALSE

-----------------------------------------------------------------------------
(* The history *)

\* linenoiseHistoryAdd: not the latest line again; a full history forgets its oldest.
HistoryAdd(h, text, line) ==
    IF h # <<>> /\ Last(h).text = text THEN h
    ELSE (IF Len(h) = MaxHistory THEN Tail(h) ELSE h) \o <<[text |-> text, line |-> line]>>

\* "history_len--; free(history[history_len])".
Pop(h) == IF h = <<>> THEN h ELSE Front(h)
PopLoses(h) == h = <<>> \/ (Last(h).line /\ Last(h).text # <<>>)

\* Shell._history_add: blank lines are not kept.
HistoryAddLine(h, text) ==
    IF \A i \in DOMAIN text : text[i] = Space THEN h ELSE HistoryAdd(h, text, TRUE)

-----------------------------------------------------------------------------
(* What the keys do to a line *)

Insert(l, c) ==
    IF Len(l.buf) + 1 <= BufLen THEN [l EXCEPT !.buf = InsertAt(@, l.pos + 1, c), !.pos = @ + 1]
    ELSE l

MoveLeft(l) == [l EXCEPT !.pos = IF @ > 0 THEN @ - 1 ELSE @]
MoveRight(l) == [l EXCEPT !.pos = IF @ # Len(l.buf) THEN @ + 1 ELSE @]
MoveHome(l) == [l EXCEPT !.pos = 0]
MoveEnd(l) == [l EXCEPT !.pos = Len(l.buf)]

Delete(l) == IF l.pos < Len(l.buf) THEN [l EXCEPT !.buf = RemoveAt(@, l.pos + 1)] ELSE l

\* linenoiseEditBackspace, mutated to leave the cursor where it was.
BackspaceStays(l) == IF l.pos > 0 THEN [l EXCEPT !.buf = RemoveAt(@, l.pos)] ELSE l
Backspace(l) == IF l.pos > 0 THEN [l EXCEPT !.buf = RemoveAt(@, l.pos), !.pos = @ - 1] ELSE l

\* Back over the run of characters of one kind that ends before p.
Skip(buf, p, kind) == Min({q \in 0 .. p : \A i \in q + 1 .. p : buf[i] \in kind})

DeletePrevWord(l) ==
    LET start == Skip(l.buf, Skip(l.buf, l.pos, {Space}), Chars \ {Space})
    IN [l EXCEPT !.buf = SubSeq(@, 1, start) \o SubSeq(@, l.pos + 1, Len(@)), !.pos = start]

DeleteLine(l) == [l EXCEPT !.buf = <<>>, !.pos = 0]
DeleteToEnd(l) == [l EXCEPT !.buf = SubSeq(@, 1, l.pos)]

\* CTRL_T.
Transpose(l) ==
    IF l.pos > 0 /\ l.pos < Len(l.buf)
    THEN [l EXCEPT !.buf = [@ EXCEPT ![l.pos] = l.buf[l.pos + 1], ![l.pos + 1] = l.buf[l.pos]],
                   !.pos = @ + 1]
    ELSE l

\* What strncpy and the terminator leave of a recalled line.
Fitted(text) == SubSeq(text, 1, Min({Len(text), BufLen - 1}))

-----------------------------------------------------------------------------
(* Completion *)

\* Shell._filename_completion_candidates with one entry, "a", which every line is offered
\* whose last word is the beginning of it.  Nothing limits the length.
Candidates(buf) ==
    LET start == Skip(buf, Len(buf), Chars \ {Space})
    IN IF IsPrefix(SubSeq(buf, start + 1, Len(buf)), <<"a">>)
       THEN <<SubSeq(buf, 1, start) \o <<"a">>>> ELSE <<>>

\* completeLine on Tab: the next candidate, then the line itself, which is as if none was
\* shown, then the first again.
Tab(l) == [l EXCEPT !.comp = IF @ + 1 < Len(Candidates(l.buf)) THEN @ + 1 ELSE -1]

\* completeLine on any other key: the candidate shown becomes the line, and the key acts on
\* it.  snprintf writes what fits and returns the length of all of it, which len and pos get.
Accept(l) ==
    LET cs == Candidates(l.buf)
    IN IF l.comp # -1 /\ l.comp < Len(cs)
       THEN LET text == Fitted(cs[l.comp + 1])
            IN [l EXCEPT !.buf = text, !.pos = Len(text), !.comp = -1,
                         !.over = text # cs[l.comp + 1]]
       ELSE [l EXCEPT !.comp = -1]

-----------------------------------------------------------------------------
(* Sessions *)

Active(s) == session[s].in_use

\* A line that was emptied and left latest is taken for the empty entry (history).
Own(h) == [h EXCEPT ![Len(h)].line = FALSE]

\* py_linenoise_edit_start: the first free slot, and an empty entry for the line to come.
edit_start ==
    /\ \E s \in 1 .. Slots :
          /\ ~Active(s) /\ \A r \in 1 .. s - 1 : Active(r)
          /\ session' = [session EXCEPT ![s] = [Closed EXCEPT !.in_use = TRUE]]
    /\ history' = Own(HistoryAdd(history, <<>>, FALSE))
    /\ UNCHANGED lost

\* One byte that edits the line and leaves the history alone.
Edits(l) == {Insert(l, c) : c \in Chars}
            \cup {MoveLeft(l), MoveRight(l), MoveHome(l), MoveEnd(l), Delete(l), Backspace(l),
                  DeletePrevWord(l), DeleteLine(l), DeleteToEnd(l), Transpose(l)}

\* CTRL_D on an empty line is no Delete.  What the keys do to a line whose len is past the
\* buffer is not modelled; Enter, Ctrl-C and the end of the input do not look at len.
feed_edit(s) ==
    /\ Active(s)
    /\ LET l == Accept(session[s])
       IN session' \in {[session EXCEPT ![s] = e] : e \in IF l.over THEN {l} ELSE Edits(l)}
    /\ UNCHANGED <<history, lost>>

feed_tab(s) ==
    /\ Active(s) /\ ~session[s].over
    /\ session' = [session EXCEPT ![s] = Tab(session[s])]
    /\ UNCHANGED <<history, lost>>

\* ESC while a completion is shown puts the original line back.
feed_esc(s) ==
    /\ Active(s) /\ session[s].comp # -1
    /\ session' = [session EXCEPT ![s].comp = -1]
    /\ UNCHANGED <<history, lost>>

\* Show entry number i, 0 being the latest.
Recall(l, h, i) ==
    LET text == Fitted(h[Len(h) - i].text)
    IN [l EXCEPT !.buf = text, !.pos = Len(text), !.index = i,
                 !.draft = IF i = 0 THEN <<>> ELSE IF l.index = 0 THEN l.buf ELSE @]

\* The line goes back to where it came from, mutated to be left out.
SavedNot(h, l) == h

\* The line goes back to where it came from.
Saved(h, l) == IF l.index < Len(h) THEN [h EXCEPT ![Len(h) - l.index].text = l.buf] ELSE h

\* linenoiseEditHistoryNext; the index is outside when another session has shortened the history.
HistoryNext(s, dir) ==
    /\ Active(s) /\ Len(history) > 1
    /\ LET l == Accept(session[s])
       IN /\ ~l.over
          /\ lost' = (lost \/ l.index >= Len(history))
          /\ history' = Saved(history, l)
          /\ session' = [session EXCEPT ![s] =
                 IF l.index + dir \in 0 .. Len(history) - 1
                 THEN Recall(l, Saved(history, l), l.index + dir) ELSE l]

\* ENTER, the end of the session and _history_add, which Shell.run does without an await.
feed_enter(s) ==
    /\ Active(s)
    /\ lost' = (lost \/ PopLoses(history))
    /\ history' = HistoryAddLine(Pop(history), Accept(session[s]).buf)
    /\ session' = [session EXCEPT ![s] = Closed]

\* CTRL_D on an empty line.
feed_eof(s) ==
    /\ Active(s) /\ Accept(session[s]).buf = <<>>
    /\ lost' = (lost \/ PopLoses(history))
    /\ history' = Pop(history)
    /\ session' = [session EXCEPT ![s] = Closed]

\* CTRL_C, or read_char fails: the entry stays.
cancel(s) ==
    /\ Active(s)
    /\ session' = [session EXCEPT ![s] = Closed]
    /\ UNCHANGED <<history, lost>>

Next ==
    \/ edit_start
    \/ \E s \in 1 .. Slots :
          \/ feed_edit(s) \/ feed_tab(s) \/ feed_esc(s)
          \/ HistoryNext(s, 1) \/ HistoryNext(s, -1)
          \/ feed_enter(s) \/ feed_eof(s) \/ cancel(s)

Spec == Init /\ [][Next]_vars

-----------------------------------------------------------------------------
(* Properties *)

(***************************************************************************)
(* The cursor is inside the line, the line inside the buffer, and an open  *)
(* session's history_index names an entry, whatever was typed, recalled    *)
(* and completed (linenoise.c indexes buf and history with them), as long  *)
(* as the completions that were accepted are shorter than the buffer.      *)
(***************************************************************************)
CursorInLine ==
    \A s \in 1 .. Slots :
        /\ ~session[s].over => session[s].pos <= Len(session[s].buf)
        /\ Len(session[s].buf) <= BufLen
        /\ Active(s) => session[s].index < Len(history)

(***************************************************************************)
(* "The latest history entry is always our current buffer": the entry that *)
(* Enter or Ctrl-D frees is there, and is no line a shell has added to the *)
(* history.                                                                *)
(***************************************************************************)
HistoryKept == ~lost

\* linenoise.c: both, whatever is typed, recalled, completed, accepted and given up; with
\* several sessions the second does not hold.
LineSound == CursorInLine /\ HistoryKept

(***************************************************************************)
(* Going up through the history and back down shows the line that was      *)
(* being typed, less the last character of a full buffer.                  *)
(***************************************************************************)
DraftKept ==
    [][\A s \in 1 .. Slots :
          Active(s) /\ session'[s].in_use /\ session[s].index > 0 /\ session'[s].index = 0
          => session'[s].buf = Fitted(session[s].draft)]_vars
=============================================================================
