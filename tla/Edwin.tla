------------------------------- MODULE Edwin -------------------------------
(***************************************************************************)
(* The screen editor (apps/editor/edwin.py): a list of lines with a        *)
(* cursor, motions and edits on it, and the tasks that open, save and      *)
(* reload the text while keys go on being handled.  Columns and rows count *)
(* from 0 as in the code.  Scrolling and drawing are left out; so is the   *)
(* footer prompt, which nothing opens any more.                            *)
(***************************************************************************)
EXTENDS Integers, Sequences, SequencesExt, FiniteSetsExt

CONSTANTS Chars,        \* of {"a", " ", "."}: a word, a space and the end of a sentence
          MaxText,      \* characters in the text
          Paths, Tasks, \* files; tasks that may be under way
          Rows,         \* lines on the screen
          Source,       \* the editor is the source pane of an application
          MaxReloads

NL == "\n"
None == "none"
Missing == <<"missing">>
Texts == BoundedSeq(Chars \cup {NL}, MaxText)

VARIABLES ed,           \* lines, cy, cx, dirty, path, ctrl_x_pending, running
          saved,        \* saved_text
          disk,         \* what the files contain
          io,           \* the tasks: what they do, to which path, with which text
          app,          \* sys.modules and the registry: module, entry, entry is info; reloads
                        \* so far, the modules that raised and whether two overlapped (history)
          raced,        \* a key was handled while a file was loading (history)
          late          \* the text changed while a save or a reload was under way (history)

vars == <<ed, saved, disk, io, app, raced, late>>

\* "\n".join(lines) and text.split("\n")
Join(lines) == FoldLeft(LAMBDA t, l : t \o <<NL>> \o l, Head(lines), Tail(lines))
Split(text) == FoldLeft(LAMBDA acc, c : IF c = NL THEN Append(acc, <<>>)
                                        ELSE [acc EXCEPT ![Len(acc)] = Append(@, c)],
                        <<<<>>>>, text)

Text(e) == Join(e.lines)
LineOf(e) == e.lines[e.cy + 1]
InBuffer(e) == e.cy \in 0 .. Len(e.lines) - 1 /\ e.cx \in 0 .. Len(LineOf(e))

TypeOK ==
    /\ Text(ed) \in Texts /\ saved \in Texts
    /\ ed.cy \in 0 .. MaxText /\ ed.cx \in 0 .. MaxText
    /\ ed.path \in Paths \cup {None}
    /\ \A p \in Paths : disk[p] \in Texts \cup {Missing}
    /\ \A t \in Tasks : io[t].do \in {"idle", "choose_open", "choose_save", "load", "save",
                                      "opened", "reload"}
    /\ raced \in BOOLEAN /\ late \in BOOLEAN

-----------------------------------------------------------------------------
(* Motions *)

\* _cursor_offset
Start(e, row) == FoldLeft(LAMBDA n, l : n + Len(l) + 1, 0, SubSeq(e.lines, 1, row))
Offset(e) == Start(e, e.cy) + e.cx

\* _set_cursor_offset, mutated to take the end of a line for the start of the next one.
ToEarly(e, offset) ==
    LET rows == {r \in 0 .. Len(e.lines) - 1 : offset < Start(e, r) + Len(e.lines[r + 1])}
        row == IF rows = {} THEN Len(e.lines) - 1 ELSE Min(rows)
    IN [e EXCEPT !.cy = row, !.cx = Max({0, offset - Start(e, row)})]

\* _set_cursor_offset
To(e, offset) ==
    LET row == Min({r \in 0 .. Len(e.lines) - 1 : offset <= Start(e, r) + Len(e.lines[r + 1])})
    IN [e EXCEPT !.cy = row, !.cx = offset - Start(e, row)]

\* "while pos < len(text) and text[pos] in kind: pos += 1", and the same backwards.
Over(text, pos, kind) == Min({q \in pos .. Len(text) : q = Len(text) \/ text[q + 1] \notin kind})
Back(text, pos, kind) == Max({q \in 0 .. pos : q = 0 \/ text[q] \notin kind})

Word == {"a"}
Stop == {"."}
Space == {" ", NL}
Not(kind) == (Word \cup Stop \cup Space) \ kind

word_forward(e) == LET t == Text(e) IN To(e, Over(t, Over(t, Offset(e), Not(Word)), Word))
word_backward(e) == LET t == Text(e) IN To(e, Back(t, Back(t, Offset(e), Not(Word)), Word))

sentence_forward(e) ==
    LET t == Text(e)
        stop == Over(t, Offset(e), Not(Stop))
    IN To(e, Over(t, Min({Len(t), stop + 1}), Space))

sentence_backward(e) ==
    LET t == Text(e)
    IN To(e, Over(t, Back(t, Back(t, Offset(e), Space), Not(Stop)), Space))

Blank(e, row) == \A i \in DOMAIN e.lines[row + 1] : e.lines[row + 1][i] \in Space
EndOf(e) == [e EXCEPT !.cy = Len(e.lines) - 1, !.cx = Len(Last(e.lines))]

paragraph_forward(e) ==
    LET n == Len(e.lines)
        gap == Min({r \in e.cy .. n : r = n \/ Blank(e, r)})
        row == Min({r \in gap .. n : r = n \/ ~Blank(e, r)})
    IN IF row = n THEN EndOf(e) ELSE [e EXCEPT !.cy = row, !.cx = 0]

paragraph_backward(e) ==
    LET from == IF e.cx = 0 /\ e.cy > 0 THEN e.cy - 1 ELSE e.cy
        end == Max({r \in 0 .. from : r = 0 \/ ~Blank(e, r)})
    IN [e EXCEPT !.cy = Max({r \in 0 .. end : r = 0 \/ Blank(e, r - 1)}), !.cx = 0]

\* The row changes and _clamp_x keeps the cursor in its line.
Row(e, row) == [e EXCEPT !.cy = row, !.cx = Min({@, Len(e.lines[row + 1])})]
page(e, dir) == Row(e, Max({0, Min({Len(e.lines) - 1, e.cy + dir * Rows})}))

Left(e) == IF e.cx > 0 THEN [e EXCEPT !.cx = @ - 1]
           ELSE IF e.cy > 0 THEN [e EXCEPT !.cy = @ - 1, !.cx = Len(e.lines[e.cy])] ELSE e
Right(e) == IF e.cx < Len(LineOf(e)) THEN [e EXCEPT !.cx = @ + 1]
            ELSE IF e.cy + 1 < Len(e.lines) THEN [e EXCEPT !.cy = @ + 1, !.cx = 0] ELSE e
Up(e) == IF e.cy > 0 THEN Row(e, e.cy - 1) ELSE e
Down(e) == IF e.cy + 1 < Len(e.lines) THEN Row(e, e.cy + 1) ELSE e
Home(e) == [e EXCEPT !.cx = 0]
End(e) == [e EXCEPT !.cx = Len(LineOf(e))]
Indentation(e) == [e EXCEPT !.cx = Over(LineOf(e), 0, Space)]

Motions(e) ==
    {word_forward(e), word_backward(e), sentence_forward(e), sentence_backward(e),
     paragraph_forward(e), paragraph_backward(e), page(e, 1), page(e, -1), Left(e), Right(e),
     Up(e), Down(e), Home(e), End(e), Indentation(e), [e EXCEPT !.cy = 0, !.cx = 0], EndOf(e)}

-----------------------------------------------------------------------------
(* Edits *)

\* Replace n lines from row on, and the text is not what was saved.
With(e, row, n, new) ==
    [e EXCEPT !.lines = SubSeq(@, 1, row) \o new \o SubSeq(@, row + n + 1, Len(@)), !.dirty = TRUE]

Before(e) == SubSeq(LineOf(e), 1, e.cx)
Behind(e) == SubSeq(LineOf(e), e.cx + 1, Len(LineOf(e)))

insert_char(e, c) == [With(e, e.cy, 1, <<Append(Before(e), c) \o Behind(e)>>) EXCEPT !.cx = @ + 1]

newline(e) == [With(e, e.cy, 1, <<Before(e), Behind(e)>>) EXCEPT !.cy = @ + 1, !.cx = 0]

backspace(e) ==
    IF e.cx > 0 THEN [With(e, e.cy, 1, <<Front(Before(e)) \o Behind(e)>>) EXCEPT !.cx = @ - 1]
    ELSE IF e.cy > 0 THEN [With(e, e.cy - 1, 2, <<e.lines[e.cy] \o LineOf(e)>>)
                           EXCEPT !.cy = @ - 1, !.cx = Len(e.lines[e.cy])]
    ELSE e

\* _delete, mutated not to mark the text as changed when it joins two lines.
deleteClean(e) ==
    IF e.cx < Len(LineOf(e)) THEN With(e, e.cy, 1, <<Before(e) \o Tail(Behind(e))>>)
    ELSE IF e.cy + 1 < Len(e.lines)
         THEN [With(e, e.cy, 2, <<LineOf(e) \o e.lines[e.cy + 2]>>) EXCEPT !.dirty = e.dirty] ELSE e

delete(e) ==
    IF e.cx < Len(LineOf(e)) THEN With(e, e.cy, 1, <<Before(e) \o Tail(Behind(e))>>)
    ELSE IF e.cy + 1 < Len(e.lines) THEN With(e, e.cy, 2, <<LineOf(e) \o e.lines[e.cy + 2]>>) ELSE e

\* C-k
kill(e) == IF e.cx < Len(LineOf(e)) THEN With(e, e.cy, 1, <<Before(e)>>) ELSE delete(e)

Edits(e) == {insert_char(e, c) : c \in Chars} \cup {newline(e), backspace(e), delete(e), kill(e)}

-----------------------------------------------------------------------------
(* Keys *)

Busy(kinds) == \E t \in Tasks : io[t].do \in kinds

\* What a change of the editor's text means for the tasks that are under way (history).
Watch(new, key) ==
    /\ raced' = (raced \/ (key /\ Busy({"load"})))
    /\ late' = (late \/ (new.lines # ed.lines /\ Busy({"save", "opened", "reload"})))

\* A key that moves or edits.  With a cursor outside the text the handler raises.
key ==
    /\ ed.running /\ ~ed.prefix /\ InBuffer(ed)
    /\ \E new \in Motions(ed) \cup Edits(ed) :
          /\ Len(Text(new)) <= MaxText
          /\ ed' = new
          /\ Watch(new, TRUE)
    /\ UNCHANGED <<saved, disk, io, app>>

\* C-x, and any key after it that is neither C-c nor C-s.
prefix_key ==
    /\ ed.running
    /\ ed' = [ed EXCEPT !.prefix = ~@]
    /\ UNCHANGED <<saved, disk, io, app, raced, late>>

\* C-q, C-x C-c or the window closes; what was not saved is not asked for.
close ==
    /\ ed.running
    /\ ed' = [ed EXCEPT !.running = FALSE, !.prefix = FALSE]
    /\ UNCHANGED <<saved, disk, io, app, raced, late>>

cancel_edits ==
    /\ ed.running
    /\ LET new == [ed EXCEPT !.lines = Split(saved), !.cy = 0, !.cx = 0, !.dirty = FALSE]
       IN ed' = new /\ Watch(new, FALSE)
    /\ UNCHANGED <<saved, disk, io, app>>

-----------------------------------------------------------------------------
(* Files *)

Idle == [do |-> "idle", path |-> None, text |-> <<>>, new |-> 0, old |-> 0]
Does(t, op) == io' = [io EXCEPT ![t] = op]

Saving(path) == [do |-> "save", path |-> path, text |-> Text(ed)]

\* C-s, C-x C-s and the Save entry: a text without a file gets one first.
start_save(t) ==
    /\ ed.running /\ io[t] = Idle
    /\ Does(t, IF ed.path = None THEN [Idle EXCEPT !.do = "choose_save"] ELSE Saving(ed.path))
    /\ ed' = [ed EXCEPT !.prefix = FALSE]
    /\ UNCHANGED <<saved, disk, app, raced, late>>

\* The entries Open and Save As.
prompt(t) ==
    /\ ed.running /\ io[t] = Idle /\ ~Source
    /\ \E what \in {"choose_open", "choose_save"} : Does(t, [Idle EXCEPT !.do = what])
    /\ UNCHANGED <<ed, saved, disk, app, raced, late>>

\* _choose_open and _choose_save_as: the chooser returns a path, or None.
chosen(t) ==
    /\ io[t].do \in {"choose_open", "choose_save"}
    /\ \/ Does(t, Idle) /\ UNCHANGED ed
       \/ \E path \in Paths :
             IF io[t].do = "choose_open"
             THEN /\ ed' = [ed EXCEPT !.path = path, !.cy = 0, !.cx = 0]
                  /\ Does(t, [Idle EXCEPT !.do = "load", !.path = path])
             ELSE ed' = [ed EXCEPT !.path = path] /\ Does(t, Saving(path))
    /\ UNCHANGED <<saved, disk, app, raced, late>>

\* load() ends; a file that is not there leaves the text.
load_end(t) ==
    /\ io[t].do = "load"
    /\ Does(t, Idle)
    /\ LET text == disk[io[t].path]
           new == IF text = Missing THEN ed ELSE [ed EXCEPT !.lines = Split(text)]
       IN /\ ed' = new
          /\ saved' = IF text = Missing THEN saved ELSE text
          /\ Watch(new, FALSE)
    /\ UNCHANGED <<disk, app>>

\* vfs.open with TRUNC, or its failure.
save_open(t) ==
    /\ io[t].do = "save"
    /\ \/ /\ disk' = [disk EXCEPT ![io[t].path] = <<>>]
          /\ Does(t, [io[t] EXCEPT !.do = "opened"])
       \/ Does(t, Idle) /\ UNCHANGED disk
    /\ UNCHANGED <<ed, saved, app, raced, late>>

\* What a write at the start of a file leaves in it.
Written(old, text) == text \o SubSeq(old, Len(text) + 1, Len(old))

\* vfs.write and the end of save(), or a failure.
save_write(t) ==
    /\ io[t].do = "opened"
    /\ Does(t, Idle)
    /\ \/ /\ disk' = [disk EXCEPT ![io[t].path] = Written(@, io[t].text)]
          /\ saved' = io[t].text
          /\ ed' = [ed EXCEPT !.dirty = FALSE]
       \/ UNCHANGED <<disk, saved, ed>>
    /\ UNCHANGED <<app, raced, late>>

-----------------------------------------------------------------------------
(* The source pane *)

\* reload_action starts: the new module is in sys.modules before its code has run, and the
\* code may register itself before it awaits something.
reload_begin(t) ==
    /\ ed.running /\ io[t] = Idle /\ Source /\ app.reloads < MaxReloads
    /\ LET new == app.reloads + 1
       IN /\ Does(t, [Idle EXCEPT !.do = "reload", !.text = Text(ed), !.new = new, !.old = app.module])
          /\ \E registers \in BOOLEAN :
                app' = [app EXCEPT !.reloads = new, !.module = new,
                                   !.entry = IF registers THEN new ELSE @,
                                   !.is_info = @ /\ ~registers,
                                   !.overlap = @ \/ Busy({"reload"})]
    /\ UNCHANGED <<ed, saved, disk, raced, late>>

\* The code has run: it has registered itself, or its main() is registered if the entry is
\* still info.
reload_ends(t) ==
    /\ io[t].do = "reload"
    /\ \E registers, main \in BOOLEAN :
          LET now == registers \/ (main /\ app.is_info)
          IN app' = [app EXCEPT !.entry = IF now THEN io[t].new ELSE @, !.is_info = @ /\ ~now]
    /\ saved' = io[t].text
    /\ ed' = [ed EXCEPT !.dirty = FALSE]
    /\ Does(t, Idle)
    /\ UNCHANGED <<disk, raced, late>>

\* reload_action, mutated to leave the registry as the failed module has left it.
reload_failsRegistered(t) ==
    /\ io[t].do = "reload"
    /\ app' = [app EXCEPT !.module = io[t].old, !.failed = @ \cup {io[t].new}]
    /\ Does(t, Idle)
    /\ UNCHANGED <<ed, saved, disk, raced, late>>

\* The code raises: the old module comes back, and info is registered again in a new record.
reload_fails(t) ==
    /\ io[t].do = "reload"
    /\ app' = [app EXCEPT !.module = io[t].old, !.entry = 0, !.is_info = FALSE,
                          !.failed = @ \cup {io[t].new}]
    /\ Does(t, Idle)
    /\ UNCHANGED <<ed, saved, disk, raced, late>>

-----------------------------------------------------------------------------
\* main and open_app_source: the window opens on a file, on nothing, or on the source.
Init ==
    /\ disk \in [Paths -> {Missing, <<NL>>}]
    /\ \E path \in Paths \cup {None} :
          LET text == IF path = None \/ disk[path] = Missing THEN <<>> ELSE disk[path]
          IN /\ Source => path # None
             /\ ed = [lines |-> Split(text), cy |-> 0, cx |-> 0, dirty |-> FALSE,
                      path |-> path, prefix |-> FALSE, running |-> TRUE]
             /\ saved = text
    /\ io = [t \in Tasks |-> Idle]
    /\ app = [module |-> 0, entry |-> 0, is_info |-> TRUE, reloads |-> 0, failed |-> {},
              overlap |-> FALSE]
    /\ raced = FALSE /\ late = FALSE

Next ==
    \/ key \/ prefix_key \/ close \/ cancel_edits
    \/ \E t \in Tasks :
          \/ start_save(t) \/ prompt(t) \/ chosen(t) \/ load_end(t)
          \/ save_open(t) \/ save_write(t)
          \/ reload_begin(t) \/ reload_ends(t) \/ reload_fails(t)

Spec == Init /\ [][Next]_vars

\* Any text with the cursor anywhere in it, and only motions.
AnyText ==
    /\ \E text \in Texts : \E row \in 0 .. Len(Split(text)) - 1 :
          \E col \in 0 .. Len(Split(text)[row + 1]) :
             ed = [lines |-> Split(text), cy |-> row, cx |-> col, dirty |-> TRUE, path |-> None,
                   prefix |-> FALSE, running |-> TRUE]
    /\ saved = <<>> /\ disk = [p \in Paths |-> Missing] /\ io = [t \in Tasks |-> Idle]
    /\ app = [module |-> 0, entry |-> 0, is_info |-> TRUE, reloads |-> 0, failed |-> {},
              overlap |-> FALSE]
    /\ raced = FALSE /\ late = FALSE

-----------------------------------------------------------------------------
(* Properties *)

WordEnds(t) == {q \in 1 .. Len(t) : t[q] \in Word /\ (q = Len(t) \/ t[q + 1] \notin Word)}
WordStarts(t) == {q \in 0 .. Len(t) - 1 : t[q + 1] \in Word /\ (q = 0 \/ t[q] \notin Word)}
Paragraphs(e) == {r \in 0 .. Len(e.lines) - 1 : ~Blank(e, r) /\ (r = 0 \/ Blank(e, r - 1))}

(***************************************************************************)
(* The list of lines with its cursor behaves as a text with an offset:     *)
(* every edit of edwin.py changes the text at the offset and nowhere else, *)
(* joins and splits of lines included, and the word and paragraph motions  *)
(* end where their definitions say.                                        *)
(***************************************************************************)
ActsOnText ==
    LET t == Text(ed)
        o == Offset(ed)
        Is(new, text, offset) == InBuffer(new) /\ Text(new) = text /\ Offset(new) = offset
        ends == {q \in WordEnds(t) : q > o}
        starts == {q \in WordStarts(t) : q < o}
        next == {r \in Paragraphs(ed) : r > ed.cy}
        here == {r \in Paragraphs(ed) : r < ed.cy \/ (r = ed.cy /\ ed.cx > 0)}
    IN InBuffer(ed) =>
       /\ \A c \in Chars : Is(insert_char(ed, c), InsertAt(t, o + 1, c), o + 1)
       /\ Is(newline(ed), InsertAt(t, o + 1, NL), o + 1)
       /\ o > 0 => Is(backspace(ed), RemoveAt(t, o), o - 1)
       /\ o < Len(t) => Is(delete(ed), RemoveAt(t, o + 1), o)
       /\ Is(Left(ed), t, Max({0, o - 1})) /\ Is(Right(ed), t, Min({Len(t), o + 1}))
       /\ Is(word_forward(ed), t, IF ends = {} THEN Len(t) ELSE Min(ends))
       /\ Is(word_backward(ed), t, IF starts = {} THEN 0 ELSE Max(starts))
       /\ Offset(paragraph_forward(ed)) = IF next = {} THEN Len(t) ELSE Start(ed, Min(next))
       /\ Offset(paragraph_backward(ed)) = IF here = {} THEN 0 ELSE Start(ed, Max(here))

(***************************************************************************)
(* The cursor is in the text, unless keys were handled while a file was    *)
(* loading; and a text without the mark of a change is the text that was   *)
(* loaded, saved or reloaded last, unless it changed while that was under  *)
(* way.                                                                    *)
(***************************************************************************)
MarkTruthful ==
    /\ ~raced => InBuffer(ed)
    /\ ~late /\ ~ed.dirty => Text(ed) = saved

(***************************************************************************)
(* "swaps the module atomically": when no reload is under way, neither     *)
(* sys.modules nor the entry that is launched next is a module whose code  *)
(* has raised, also if it had registered itself before; as long as no two  *)
(* reloads overlap, since the second one takes the first one's module for  *)
(* the old one.                                                            *)
(***************************************************************************)
SourceSwapped ==
    ~app.overlap /\ ~Busy({"reload"}) => {app.module, app.entry} \cap app.failed = {}
=============================================================================
