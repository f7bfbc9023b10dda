--------------------------------- MODULE Ed ---------------------------------
(***************************************************************************)
(* The line editor of kernel/ed.py: a buffer of lines, the current line    *)
(* (dot), one level of undo, a cut buffer, and a file on the VFS.          *)
(*                                                                         *)
(* Addresses are numbers: what "." "$" marks and offsets come to is any    *)
(* number from one below the buffer to one above.  A slice of a list has   *)
(* Python's meaning, negative indices included, because "0,1d" and a dot   *)
(* outside the buffer (";" moves dot before the address is tested) reach   *)
(* it.  An exception other than EdError and EOFError ends the editor.      *)
(***************************************************************************)
EXTENDS Integers, Sequences, SequencesExt, FiniteSetsExt

CONSTANTS MaxLines,     \* of the buffer and of the file
          MaxChars      \* in them

NL == "\n"
Char == "x"
Line == BoundedSeq({Char}, MaxChars)
None == <<"none">>      \* there is no file

VARIABLES buf,          \* lines, undo_lines and dot; what cut holds is left open
          saved,        \* saved_lines
          disk,         \* what the file contains, or None
          whole,        \* the file is what saved_lines was read from or written to (history)
          running       \* "yes", "quit", or "raised" by an exception

vars == <<buf, saved, disk, whole, running>>

Size(lines) == FoldSeq(LAMBDA l, n : n + Len(l), 0, lines)
Bounded(lines) == Len(lines) <= MaxLines /\ Size(lines) <= MaxChars

TypeOK ==
    /\ \A l \in {buf.lines, buf.undo, saved} : Bounded(l) /\ \A i \in DOMAIN l : l[i] \in Line
    /\ buf.dot \in -2 .. 2 * MaxLines + 1
    /\ whole \in BOOLEAN
    /\ running \in {"yes", "quit", "raised"}

-----------------------------------------------------------------------------
(* Files and lines *)

\* _lines_from_text: split at newlines; a newline at the end ends the last line.
LinesFromText(text) ==
    LET parts == FoldLeft(LAMBDA acc, c : IF c = NL THEN Append(acc, <<>>)
                                          ELSE [acc EXCEPT ![Len(acc)] = Append(@, c)],
                          <<<<>>>>, text)
    IN IF text = <<>> THEN <<>> ELSE IF Last(parts) = <<>> THEN Front(parts) ELSE parts

\* _text_from_lines, mutated to join the lines as EditorView.save does.
TextFromLinesJoined(lines) ==
    IF lines = <<>> THEN <<>> ELSE FoldLeft(LAMBDA t, l : t \o <<NL>> \o l, Head(lines), Tail(lines))

\* _text_from_lines.
TextFromLines(lines) == FoldLeft(LAMBDA t, l : t \o l \o <<NL>>, <<>>, lines)

-----------------------------------------------------------------------------
(* Slices of Python lists *)

\* max(low, min(high, n))
Clamp(low, n, high) == IF n < low THEN low ELSE IF n > high THEN high ELSE n

Index(s, i) == Clamp(0, IF i < 0 THEN Len(s) + i ELSE i, Len(s))
Bounds(s, i, j) == LET start == Index(s, i) IN <<start, Clamp(start, Index(s, j), Len(s))>>
Slice(s, i, j) == LET b == Bounds(s, i, j) IN SubSeq(s, b[1] + 1, b[2])

\* s[i:i] = new, where i is an index of s or its length.
Insert(s, i, new) == SubSeq(s, 1, i) \o new \o SubSeq(s, i + 1, Len(s))

\* s[i:j] = new
Splice(s, i, j, new) == LET b == Bounds(s, i, j)
                        IN SubSeq(s, 1, b[1]) \o new \o SubSeq(s, b[2] + 1, Len(s))

-----------------------------------------------------------------------------
(* The buffer commands: what they make of the buffer b *)

\* set_dot
Clamped(b, n) == [b EXCEPT !.dot = IF b.lines = <<>> THEN 0 ELSE Clamp(1, n, Len(b.lines))]

\* The lines change; what they were goes to undo_lines (snapshot).
Changed(b, lines, dot) == [b EXCEPT !.lines = lines, !.undo = b.lines, !.dot = dot]

insert_after(b, address, new) ==
    LET i == Clamp(0, address, Len(b.lines))
    IN IF new = <<>> THEN b ELSE Changed(b, Insert(b.lines, i, new), i + Len(new))

command_insert(b, address, new) == insert_after(b, IF address <= 0 THEN 0 ELSE address - 1, new)

delete_range(b, start, end) ==
    LET lines == Splice(b.lines, start - 1, end, <<>>)
    IN IF start = 0 /\ end = 0 THEN b
       ELSE Changed(b, lines, IF lines = <<>> THEN 0 ELSE Min({start, Len(lines)}))

command_change(b, start, end, text) ==
    LET rest == Splice(b.lines, start - 1, end, <<>>)
        lines == Splice(rest, start - 1, start - 1, text)
    IN IF start = 0 /\ end = 0 THEN Changed(b, text \o b.lines, Len(text))
       ELSE Changed(b, lines, IF text # <<>> THEN start + Len(text) - 1
                              ELSE Min({start, Len(lines)}))

\* command_join, mutated to leave the snapshot out.
command_joinUnsaved(b, start, end) ==
    LET joined == FlattenSeq(Slice(b.lines, start - 1, end))
    IN IF start = 0 \/ start = end THEN b
       ELSE [b EXCEPT !.lines = Splice(b.lines, start - 1, end, <<joined>>), !.dot = start]

command_join(b, start, end) ==
    LET joined == FlattenSeq(Slice(b.lines, start - 1, end))
    IN IF start = 0 \/ start = end THEN b
       ELSE Changed(b, Splice(b.lines, start - 1, end, <<joined>>), start)

command_move(b, start, end, target) ==
    LET block == Slice(b.lines, start - 1, end)
        rest == Splice(b.lines, start - 1, end, <<>>)
        to == IF target > end THEN target - (end - start + 1) ELSE target
        i == Clamp(0, to, Len(rest))
    IN Changed(b, Insert(rest, i, block), i + Len(block))

command_copy(b, start, end, target) ==
    LET block == Slice(b.lines, start - 1, end)
        i == Clamp(0, target, Len(b.lines))
    IN Changed(b, Insert(b.lines, i, block), i + Len(block))

undo(b) == LET c == [b EXCEPT !.lines = b.undo, !.undo = b.lines]
           IN Clamped(c, Min({b.dot, Len(c.lines)}))

\* print_range looks at a line that is not there.
IndexError(b, start, end) ==
    /\ ~(start = 0 /\ end = 0)
    /\ \E i \in start .. end : i - 1 \notin -Len(b.lines) .. Len(b.lines) - 1

print_range(b, start, end) == IF start = 0 /\ end = 0 THEN b ELSE Clamped(b, end)

-----------------------------------------------------------------------------
(* Addresses *)

Address == -1 .. MaxLines + 1

whole_range == IF buf.lines = <<>> THEN <<0, 0>> ELSE <<1, Len(buf.lines)>>

\* What parse_range makes of a command with an address.
Given == {whole_range, <<buf.dot, Len(buf.lines)>>}
         \cup {<<start, end>> \in (0 .. Len(buf.lines)) \X (0 .. Len(buf.lines)) : start <= end}

\* default_range, for every command but w, W, r and j, which have their own.
Current == <<buf.dot, buf.dot>>
ForJoin == IF buf.dot < Len(buf.lines) THEN <<buf.dot, buf.dot + 1>> ELSE Current
ForRead == <<Len(buf.lines), Len(buf.lines)>>

-----------------------------------------------------------------------------
(* The commands *)

Edit(new) == /\ Bounded(new.lines)
             /\ buf' = new
             /\ UNCHANGED <<saved, disk, whole, running>>

\* What is typed after a, i and c, or was cut by d or y before x.
Typed == {<<>>, <<<<>>>>, <<<<Char>>>>, <<<<Char>>, <<>>>>}

\* a, i and x at a line; d, c, m and t on the lines r.
Inserted(address) == UNION {{insert_after(buf, address, text), command_insert(buf, address, text)} :
                            text \in Typed}
Edited(r) ==
    {delete_range(buf, r[1], r[2])}
    \cup {command_change(buf, r[1], r[2], text) : text \in Typed}
    \cup {command_move(buf, r[1], r[2], target) : target \in Address \ (r[1] .. r[2])}
    \cup {command_copy(buf, r[1], r[2], target) : target \in Address}

edit_commands ==
    LET ranges == Given \cup {Current}
    IN \E new \in UNION ({Edited(r) : r \in ranges} \cup {Inserted(a) : a \in {r[2] : r \in ranges}})
                  \cup {command_join(buf, r[1], r[2]) : r \in Given \cup {ForJoin}}
                  \cup {undo(buf)} :
          Edit(new)

\* "first;second" moves dot to first, in a step of its own, whether the range is valid
\* and the command does anything or not.
semicolon == \E first \in Address : Edit([buf EXCEPT !.dot = first])

Raised == running' = "raised" /\ UNCHANGED <<buf, saved, disk, whole>>

\* p, n, l, an address alone, or an empty line, which prints the line after dot if there is one.
print ==
    \E r \in Given \cup {Current} \cup {<<i, i>> : i \in {j \in {buf.dot + 1} : j <= Len(buf.lines)}} :
        IF IndexError(buf, r[1], r[2]) THEN Raised ELSE Edit(print_range(buf, r[1], r[2]))

\* load_file for e, which keeps unsaved changes, E, and the file named on start.
load_file(force) ==
    /\ force \/ buf.lines = saved
    /\ LET lines == IF disk = None THEN <<>> ELSE LinesFromText(disk)
       IN /\ buf' = [buf EXCEPT !.lines = lines, !.undo = lines, !.dot = Len(lines)]
          /\ saved' = lines
    /\ whole' = TRUE
    /\ UNCHANGED <<disk, running>>

command_read ==
    IF disk = None THEN Raised
    ELSE \E r \in Given \cup {ForRead} : Edit(insert_after(buf, r[2], LinesFromText(disk)))

\* write_file, w and wq.  A failure, before or after the file was truncated, is no EdError.
write_file(then) ==
    \E r \in Given \cup {whole_range} :
       LET data == IF r[1] > 0 THEN Slice(buf.lines, r[1] - 1, r[2]) ELSE <<>>
           all == r[1] = 1 /\ r[2] = Len(buf.lines)
       IN /\ UNCHANGED buf
          /\ \/ /\ disk' = TextFromLines(data)
                /\ saved' = IF all THEN buf.lines ELSE saved
                /\ whole' = (all \/ (whole /\ disk' = disk))
                /\ running' = then
             \/ /\ disk' \in {disk, <<>>}
                /\ whole' = (whole /\ disk' = disk)
                /\ running' = "raised"
                /\ UNCHANGED saved

\* write_file for W.
append_file ==
    \E r \in Given \cup {whole_range} :
       LET data == IF r[1] > 0 THEN Slice(buf.lines, r[1] - 1, r[2]) ELSE <<>>
           text == (IF disk = None THEN <<>> ELSE disk) \o TextFromLines(data)
       IN /\ Bounded(LinesFromText(text))
          /\ disk' = text
          /\ whole' = (whole /\ text = disk)
          /\ UNCHANGED <<buf, saved, running>>

\* q, which wants the changes saved; Q and the end of the input do not ask.
quit(asks) ==
    /\ asks => buf.lines = saved
    /\ running' = "quit"
    /\ UNCHANGED <<buf, saved, disk, whole>>

Init ==
    /\ disk \in {None, <<>>, <<Char>>, <<NL>>, <<Char, NL>>}
    /\ buf = [lines |-> <<>>, undo |-> <<>>, dot |-> 0]
    /\ saved = <<>>
    /\ whole = FALSE
    /\ running = "yes"

\* Any lines, for the definitions of the commands alone.
AnyLines ==
    /\ disk = None /\ saved = <<>> /\ whole = FALSE /\ running = "quit"
    /\ \E n \in 0 .. MaxLines : \E lines \in [1 .. n -> {<<>>, <<Char>>}] :
          buf = [lines |-> lines, undo |-> <<>>, dot |-> 0]

execute ==
    /\ running = "yes"
    /\ \/ edit_commands \/ semicolon \/ print
       \/ load_file(FALSE) \/ load_file(TRUE) \/ command_read
       \/ write_file("yes") \/ write_file("quit") \/ append_file
       \/ quit(TRUE) \/ quit(FALSE)

Next == execute

Spec == Init /\ [][Next]_vars

-----------------------------------------------------------------------------
(* Properties *)

(***************************************************************************)
(* saved_lines is what a read of the file gives, so that q, which asks     *)
(* only for lines = saved_lines, loses nothing: whatever was typed, cut,   *)
(* moved, written in part and undone since, as long as the file has been   *)
(* read or written completely and nothing else written over it.            *)
(***************************************************************************)
SavedIsOnDisk == whole => saved = (IF disk = None THEN <<>> ELSE LinesFromText(disk))

(***************************************************************************)
(* One u takes back one command: what changes the lines leaves the lines   *)
(* as they were in undo_lines, across failures and addresses outside the   *)
(* buffer; only reading a file starts anew.                                *)
(***************************************************************************)
UndoTakesBack ==
    [][buf'.lines # buf.lines => \/ buf'.undo = buf.lines
                                 \/ buf'.undo = buf'.lines /\ saved' = buf'.lines]_vars

(***************************************************************************)
(* command_move against its definition: the lines are those before and     *)
(* behind the target, without the block, and the block between them.       *)
(***************************************************************************)
MovesBlock ==
    LET Outside(b, s, e, range) == [i \in 1 .. Cardinality(range \ (s .. e)) |->
            b.lines[CHOOSE k \in range \ (s .. e) :
                       Cardinality({m \in range \ (s .. e) : m <= k}) = i]]
    IN \A s, e \in 1 .. Len(buf.lines), t \in 0 .. Len(buf.lines) :
          s <= e /\ t \notin s .. e =>
             command_move(buf, s, e, t).lines = Outside(buf, s, e, 1 .. t)
                                                \o SubSeq(buf.lines, s, e)
                                                \o Outside(buf, s, e, t + 1 .. Len(buf.lines))

EdSound == SavedIsOnDisk /\ MovesBlock
=============================================================================
