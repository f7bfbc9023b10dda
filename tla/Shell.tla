-------------------------------- MODULE Shell --------------------------------
(***************************************************************************)
(* The shells: kernel/shell.py, the commands of kernel/commands.py that it *)
(* runs from /bin, and the importer of kernel/vfs_import.py.  Every shell  *)
(* is a task; they share the files.  A step is what a task does between    *)
(* two awaits of the VFS, of TCP or of the keyboard; any of these calls    *)
(* may fail.                                                               *)
(*                                                                         *)
(* A line is a record: `py` says which Python statement it is, "" for bare *)
(* words; `cmd` and `args` are its words, a path split at its slashes.  A  *)
(* command with cmd "" is a path to a script.  A file is a sequence of     *)
(* lines and a read returns one of them; a line with py "bytes" is not     *)
(* UTF-8.                                                                  *)
(***************************************************************************)
EXTENDS Integers, Sequences, SequencesExt, FiniteSets

CONSTANTS Shells,
          CanExit,     \* the shells of TCP and desktop terminals
          Lines,       \* what the user types
          Dirs,        \* the directories
          Files,       \* the files at the start: a sequence of [path, text]
          SCRIPTS,     \* command -> the text of its script in commands.py
          MaxLines,    \* lines typed in a shell
          MaxDepth,    \* nested scripts and sub-shells
          MaxErrors,   \* calls that fail
          MaxStream,   \* chunks of an incoming ftp stream
          Keys, Entries, Names, MaxBuf   \* of the reader without linenoise

VARIABLES
    sh,       \* shell -> [at, n, line, block, cwd, ns, exit, stack, fd]
    tree,     \* path -> inode
    text,     \* inode -> its lines
    fds,      \* descriptor -> inode
    socks,    \* listeners and connections of the ftp commands: <<shell, kind>>
    imports,  \* [loaded |-> sys.modules, cache |-> _code_cache]
    odd,      \* (history) [errs, mixed, leaked, free, stale, escaped]
    typing    \* the reader without linenoise: [buf, entries, was (history)]

vars == <<sh, tree, text, fds, socks, imports, odd>>
files == <<tree, text>>

HISTORY_FILE == <<"home", ".repl_history">>
search_path == <<<<"lib">>, <<"examples">>, <<"home">>>>

Blank == [py |-> "", cmd |-> "", args |-> <<>>]

-----------------------------------------------------------------------------
\* Paths.  _abspath of commands.py and _normalize_path of _join_path are the same.
Normal(segs) ==
    LET Seg(parts, seg) == IF seg = ".." THEN (IF parts = <<>> THEN parts ELSE Front(parts))
                           ELSE IF seg \in {"", "."} THEN parts ELSE Append(parts, seg)
    IN FoldLeft(Seg, <<>>, segs)

_join_path(base, path) == IF path # <<>> /\ Head(path) = "" THEN path ELSE base \o path

_abspath(path, cwd) == Normal(_join_path(cwd, path))

\* _is_incomplete (codeop): a block that a line has opened is complete after an empty
\* line, or once it cannot be continued.
_is_incomplete(block) ==
    /\ Head(block).py = "open"
    /\ Last(block) # Blank
    /\ \A i \in DOMAIN block : block[i].py # "bad"

\* compile: a text with a bad line raises before anything of it runs.
Compiled(code) == LET bad == SelectSeq(code, LAMBDA l : l.py = "bad")
                  IN IF bad = <<>> THEN code ELSE <<Head(bad)>>

\* The words that are bound in the namespace of a shell.
Bound == {"cwd", "sh", "run", "vfs", "help", "halt", "exit", "quit"}

-----------------------------------------------------------------------------
\* A frame is a call under way: "eval" a text at the prompt, "script" a _run_script with
\* the command it runs, "sub" a _sh_repl.
Frame == [op |-> "sub", pc |-> "sub", path |-> <<>>, args |-> <<>>, cwd |-> <<>>, fd |-> 0,
          data |-> <<>>, code |-> <<>>, src |-> <<>>, dst |-> <<>>, again |-> FALSE]

_run_script(path, args) == [Frame EXCEPT !.op = "script", !.pc = "open", !.path = path,
                                         !.args = args]

\* An expression is compiled as such first, and as statements after a SyntaxError.
Evaluated(block) ==
    [Frame EXCEPT !.op = "eval", !.pc = "exec", !.code = Compiled(block), !.data = block,
                  !.again = Len(block) = 1 /\ block[1].py \in {"sh", "repl", "run", "import"}]

_sh_script_path(l, cwd) == IF l.cmd = "" THEN _abspath(l.args[1], cwd) ELSE <<"bin", l.cmd>>

_run_sh_parts(l, cwd) == _run_script(_sh_script_path(l, cwd),
                                     IF l.cmd = "" THEN Tail(l.args) ELSE l.args)

Top(r) == Last(r.stack)
Push(r, f) == [r EXCEPT !.stack = Append(@, f)]
Replace(r, f) == [r EXCEPT !.stack = Append(Front(@), f)]

\* The end of a line in run: the next prompt, or the end of a terminal that asked for it.
Finished(r) == [r EXCEPT !.at = IF r.exit THEN "done" ELSE "prompt", !.stack = <<>>]

Pop(r) == IF Len(r.stack) = 1 THEN Finished(r) ELSE [r EXCEPT !.stack = Front(@)]

_update_cwd(r, cwd) == [r EXCEPT !.cwd = cwd, !.ns = IF cwd # r.cwd THEN cwd ELSE @]

_request_exit(r, s) == [r EXCEPT !.exit = @ \/ s \in CanExit]

\* The errors of a command and of a script's code are written out by _run_script, but not
\* SystemExit, which only the code at the prompt catches.  The read of the script and its
\* decoding are outside of that: their error passes through sub-shells up to the code that
\* called it.  What nobody catches, after a bare command at the prompt, leaves run.
Catches(f, kind) == f.op = "eval" \/ (f.op = "script" /\ f.pc \notin {"open", "read"} /\ kind # "exit")

Raise(r, s, kind) ==
    LET who == {i \in DOMAIN r.stack : Catches(r.stack[i], kind)}
        i == CHOOSE j \in who : \A h \in who : h <= j
        here == [r EXCEPT !.stack = SubSeq(@, 1, i)]
        f == Top(here)
    IN CASE who = {} -> [r EXCEPT !.at = "dead", !.stack = <<>>]
         [] who # {} /\ kind = "exit" -> Pop(_request_exit(here, s))
         [] who # {} /\ f.op = "eval" /\ f.again /\ kind = "syntax"
              -> Replace(here, [f EXCEPT !.again = FALSE, !.code = Compiled(f.data)])
         [] who # {} /\ f.op = "script" /\ f.pc = "exec" -> Pop(_update_cwd(here, f.cwd))
         [] OTHER -> Pop(here)

-----------------------------------------------------------------------------
Inodes == {tree[p] : p \in DOMAIN tree} \union {fds[d] : d \in DOMAIN fds}
Unused(S) == CHOOSE i \in 1 .. Cardinality(S) + 1 : i \notin S

NewFd == Unused(DOMAIN fds)
Opened(ino) == fds' = [d \in DOMAIN fds \union {NewFd} |-> IF d = NewFd THEN ino ELSE fds[d]]
Closed(d) == fds' = [e \in DOMAIN fds \ {d} |-> fds[e]]

\* The paths a shell's commands are about; a change of one by another shell is noted.
Concerns(r, p) == \E i \in DOMAIN r.stack :
                      p \in {r.stack[i].path, r.stack[i].src, r.stack[i].dst}
Mixes(s, p) == [odd EXCEPT !.mixed = @ \union {t \in Shells \ {s} : Concerns(sh[t], p)}]

\* vfs.open with CREAT, and with TRUNC when `cut`.
Creates(path, cut) ==
    LET ino == IF path \in DOMAIN tree THEN tree[path] ELSE Unused(Inodes)
    IN /\ path \notin Dirs /\ path # <<>> /\ Front(path) \in Dirs
       /\ tree' = [p \in DOMAIN tree \union {path} |-> IF p = path THEN ino ELSE tree[p]]
       /\ text' = [i \in DOMAIN text \union {ino} |->
                     IF i = ino /\ (cut \/ path \notin DOMAIN tree) THEN <<>> ELSE text[i]]
       /\ Opened(ino)

\* vfs.write at an offset; behind the end of a file that was cut meanwhile, zeros come
\* first, which no text may contain.
Overlaid(old, at, new) ==
    LET end == at + Len(new)
    IN [i \in 1 .. IF end > Len(old) THEN end ELSE Len(old) |->
          IF i > at /\ i <= end THEN new[i - at]
          ELSE IF i <= Len(old) THEN old[i] ELSE [Blank EXCEPT !.py = "bad"]]

May == odd.errs < MaxErrors
Failed == [odd EXCEPT !.errs = @ + 1]
FailedWith(d) == [Failed EXCEPT !.leaked = @ \union {d}]

Init ==
    /\ sh = [s \in Shells |-> [at |-> "prompt", n |-> 0, line |-> Blank, block |-> <<>>,
                               cwd |-> <<>>, ns |-> <<>>, exit |-> FALSE, stack |-> <<>>,
                               fd |-> 0]]
    /\ tree = [p \in {Files[i].path : i \in DOMAIN Files} |->
                  CHOOSE i \in DOMAIN Files : Files[i].path = p]
    /\ text = [i \in DOMAIN Files |-> Files[i].text]
    /\ fds = <<>>
    /\ socks = {}
    /\ imports = [loaded |-> {}, cache |-> <<>>]
    /\ odd = [errs |-> 0, mixed |-> {}, leaked |-> {}, free |-> {}, stale |-> FALSE,
              escaped |-> {}]

-----------------------------------------------------------------------------
\* The prompt.
\* What is typed on one line and starts with a plain word is a command, unless the word is
\* bound; help, halt, exit and quit alone are built in.
_try_shell_dispatch(r, s, block) ==
    LET l == Head(block)
    IN CASE Len(block) > 1 \/ l.py # "" \/ l.cmd = "" -> Push(r, Evaluated(block))
         [] l.cmd \in {"help", "halt"} /\ l.args = <<>> -> Finished(r)
         [] l.cmd \in {"exit", "quit"} /\ l.args = <<>> -> Finished(_request_exit(r, s))
         [] l.cmd \in Bound -> Push(r, Evaluated(block))
         [] OTHER -> Push(r, _run_script(<<"bin", l.cmd>>, l.args))

\* _process_line, mutated to keep the block it runs.
_process_lineKept(r, s) ==
    LET block == Append(r.block, r.line)
    IN IF r.line = Blank /\ r.block = <<>> THEN [r EXCEPT !.at = "prompt"]
       ELSE IF _is_incomplete(block) THEN [r EXCEPT !.block = block, !.at = "prompt"]
       ELSE _try_shell_dispatch([r EXCEPT !.block = block, !.at = "run"], s, block)

_process_line(r, s) ==
    LET block == Append(r.block, r.line)
    IN IF r.line = Blank /\ r.block = <<>> THEN [r EXCEPT !.at = "prompt"]
       ELSE IF _is_incomplete(block) THEN [r EXCEPT !.block = block, !.at = "prompt"]
       ELSE _try_shell_dispatch([r EXCEPT !.block = <<>>, !.at = "run"], s, block)

\* run reads a line; the end of the input ends a terminal and not the console.
read_line(s) ==
    /\ sh[s].at = "prompt" /\ sh[s].n < MaxLines
    /\ \/ s \in CanExit /\ sh' = [sh EXCEPT ![s].at = "done"]
       \/ \E l \in Lines :
            LET r == [sh[s] EXCEPT !.n = @ + 1, !.line = l]
            IN sh' = [sh EXCEPT ![s] = IF l = Blank THEN _process_line(r, s)
                                       ELSE [r EXCEPT !.at = "history"]]
    /\ odd' = [odd EXCEPT !.mixed = @ \ {s}, !.escaped = @ \ {s}]
    /\ UNCHANGED <<files, fds, socks, imports>>

\* _history_persist appends the line; what fails there is ignored.
history_open(s) ==
    /\ sh[s].at = "history"
    /\ \/ /\ Creates(HISTORY_FILE, FALSE)
          /\ sh' = [sh EXCEPT ![s].at = "append", ![s].fd = NewFd]
          /\ odd' = Mixes(s, HISTORY_FILE)
       \/ /\ Front(HISTORY_FILE) \notin Dirs \/ May
          /\ sh' = [sh EXCEPT ![s] = _process_line(@, s)]
          /\ odd' = IF Front(HISTORY_FILE) \in Dirs THEN Failed ELSE odd
          /\ UNCHANGED <<files, fds>>
    /\ UNCHANGED <<socks, imports>>

history_write(s) ==
    /\ sh[s].at = "append"
    /\ \/ text' = [text EXCEPT ![fds[sh[s].fd]] = Append(@, sh[s].line)]
          /\ odd' = Mixes(s, HISTORY_FILE)
       \/ May /\ odd' = Failed /\ UNCHANGED text
    /\ Closed(sh[s].fd)
    /\ sh' = [sh EXCEPT ![s] = _process_line([@ EXCEPT !.fd = 0], s)]
    /\ UNCHANGED <<tree, socks, imports>>

\* _sh_repl: its lines are commands; `exit` or the end of the input leaves it.
sub_read(s) ==
    /\ sh[s].stack # <<>> /\ Top(sh[s]).op = "sub" /\ sh[s].n < MaxLines
    /\ LET r == [sh[s] EXCEPT !.n = @ + 1]
       IN \/ sh' = [sh EXCEPT ![s] = Pop(r)]
          \/ \E l \in {x \in Lines : x.py = ""} :
               sh' = [sh EXCEPT ![s] = CASE l.cmd = "exit" /\ l.args = <<>> -> Pop(r)
                                         [] l = Blank -> r
                                         [] l.cmd = "help" /\ l.args = <<>> -> r
                                         [] OTHER -> Push(r, _run_sh_parts(l, r.cwd))]
    /\ odd' = [odd EXCEPT !.mixed = @ \ {s}]
    /\ UNCHANGED <<files, fds, socks, imports>>

At(s, pc) == sh[s].stack # <<>> /\ Top(sh[s]).pc = pc

-----------------------------------------------------------------------------
\* The statements of a text, at the prompt or of a script.
Statement(s, py) == At(s, "exec") /\ Top(sh[s]).code # <<>> /\ Head(Top(sh[s]).code).py \in py
Advanced(s) == Replace(sh[s], [Top(sh[s]) EXCEPT !.code = Tail(@)])

exec_call(s) ==
    /\ Statement(s, {"sh", "repl", "run"}) /\ Len(sh[s].stack) < MaxDepth
    /\ LET l == Head(Top(sh[s]).code)
       IN sh' = [sh EXCEPT ![s] =
                   Push(Advanced(s), CASE l.py = "sh" -> _run_sh_parts(l, @.cwd)
                                       [] l.py = "repl" -> Frame
                                       [] OTHER -> _run_script(Normal(l.args[1]), <<>>))]
    /\ UNCHANGED <<files, fds, socks, imports, odd>>

\* The rest has no await: what is bound or blank, exit(), an assignment to cwd, and what
\* raises, SystemExit as well.  In a script cwd is the script's own, at the prompt the shell's.
exec_plain(s) ==
    /\ Statement(s, {"", "open", "body", "exit", "cwd", "raise", "SystemExit", "bad", "pop"})
    /\ LET l == Head(Top(sh[s]).code)
           r == Advanced(s)
           f == Top(r)
       IN /\ sh' = [sh EXCEPT ![s] =
                 CASE l.py = "exit" -> _request_exit(r, s)
                   [] l.py = "cwd" /\ f.op = "script"
                        -> Replace(r, [f EXCEPT !.cwd = Normal(l.args[1])])
                   [] l.py = "cwd" /\ f.op = "eval" -> [r EXCEPT !.ns = Normal(l.args[1])]
                   [] l.py = "bad" -> Raise(r, s, "syntax")
                   [] l.py = "SystemExit" -> Raise(r, s, "exit")
                   [] l.py = "raise" \/ (l.py = "" /\ l # Blank /\ l.cmd \notin Bound)
                        -> Raise(r, s, "other")
                   [] OTHER -> r]
          /\ odd' = [odd EXCEPT !.free = IF l.py = "cwd" THEN @ \union {s} ELSE @,
                                !.escaped = IF l.py = "SystemExit" THEN @ \union {s} ELSE @]
          /\ imports' = [imports EXCEPT !.loaded = IF l.py = "pop" THEN @ \ {l.cmd} ELSE @]
    /\ UNCHANGED <<files, fds, socks>>

\* _VfsFinder.find_spec: the first directory that has the package or the module.
find_spec(m) ==
    LET Candidates(d) == <<d \o <<m, "__init__">>, d \o <<m>>>>
        all == FlattenSeq([i \in DOMAIN search_path |-> Candidates(search_path[i])])
    IN SelectSeq(all, LAMBDA p : p \in DOMAIN tree)

\* exec_module, mutated to take the code of the cache whatever the file says.
CachedStale(p, data) ==
    IF p \in DOMAIN imports.cache THEN imports.cache[p].code ELSE Compiled(data)

Cached(p, data) ==
    IF p \in DOMAIN imports.cache /\ imports.cache[p].data = data
    THEN imports.cache[p].code ELSE Compiled(data)

exec_import(s) ==
    /\ Statement(s, {"import"})
    /\ LET m == Head(Top(sh[s]).code).cmd
           spec == find_spec(m)
           p == Head(spec)
           data == text[tree[p]]
           code == Cached(p, data)
       IN \/ /\ m \in imports.loaded
             /\ sh' = [sh EXCEPT ![s] = Advanced(s)]
             /\ UNCHANGED <<imports, odd>>
          \/ /\ m \notin imports.loaded /\ spec = <<>>
             /\ sh' = [sh EXCEPT ![s] = Raise(Advanced(s), s, "other")]
             /\ UNCHANGED <<imports, odd>>
          \/ /\ m \notin imports.loaded /\ spec # <<>>
             /\ LET bad == \E i \in DOMAIN code : code[i].py = "bad"
                IN /\ sh' = [sh EXCEPT ![s] = IF bad THEN Raise(Advanced(s), s, "syntax")
                                              ELSE Advanced(s)]
                   /\ imports' = IF bad THEN imports ELSE
                        [loaded |-> imports.loaded \union {m},
                         cache |-> [q \in DOMAIN imports.cache \union {p} |->
                                      IF q = p THEN [data |-> data, code |-> code]
                                      ELSE imports.cache[q]]]
             /\ odd' = [odd EXCEPT !.stale = @ \/ code # Compiled(data)]
    /\ UNCHANGED <<files, fds, socks>>

\* The end of a text; a script leaves its cwd to the shell.
exec_end(s) ==
    /\ At(s, "exec") /\ Top(sh[s]).code = <<>>
    /\ sh' = [sh EXCEPT ![s] = IF Top(@).op = "script" THEN Pop(_update_cwd(@, Top(@).cwd))
                               ELSE Pop(@)]
    /\ UNCHANGED <<files, fds, socks, imports, odd>>

-----------------------------------------------------------------------------
\* _run_script reads the file.
Holding(s, pc, d) == [sh EXCEPT ![s] = Replace(@, [Top(@) EXCEPT !.pc = pc, !.fd = d])]
Goes(s, r) == sh' = [sh EXCEPT ![s] = r]

script_open(s) ==
    /\ At(s, "open")
    /\ LET p == Top(sh[s]).path
       IN \/ /\ p \in DOMAIN tree /\ Opened(tree[p])
             /\ sh' = Holding(s, "read", NewFd)
             /\ UNCHANGED odd
          \/ /\ p \notin DOMAIN tree \/ May
             /\ Goes(s, Pop(sh[s]))
             /\ odd' = IF p \in DOMAIN tree THEN Failed ELSE odd
             /\ UNCHANGED fds
    /\ UNCHANGED <<files, socks, imports>>

\* mv, mutated not to compare its paths.
NothingToDoEver(name, args, src, dst) ==
    \/ name = "cat" /\ args = <<>>
    \/ name \in {"cp", "mv", "ftp"} /\ Len(args) < 2

\* The arguments with which a command returns at once.
NothingToDo(name, args, src, dst) ==
    \/ name = "cat" /\ args = <<>>
    \/ name \in {"cp", "mv", "ftp"} /\ Len(args) < 2
    \/ name = "mv" /\ src = dst

\* _try_precompiled_script: a text that is the one of commands.py stands for the function
\* there, which gets the arguments and the cwd of now.  Any other text is run as it is.
_try_precompiled_script(r, f, data) ==
    LET name == Last(f.path)
        Arg(i) == IF Len(f.args) >= i THEN _abspath(f.args[i], r.cwd) ELSE <<>>
        two == name \in {"cp", "mv"}
        g == [f EXCEPT !.fd = 0, !.data = <<>>, !.cwd = r.cwd,
                       !.src = IF two THEN Arg(1) ELSE IF name = "ftp" THEN Arg(2) ELSE <<>>,
                       !.dst = IF two THEN Arg(2) ELSE IF name = "ftp" THEN Arg(2) ELSE <<>>,
                       !.pc = IF two THEN "src_open"
                              ELSE IF name = "ftp" THEN Head(f.args[1]) ELSE name]
    IN IF Len(f.path) = 2 /\ f.path[1] = "bin" /\ name \in DOMAIN SCRIPTS /\ SCRIPTS[name] = data
       THEN IF NothingToDo(name, f.args, g.src, g.dst) THEN Pop(r) ELSE Replace(r, g)
       ELSE Replace(r, [f EXCEPT !.fd = 0, !.data = <<>>, !.pc = "exec", !.cwd = r.cwd,
                                 !.code = Compiled(data)])

\* Once all is read and the file closed it is decoded.
script_read(s) ==
    /\ At(s, "read")
    /\ LET f == Top(sh[s])
           all == text[fds[f.fd]]
           k == Len(f.data) + 1
           decodes == \A i \in DOMAIN f.data : f.data[i].py # "bytes"
       IN \/ /\ k <= Len(all)
             /\ Goes(s, Replace(sh[s], [f EXCEPT !.data = Append(@, all[k])]))
             /\ UNCHANGED <<fds, odd>>
          \/ /\ k > Len(all)
             /\ Closed(f.fd)
             /\ Goes(s, IF decodes THEN _try_precompiled_script(sh[s], f, f.data)
                        ELSE Raise(sh[s], s, "other"))
             /\ odd' = [odd EXCEPT !.escaped = IF decodes THEN @ ELSE @ \union {s}]
          \/ /\ May /\ odd' = FailedWith(f.fd)
             /\ Goes(s, Raise(sh[s], s, "other"))
             /\ UNCHANGED fds
    /\ UNCHANGED <<files, socks, imports>>

-----------------------------------------------------------------------------
\* The commands.
ls(s) ==
    /\ At(s, "ls")
    /\ Goes(s, Pop(sh[s]))
    /\ UNCHANGED <<files, fds, socks, imports, odd>>

\* cd, mutated not to read the directory.
cdBlind(s) ==
    /\ At(s, "cd")
    /\ LET f == Top(sh[s])
           target == IF f.args = <<>> THEN <<>> ELSE _abspath(f.args[1], f.cwd)
       IN Goes(s, Pop(_update_cwd(sh[s], target)))
    /\ UNCHANGED <<files, fds, socks, imports, odd>>

cd(s) ==
    /\ At(s, "cd")
    /\ LET f == Top(sh[s])
           target == IF f.args = <<>> THEN <<>> ELSE _abspath(f.args[1], f.cwd)
       IN \/ /\ target \in Dirs
             /\ Goes(s, Pop(_update_cwd(sh[s], target)))
             /\ UNCHANGED odd
          \/ /\ target \notin Dirs \/ May
             /\ Goes(s, Raise(sh[s], s, "other"))
             /\ odd' = IF target \in Dirs THEN Failed ELSE odd
    /\ UNCHANGED <<files, fds, socks, imports>>

\* cat goes through its arguments; a file it cannot open or read is reported.
CatNext(r) == LET f == Top(r)
              IN IF Len(f.args) = 1 THEN Pop(r)
                 ELSE Replace(r, [f EXCEPT !.pc = "cat", !.args = Tail(@), !.fd = 0,
                                           !.data = <<>>])

cat_open(s) ==
    /\ At(s, "cat")
    /\ LET f == Top(sh[s])
           p == _abspath(f.args[1], f.cwd)
       IN \/ /\ p \in DOMAIN tree /\ Opened(tree[p])
             /\ sh' = Holding(s, "cat_read", NewFd)
             /\ UNCHANGED odd
          \/ /\ p \notin DOMAIN tree \/ May
             /\ Goes(s, CatNext(sh[s]))
             /\ odd' = IF p \in DOMAIN tree THEN Failed ELSE odd
             /\ UNCHANGED fds
    /\ UNCHANGED <<files, socks, imports>>

cat_read(s) ==
    /\ At(s, "cat_read")
    /\ LET f == Top(sh[s])
           all == text[fds[f.fd]]
           k == Len(f.data) + 1
       IN \/ /\ k <= Len(all)
             /\ Goes(s, Replace(sh[s], [f EXCEPT !.data = Append(@, all[k])]))
             /\ UNCHANGED <<fds, odd>>
          \/ /\ k > Len(all) \/ May
             /\ Closed(f.fd)
             /\ Goes(s, CatNext(sh[s]))
             /\ odd' = IF k > Len(all) THEN odd ELSE Failed
    /\ UNCHANGED <<files, socks, imports>>

\* _read_all and _write_all, for cp and mv.
src_open(s) ==
    /\ At(s, "src_open")
    /\ LET p == Top(sh[s]).src
       IN \/ /\ p \in DOMAIN tree /\ Opened(tree[p])
             /\ sh' = Holding(s, "src_read", NewFd)
             /\ UNCHANGED odd
          \/ /\ p \notin DOMAIN tree \/ May
             /\ Goes(s, Raise(sh[s], s, "other"))
             /\ odd' = IF p \in DOMAIN tree THEN Failed ELSE odd
             /\ UNCHANGED fds
    /\ UNCHANGED <<files, socks, imports>>

_read_all(s) ==
    /\ At(s, "src_read")
    /\ LET f == Top(sh[s])
           all == text[fds[f.fd]]
           k == Len(f.data) + 1
       IN \/ /\ k <= Len(all)
             /\ Goes(s, Replace(sh[s], [f EXCEPT !.data = Append(@, all[k])]))
             /\ UNCHANGED <<fds, odd>>
          \/ /\ k > Len(all)
             /\ Closed(f.fd)
             /\ sh' = Holding(s, "dst_open", 0)
             /\ UNCHANGED odd
          \/ /\ May /\ odd' = FailedWith(f.fd)
             /\ Goes(s, Raise(sh[s], s, "other"))
             /\ UNCHANGED fds
    /\ UNCHANGED <<files, socks, imports>>

dst_open(s) ==
    /\ At(s, "dst_open")
    /\ LET p == Top(sh[s]).dst
       IN \/ /\ Creates(p, TRUE)
             /\ sh' = Holding(s, "dst_write", NewFd)
             /\ odd' = Mixes(s, p)
          \/ /\ p \in Dirs \/ Front(p) \notin Dirs \/ May
             /\ Goes(s, Raise(sh[s], s, "other"))
             /\ odd' = IF p \in Dirs \/ Front(p) \notin Dirs THEN odd ELSE Failed
             /\ UNCHANGED <<files, fds>>
    /\ UNCHANGED <<socks, imports>>

\* mv, mutated to go on after a failed write.
_write_allForgiving(s) ==
    /\ At(s, "dst_write")
    /\ LET f == Top(sh[s])
       IN /\ \/ /\ text' = [text EXCEPT ![fds[f.fd]] = Overlaid(@, 0, f.data)]
                /\ odd' = Mixes(s, f.dst)
             \/ May /\ odd' = Failed /\ UNCHANGED text
          /\ Closed(f.fd)
          /\ IF Last(f.path) = "mv" THEN sh' = Holding(s, "unlink", 0)
             ELSE Goes(s, Pop(sh[s]))
    /\ UNCHANGED <<tree, socks, imports>>

_write_all(s) ==
    /\ At(s, "dst_write")
    /\ LET f == Top(sh[s])
       IN \/ /\ text' = [text EXCEPT ![fds[f.fd]] = Overlaid(@, 0, f.data)]
             /\ odd' = Mixes(s, f.dst)
             /\ Closed(f.fd)
             /\ IF Last(f.path) = "mv" THEN sh' = Holding(s, "unlink", 0)
                ELSE Goes(s, Pop(sh[s]))
          \/ /\ May /\ odd' = FailedWith(f.fd)
             /\ Goes(s, Raise(sh[s], s, "other"))
             /\ UNCHANGED <<text, fds>>
    /\ UNCHANGED <<tree, socks, imports>>

mv_unlink(s) ==
    /\ At(s, "unlink")
    /\ LET p == Top(sh[s]).src
       IN \/ /\ p \in DOMAIN tree
             /\ tree' = [q \in DOMAIN tree \ {p} |-> tree[q]]
             /\ odd' = Mixes(s, p)
             /\ Goes(s, Pop(sh[s]))
          \/ /\ p \notin DOMAIN tree \/ May
             /\ Goes(s, Raise(sh[s], s, "other"))
             /\ odd' = IF p \in DOMAIN tree THEN Failed ELSE odd
             /\ UNCHANGED tree
    /\ UNCHANGED <<text, fds, socks, imports>>

-----------------------------------------------------------------------------
\* ftp.  What the finally clauses do, whichever call has failed.
Finally(s) ==
    /\ fds' = [d \in DOMAIN fds \ {Top(sh[s]).fd} |-> fds[d]]
    /\ socks' = socks \ {<<s, "conn">>, <<s, "listener">>}
    /\ Goes(s, Pop(sh[s]))

\* get: one listener of a port, one connection, one file.
ftp_listen(s) ==
    /\ At(s, "get")
    /\ IF \E t \in Shells : <<t, "listener">> \in socks
       THEN Goes(s, Pop(sh[s])) /\ UNCHANGED socks
       ELSE socks' = socks \union {<<s, "listener">>} /\ sh' = Holding(s, "accept", 0)
    /\ UNCHANGED <<files, fds, imports, odd>>

ftp_accept(s) ==
    /\ At(s, "accept")
    /\ socks' = (socks \ {<<s, "listener">>}) \union {<<s, "conn">>}
    /\ sh' = Holding(s, "ftp_open", 0)
    /\ UNCHANGED <<files, fds, imports, odd>>

ftp_open(s) ==
    /\ At(s, "ftp_open")
    /\ LET p == Top(sh[s]).dst
       IN \/ /\ Creates(p, TRUE)
             /\ sh' = Holding(s, "recv", NewFd)
             /\ odd' = Mixes(s, p)
             /\ UNCHANGED socks
          \/ /\ May /\ odd' = Failed
             /\ Finally(s)
             /\ UNCHANGED files
    /\ UNCHANGED imports

\* recv returns nothing at the end of the stream, and raises when the task is cancelled.
ftp_recv(s) ==
    /\ At(s, "recv")
    /\ \/ /\ Len(Top(sh[s]).data) < MaxStream
          /\ sh' = [sh EXCEPT ![s] = Replace(@, [Top(@) EXCEPT !.pc = "ftp_write",
                                                                !.data = Append(@, Blank)])]
          /\ UNCHANGED <<fds, socks>>
       \/ Finally(s)
    /\ UNCHANGED <<files, imports, odd>>

ftp_write(s) ==
    /\ At(s, "ftp_write")
    /\ LET f == Top(sh[s])
       IN \/ /\ text' = [text EXCEPT ![fds[f.fd]] = Overlaid(@, Len(f.data) - 1, <<Blank>>)]
             /\ sh' = Holding(s, "recv", f.fd)
             /\ odd' = Mixes(s, f.dst)
             /\ UNCHANGED <<fds, socks>>
          \/ /\ May /\ odd' = Failed
             /\ Finally(s)
             /\ UNCHANGED text
    /\ UNCHANGED <<tree, imports>>

\* put: the file is open before the connection is.
put_open(s) ==
    /\ At(s, "put")
    /\ LET p == Top(sh[s]).src
       IN \/ /\ p \in DOMAIN tree /\ Opened(tree[p])
             /\ sh' = Holding(s, "connect", NewFd)
             /\ UNCHANGED odd
          \/ /\ p \notin DOMAIN tree \/ May
             /\ Goes(s, Pop(sh[s]))
             /\ odd' = IF p \in DOMAIN tree THEN Failed ELSE odd
             /\ UNCHANGED fds
    /\ UNCHANGED <<files, socks, imports>>

\* _ftp_put, mutated to close the file only after a connection.
put_connectLeak(s) ==
    /\ At(s, "connect")
    /\ \/ /\ socks' = socks \union {<<s, "conn">>}
          /\ sh' = Holding(s, "put_read", Top(sh[s]).fd)
          /\ UNCHANGED <<fds, odd>>
       \/ May /\ odd' = Failed /\ Goes(s, Pop(sh[s])) /\ UNCHANGED <<fds, socks>>
    /\ UNCHANGED <<files, imports>>

put_connect(s) ==
    /\ At(s, "connect")
    /\ \/ /\ socks' = socks \union {<<s, "conn">>}
          /\ sh' = Holding(s, "put_read", Top(sh[s]).fd)
          /\ UNCHANGED <<fds, odd>>
       \/ May /\ odd' = Failed /\ Finally(s)
    /\ UNCHANGED <<files, imports>>

\* A chunk is read and sent; either call may fail.
put_read(s) ==
    /\ At(s, "put_read")
    /\ LET f == Top(sh[s])
           all == text[fds[f.fd]]
           k == Len(f.data) + 1
       IN \/ /\ k <= Len(all)
             /\ Goes(s, Replace(sh[s], [f EXCEPT !.data = Append(@, all[k])]))
             /\ UNCHANGED <<fds, socks, odd>>
          \/ /\ k > Len(all) \/ May
             /\ Finally(s)
             /\ odd' = IF k > Len(all) THEN odd ELSE Failed
    /\ UNCHANGED <<files, imports>>

Next == \E s \in Shells :
    \/ read_line(s) \/ history_open(s) \/ history_write(s) \/ sub_read(s)
    \/ exec_call(s) \/ exec_plain(s) \/ exec_import(s) \/ exec_end(s)
    \/ script_open(s) \/ script_read(s)
    \/ ls(s) \/ cd(s) \/ cat_open(s) \/ cat_read(s)
    \/ src_open(s) \/ _read_all(s) \/ dst_open(s) \/ _write_all(s) \/ mv_unlink(s)
    \/ ftp_listen(s) \/ ftp_accept(s) \/ ftp_open(s) \/ ftp_recv(s) \/ ftp_write(s)
    \/ put_open(s) \/ put_connect(s) \/ put_read(s)

-----------------------------------------------------------------------------
\* _read_line_fallback, with Tab.  A line is a sequence of characters here; a name in the
\* namespace has attributes, and theirs have none.
\* The token before the cursor, for a set of delimiters.
TokenAt(line, delimiters) ==
    LET ends == {i \in 0 .. Len(line) : i = 0 \/ line[i] \in delimiters}
    IN CHOOSE i \in ends : \A j \in ends : j <= i

StartsWith(s, p) == Len(p) <= Len(s) /\ SubSeq(s, 1, Len(p)) = p

\* Names gives the attributes of every object in the namespace.
_complete_python(line) ==
    LET start == TokenAt(line, {" ", "/"})
        token == SubSeq(line, start + 1, Len(line))
        dots == {i \in DOMAIN token : token[i] = "."}
        dot == CHOOSE i \in dots : \A j \in dots : j <= i
        head == SubSeq(token, 1, dot - 1)
        partial == SubSeq(token, dot + 1, Len(token))
    IN IF dots = {} \/ head \notin DOMAIN Names THEN {}
       ELSE {SubSeq(line, 1, start + dot) \o a :
               a \in {x \in Names[head] : /\ StartsWith(x, partial)
                                          /\ Head(x) = "_" => StartsWith(partial, <<"_">>)}}

_filename_completion_candidates(line, entries) ==
    LET start == TokenAt(line, {" "})
        token == SubSeq(line, start + 1, Len(line))
        leading == IF StartsWith(token, <<".", "/">>) THEN <<".", "/">> ELSE <<>>
        prefix == SubSeq(token, Len(leading) + 1, Len(token))
    IN IF \E i \in DOMAIN prefix : prefix[i] = "/" THEN {}
       ELSE {SubSeq(line, 1, start) \o leading \o e : e \in {x \in entries : StartsWith(x, prefix)}}

_completion_matches(line, entries) ==
    LET py == _complete_python(line)
    IN IF py # {} THEN py ELSE _filename_completion_candidates(line, entries)

\* _common_prefix, mutated to compare one character too few.
_common_prefixShort(items) ==
    LET one == CHOOSE x \in items : \A y \in items : Len(x) <= Len(y)
        agree == {i \in 0 .. Len(one) - 1 : \A x \in items : SubSeq(x, 1, i) = SubSeq(one, 1, i)}
    IN SubSeq(one, 1, CHOOSE i \in agree : \A j \in agree : j <= i)

_common_prefix(items) ==
    LET one == CHOOSE x \in items : \A y \in items : Len(x) <= Len(y)
        agree == {i \in 0 .. Len(one) : \A x \in items : SubSeq(x, 1, i) = SubSeq(one, 1, i)}
    IN SubSeq(one, 1, CHOOSE i \in agree : \A j \in agree : j <= i)

TypingInit == \E e \in SUBSET Entries : typing = [buf |-> <<>>, entries |-> e, was |-> <<>>,
                                                  tab |-> FALSE]

TypingNext ==
    \/ \E c \in Keys : /\ Len(typing.buf) < MaxBuf
                       /\ typing' = [typing EXCEPT !.buf = Append(@, c), !.was = <<>>, !.tab = FALSE]
    \/ /\ typing.buf # <<>>
       /\ typing' = [typing EXCEPT !.buf = Front(@), !.was = <<>>, !.tab = FALSE]
    \/ LET matches == _completion_matches(typing.buf, typing.entries)
           completed == _common_prefix(matches)
       IN typing' = [typing EXCEPT !.tab = TRUE, !.was = typing.buf,
                                   !.buf = IF matches # {} /\ Len(completed) > Len(@)
                                           THEN completed ELSE @]

-----------------------------------------------------------------------------
\* cd, _update_cwd, _abspath: the working directory of a shell is a directory, with no
\* dots in it, and the one its scripts and its namespace see, unless a text assigned cwd
\* itself.
CwdSound == \A s \in Shells \ odd.free : sh[s].cwd \in Dirs /\ sh[s].ns = sh[s].cwd

\* mv: when it removes the source there is another file with what it held, whatever failed
\* before, unless another shell changed one of the two in between.
MoveKeeps ==
    \A s \in Shells \ odd.mixed : At(s, "unlink") =>
        LET f == Top(sh[s])
        IN /\ f.src # f.dst /\ {f.src, f.dst} \subseteq DOMAIN tree
           /\ text[tree[f.dst]] = text[tree[f.src]]

\* Every open descriptor, listener and connection belongs to one call that is under way;
\* the rest were lost by a failed read or write in _read_all, _write_all or _run_script.
NothingLeft ==
    LET held == {<<s, i>> \in Shells \X (0 .. MaxDepth) :
                   IF i = 0 THEN sh[s].fd # 0
                   ELSE i \in DOMAIN sh[s].stack /\ sh[s].stack[i].fd # 0}
        Of(h) == IF h[2] = 0 THEN sh[h[1]].fd ELSE sh[h[1]].stack[h[2]].fd
    IN /\ DOMAIN fds = {Of(h) : h \in held} \union odd.leaked
       /\ \A g, h \in held : g # h => Of(g) # Of(h)
       /\ \A h \in held : Of(h) \notin odd.leaked
       /\ \A x \in socks : \E i \in DOMAIN sh[x[1]].stack :
             sh[x[1]].stack[i].pc \in {"accept", "ftp_open", "recv", "ftp_write", "put_read"}

\* run, _process_line: the console never ends by request.  A shell ends unasked only by a
\* bare command, never by Python code at the prompt, whatever scripts that runs; and by a
\* bare command only if the read of a script has failed, a script was no UTF-8, or one
\* raised SystemExit.  The lines kept at a prompt are an open block.
PromptSound ==
    \A s \in Shells :
        /\ sh[s].at = "done" => s \in CanExit
        /\ sh[s].at = "dead" => /\ sh[s].line.py = "" /\ sh[s].line.cmd \notin Bound \union {""}
                               /\ (odd.errs > 0 \/ s \in odd.escaped)
        /\ sh[s].block # <<>> => _is_incomplete(sh[s].block)

\* vfs_import.py, _code_cache: a module that is imported again runs the text its file has
\* now.
ShellSound == CwdSound /\ MoveKeeps /\ NothingLeft /\ PromptSound /\ ~odd.stale

\* _read_line_fallback: Tab keeps what is typed and adds exactly what all completions
\* have in common.
TabSound ==
    typing.tab =>
        LET all == _completion_matches(typing.was, typing.entries)
        IN /\ StartsWith(typing.buf, typing.was)
           /\ all = {} => typing.buf = typing.was
           /\ \A x \in all : StartsWith(x, typing.buf)
           /\ all # {} => \E x, y \in all :
                LET n == Len(typing.buf) + 1
                IN Len(x) < n \/ Len(y) < n \/ x[n] # y[n]
=============================================================================
