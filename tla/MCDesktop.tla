------------------------------ MODULE MCDesktop ------------------------------
(***************************************************************************)
(* What the user sees and hears, for TLC.  One part is chosen at the start *)
(* and takes all the steps.                                                *)
(*   desktop  two windows and two launches of two applications, one of     *)
(*            which has a menu and is pinned (Compositor)                  *)
(*   bridge   two threads that send two frames, one write of which may     *)
(*            fail or be repeated in part (Bridge)                         *)
(*   com2     reads and writes on COM2 and on two TCP connections          *)
(*   console  the same on the virtio console, on queues of two buffers     *)
(*            whose index wraps                                            *)
(*   audio    two streams on a pool of two periods, with a used index that *)
(*            wraps (Audio)                                                *)
(*   line     one shell on a buffer of two characters and a history of     *)
(*            three lines (LineEdit)                                       *)
(*   keys     four events of a PS/2 keyboard from boot on (Input)          *)
(*   mouse    two events of a keyboard and a mouse from boot on            *)
(*   host     three events of a keyboard and of the bridge's host, with    *)
(*            its mouse                                                    *)
(*   hid      four events of virtio-input on a ring of two                 *)
(*   bind     the key bindings with one restart                            *)
(*   shell    three lines in a terminal, with scripts, imports and a call  *)
(*            that fails (Shell)                                           *)
(*   shells   one command in each of two shells, on the same two files     *)
(*   tab      what the reader without linenoise completes                  *)
(***************************************************************************)
EXTENDS Audio

VARIABLES part,
          desk, tasks, made,
          next_id, opened, pending, lists, lock, th, wire, inbox, host, casts, sent, bad, wrong,
          rx, rxq, rd, tx, tcp,
          session, history, lost,
          user, queue, app, unknown, ctl, irqs, boot, kbd, typed, mouse, ptr, mixed,
          vq, hid, reshift, bind, file, saves, reboots,
          sh, tree, text, fds, socks, imports, odd, typing

D == INSTANCE Compositor WITH Apps <- {"edit", "demo"}, Pinned <- <<"edit">>,
                              Menus <- [edit |-> 1, demo |-> 0], KeyApp <- "edit",
                              MaxWindows <- 2, MaxLaunches <- 2
B == INSTANCE Bridge WITH Threads <- {"t1", "t2"}, MaxFrames <- 2, MaxCasts <- 1, MaxLists <- 2,
                          Console <- FALSE, QUEUE_SIZE <- 1, IdxMod <- 1, BUF_SIZE <- 1,
                          MaxBytes <- 0, MaxWrites <- 0, Segments <- 0, MaxTries <- 0,
                          MaxConns <- 0, odd <- bad
O == INSTANCE Bridge WITH Threads <- {}, MaxFrames <- 0, MaxCasts <- 0, MaxLists <- 0,
                          Console <- FALSE, QUEUE_SIZE <- 1, IdxMod <- 1, BUF_SIZE <- 1,
                          MaxBytes <- 2, MaxWrites <- 2, Segments <- 2, MaxTries <- 1,
                          MaxConns <- 2, odd <- bad
X == INSTANCE Bridge WITH Threads <- {}, MaxFrames <- 0, MaxCasts <- 0, MaxLists <- 0,
                          Console <- TRUE, QUEUE_SIZE <- 2, IdxMod <- 4, BUF_SIZE <- 2,
                          MaxBytes <- 6, MaxWrites <- 5, Segments <- 1, MaxTries <- 0,
                          MaxConns <- 0, odd <- bad
L == INSTANCE LineEdit WITH Slots <- 1, BufLen <- 2, MaxHistory <- 3
K == INSTANCE Input WITH Width <- 3, TABLET_RANGE <- 5, KeyBuffer <- 1,
                         QUEUE_SIZE <- 2, IndexMod <- 4, RingFull <- FALSE,
                         Keys <- {30, 42}, Devices <- {"kbd"}, MaxEvents <- 4,
                         Rebound <- {}, Combos <- {}, tasks <- saves
M == INSTANCE Input WITH Width <- 3, TABLET_RANGE <- 5, KeyBuffer <- 0,
                         QUEUE_SIZE <- 2, IndexMod <- 4, RingFull <- TRUE,
                         Keys <- {30}, Devices <- {"kbd", "aux"}, MaxEvents <- 2,
                         Rebound <- {}, Combos <- {}, tasks <- saves
H == INSTANCE Input WITH Width <- 3, TABLET_RANGE <- 5, KeyBuffer <- 0,
                         QUEUE_SIZE <- 2, IndexMod <- 4, RingFull <- FALSE,
                         Keys <- {30, 58}, Devices <- {"kbd", "host"}, MaxEvents <- 3,
                         Rebound <- {}, Combos <- {}, tasks <- saves
V == INSTANCE Input WITH Width <- 3, TABLET_RANGE <- 5, KeyBuffer <- 0,
                         QUEUE_SIZE <- 2, IndexMod <- 4, RingFull <- FALSE,
                         Keys <- {30, 42}, Devices <- {"aux"}, MaxEvents <- 4,
                         Rebound <- {}, Combos <- {}, tasks <- saves
I == INSTANCE Input WITH Width <- 3, TABLET_RANGE <- 5, KeyBuffer <- 0,
                         QUEUE_SIZE <- 2, IndexMod <- 4, RingFull <- FALSE,
                         Keys <- {}, Devices <- {}, MaxEvents <- 1,
                         Rebound <- {2, 3}, Combos <- {<<"TAB", 12>>}, tasks <- saves

Words(py, cmd, args) == [py |-> py, cmd |-> cmd, args |-> args]
Bare(cmd, args) == Words("", cmd, args)
Commands == <<"ls", "cd", "cat", "cp", "mv", "ftp">>
Scripts == [c \in {Commands[i] : i \in 1 .. 6} |-> <<Bare(c, <<>>)>>]
Quitter == [path |-> <<"bin", "q">>, text |-> <<Words("SystemExit", "", <<>>)>>]
NoText == [path |-> <<"bin", "w">>, text |-> <<Words("bytes", "", <<>>)>>]
Bin == [i \in 1 .. 6 |-> [path |-> <<"bin", Commands[i]>>, text |-> Scripts[Commands[i]]]]
       \o <<Quitter, NoText>>
SlashHome(f) == <<"", "home", f>>
HomeFiles == <<[path |-> <<"home", "m">>, text |-> <<Words("body", "", <<>>)>>],
               [path |-> <<"home", "s">>,
                text |-> <<Words("sh", "cd", <<<<"home">>>>), Words("exit", "", <<>>)>>],
               [path |-> <<"home", "t">>,
                text |-> <<Words("cwd", "", <<<<"", "bin">>>>), Words("raise", "", <<>>)>>],
               [path |-> <<"home", "u">>,
                text |-> <<Words("import", "m", <<>>),
                           Words("sh", "cp", <<SlashHome("s"), SlashHome("m")>>),
                           Words("pop", "m", <<>>), Words("import", "m", <<>>)>>]>>
TwoFiles == <<[path |-> <<"a">>, text |-> <<Words("body", "1", <<>>), Words("body", "2", <<>>)>>],
              [path |-> <<"b">>, text |-> <<Words("body", "3", <<>>)>>]>>
Z == INSTANCE Shell WITH
       Shells <- {1}, CanExit <- {1}, Dirs <- {<<>>, <<"bin">>, <<"home">>},
       Files <- Bin \o HomeFiles, SCRIPTS <- Scripts,
       Lines <- {Bare("", <<>>), Bare("cd", <<<<"home">>>>), Bare("cd", <<<<"..", "no">>>>),
                 Bare("mv", <<<<"", "home", ".", "m">>, SlashHome("m")>>),
                 Bare("", <<SlashHome("s")>>), Bare("exit", <<>>), Bare("no", <<>>),
                 Bare("q", <<>>), Bare("w", <<>>), Words("sh", "q", <<>>),
                 Words("sh", "", <<SlashHome("t")>>),
                 Words("repl", "", <<>>), Words("run", "", <<SlashHome("s")>>),
                 Words("run", "", <<SlashHome("u")>>),
                 Words("import", "q", <<>>), Words("open", "", <<>>), Words("bad", "", <<>>)},
       MaxLines <- 3, MaxDepth <- 4, MaxErrors <- 1, MaxStream <- 0,
       Keys <- {}, Entries <- {}, Names <- <<>>, MaxBuf <- 0
Y == INSTANCE Shell WITH
       Shells <- {1, 2}, CanExit <- {2}, Dirs <- {<<>>, <<"bin">>}, Files <- Bin \o TwoFiles,
       SCRIPTS <- Scripts,
       Lines <- {Bare("mv", <<<<"a">>, <<"b">>>>), Bare("cp", <<<<"b">>, <<"a">>>>),
                 Bare("cat", <<<<"a">>, <<"b">>>>), Bare("ftp", <<<<"get">>, <<"a">>>>),
                 Bare("ftp", <<<<"put">>, <<"a">>>>), Bare("ls", <<>>), Bare("q", <<>>)},
       MaxLines <- 1, MaxDepth <- 1, MaxErrors <- 1, MaxStream <- 1,
       Keys <- {}, Entries <- {}, Names <- <<>>, MaxBuf <- 0
C == INSTANCE Shell WITH
       Shells <- {}, CanExit <- {}, Lines <- {}, Dirs <- {<<>>}, Files <- <<>>, SCRIPTS <- <<>>,
       MaxLines <- 0, MaxDepth <- 0, MaxErrors <- 0, MaxStream <- 0,
       Keys <- {"v", "o", ".", "/", " ", "_"}, MaxBuf <- 4,
       Entries <- {<<"v">>, <<"v", "o">>, <<"o", "o", "/">>},
       Names <- [x \in {<<"v">>} |-> {<<"o">>, <<"o", "v">>, <<"_", "o">>, <<"v", "v">>}]

deskVars == <<desk, tasks, made>>
bridgeVars == <<next_id, opened, pending, lists, lock, th, wire, inbox, host, casts,
                sent, bad, wrong>>
linkVars == <<rx, rxq, rd, tx, tcp>>
lineVars == <<session, history, lost>>
queueVars == <<user, queue, app, unknown>>
ps2Vars == <<ctl, irqs, boot, kbd, typed, mouse, ptr, mixed>>
hidVars == <<vq, hid, reshift>>
bindVars == <<bind, file, saves, reboots>>
inputVars == <<queueVars, ps2Vars, hidVars, bindVars>>
shellVars == <<sh, tree, text, fds, socks, imports, odd>>
suiteVars == <<part, deskVars, bridgeVars, linkVars, vars, lineVars, inputVars, shellVars, typing>>

Unused(v) == v = 0
NoDesk == Unused(desk) /\ Unused(tasks) /\ Unused(made)
NoBridge == /\ Unused(next_id) /\ Unused(opened) /\ Unused(pending) /\ Unused(lists)
            /\ Unused(lock) /\ Unused(th) /\ Unused(wire) /\ Unused(inbox) /\ Unused(host)
            /\ Unused(casts) /\ Unused(sent) /\ Unused(bad) /\ Unused(wrong)
NoLink == Unused(rx) /\ Unused(rxq) /\ Unused(rd) /\ Unused(tx) /\ Unused(tcp)
NoLine == Unused(session) /\ Unused(history) /\ Unused(lost)
NoQueue == Unused(user) /\ Unused(queue) /\ Unused(app) /\ Unused(unknown)
NoPs2 == /\ Unused(ctl) /\ Unused(irqs) /\ Unused(boot) /\ Unused(kbd) /\ Unused(typed)
         /\ Unused(mouse) /\ Unused(ptr) /\ Unused(mixed)
NoHid == Unused(vq) /\ Unused(hid) /\ Unused(reshift)
NoBind == Unused(bind) /\ Unused(file) /\ Unused(saves) /\ Unused(reboots)
NoInput == NoQueue /\ NoPs2 /\ NoHid /\ NoBind
NoShell == /\ Unused(sh) /\ Unused(tree) /\ Unused(text) /\ Unused(fds) /\ Unused(socks)
           /\ Unused(imports) /\ Unused(odd)

SuiteInit ==
    \* In the other parts the sound card stays as it is at the start.
    /\ Init
    /\ \/ /\ NoShell /\ Unused(typing) /\ NoLink
          /\ \/ part = "desktop" /\ D!Init /\ NoBridge /\ NoLine /\ NoInput
             \/ part = "bridge" /\ B!Init /\ NoDesk /\ NoLine /\ NoInput
             \/ part = "audio" /\ NoDesk /\ NoBridge /\ NoLine /\ NoInput
             \/ part = "line" /\ L!Init /\ NoDesk /\ NoBridge /\ NoInput
             \/ /\ NoDesk /\ NoBridge /\ NoLine
                /\ \/ part \in {"keys", "mouse", "host"} /\ K!Ps2Init /\ NoHid /\ NoBind
                   \/ part = "hid" /\ V!VirtioInit /\ NoPs2 /\ NoBind
                   \/ part = "bind" /\ I!BindInit /\ NoQueue /\ NoPs2 /\ NoHid
       \/ /\ NoShell /\ Unused(typing) /\ NoDesk /\ NoBridge /\ NoLine /\ NoInput
          /\ \/ part = "com2" /\ O!LinkInit
             \/ part = "console" /\ X!LinkInit
       \/ /\ NoDesk /\ NoBridge /\ NoLink /\ NoLine /\ NoInput
          /\ \/ part = "shell" /\ Z!Init /\ Unused(typing)
             \/ part = "shells" /\ Y!Init /\ Unused(typing)
             \/ part = "tab" /\ C!TypingInit /\ NoShell

NotDesk == <<part, linkVars, bridgeVars, vars, lineVars, inputVars, shellVars, typing>>
NotBridge == <<part, linkVars, deskVars, vars, lineVars, inputVars, shellVars, typing>>
NotLink == <<part, deskVars, bridgeVars, vars, lineVars, inputVars, shellVars, typing>>
NotAudio == <<part, linkVars, deskVars, bridgeVars, lineVars, inputVars, shellVars, typing>>
NotLine == <<part, linkVars, deskVars, bridgeVars, vars, inputVars, shellVars, typing>>
NotInput == <<part, linkVars, deskVars, bridgeVars, vars, lineVars, shellVars, typing>>
NotShell == <<part, linkVars, deskVars, bridgeVars, vars, lineVars, inputVars, typing>>
NotTyping == <<part, linkVars, deskVars, bridgeVars, vars, lineVars, inputVars, shellVars>>

\* What a part leaves alone comes first: TLC then evaluates it once for all steps of a state.
SuiteNext ==
    \/ part = "desktop" /\ UNCHANGED NotDesk /\ D!Next
    \/ part = "bridge" /\ UNCHANGED NotBridge /\ B!Next
    \/ part = "com2" /\ UNCHANGED NotLink /\ O!LinkNext
    \/ part = "console" /\ UNCHANGED NotLink /\ X!LinkNext
    \/ part = "audio" /\ UNCHANGED NotAudio /\ Next
    \/ part = "line" /\ UNCHANGED NotLine /\ L!Next
    \/ part = "keys" /\ UNCHANGED NotInput /\ K!Ps2Next
    \/ part = "mouse" /\ UNCHANGED NotInput /\ M!Ps2Next
    \/ part = "host" /\ UNCHANGED NotInput /\ H!Ps2Next
    \/ part = "hid" /\ UNCHANGED NotInput /\ V!VirtioNext
    \/ part = "bind" /\ UNCHANGED NotInput /\ I!BindNext
    \/ part = "shell" /\ UNCHANGED NotShell /\ Z!Next
    \/ part = "shells" /\ UNCHANGED NotShell /\ Y!Next
    \/ part = "tab" /\ UNCHANGED NotTyping /\ C!TypingNext

SuiteSpec == SuiteInit /\ [][SuiteNext]_suiteVars

-----------------------------------------------------------------------------
\* compositor.py: as long as there are windows one of them has the focus, it alone is
\* marked and the menu bar shows its menus, until a window below the focused one was
\* removed; an application with an open window is in the dock, an unpinned one is there
\* only while it has a window or is being launched, and nothing is there twice.
DesktopSound == part = "desktop" => D!FocusSound /\ D!DockTruthful

\* "Focus follows the topmost window" (compositor.py): the same, whichever window is
\* removed.
FocusKept == part = "desktop" => D!FocusKept

\* bridge/__init__.py, _transport_lock and _send_locked: the host takes no other part for a
\* payload, as long as no write raised after its envelope and none went out in part; a call
\* returns the answer to its own frame, whatever timed out or failed before; and it fails
\* for an id that is not its own only after a hello has timed out or a frame was torn.
\* uart.py, virtio_console.py, tcp_transport.py: the reads of a line return its bytes in
\* order, each once, and none is lost but to a read of COM2 that times out; the writes go
\* out in order, those that do not raise in full, and once as long as no try over TCP has
\* failed after it had sent a part.
CallsWhole == /\ part = "bridge" => B!FramesWhole /\ B!RepliesInStep
              /\ part = "com2" => O!StreamKept
              /\ part = "console" => X!StreamKept

\* linenoise.c, with one shell that edits at a time: the cursor stays in the line, as long as
\* no completion that does not fit into the buffer is accepted (snprintf's length is then
\* past it), and the index in the history; and Enter frees no line that was added to the
\* history.
LineSound == part = "line" => L!LineSound

\* shell.py, commands.py, vfs_import.py: the working directory of a shell is one, unless a
\* text assigned cwd itself; mv removes a file only when another holds what it held, unless
\* another shell changed one of the two meanwhile; commands leave no descriptor, listener or
\* connection behind except where a read or write fails without a finally; the console is
\* not left by request, and no shell ends unasked except by a bare command whose script
\* cannot be read, is no UTF-8 or raises SystemExit; an import runs what the file holds; and
\* Tab keeps what is typed and adds what all completions have in common.
ShellSound == /\ part = "shell" => Z!ShellSound
              /\ part = "shells" => Y!ShellSound
              /\ part = "tab" => C!TabSound

\* linenoise.c: up and back down the history shows the line that was being typed.
DraftKept == [][part = "line" =>
                  \A s \in {1} :
                      session[s].in_use /\ session'[s].in_use /\ session[s].index > 0
                      /\ session'[s].index = 0
                      => session'[s].buf = L!Fitted(session[s].draft)]_lineVars

\* keyboard.py, mouse.py: no byte is left in the PS/2 controller without a notice for its
\* reader, as long as MouseDriver.init did not take a key for the configuration byte and the
\* interrupt ring was never full; as long as no byte was read by the wrong reader, pointer
\* and button follow the packets.  virtio_input.py decodes the device's events in order,
\* each once.  For all of them clicks carry the position announced last; and once everything
\* has arrived, what the application takes to be pressed is what the user holds, as long as
\* no byte was read by the wrong reader, no event came that SDL has no form for, and, for
\* virtio-input, no report was lost and shift did not change while a key was held.
InputKept ==
    /\ part \in {"keys", "mouse", "host"}
         => K!Ps2Alive /\ K!ClicksWherePointed(app.x) /\ K!Ps2KeysReleased
    /\ part = "hid" => ~vq.wrong /\ V!ClicksWherePointed(app.x) /\ V!VirtioKeysReleased

\* keybindings.py, set_binding: no two actions have the same combination, whatever was
\* captured, restored, saved in part and loaded.
BindingsSound == part = "bind" => I!BindingsSound
=============================================================================
