------------------------------- MODULE Input -------------------------------
(***************************************************************************)
(* The way of a key stroke, a mouse packet or an event of the host to an   *)
(* application: the PS/2 drivers (kernel/drivers/keyboard.py, mouse.py),   *)
(* virtio-input, the forwarder of the bridge, the queue they post to       *)
(* (kernel/gui/input.py) and the SDL events made of it; and the table of   *)
(* key bindings.  Three machines, x86, arm64 and the bindings, each with   *)
(* its own Init and Next, and the host's events beside the first.          *)
(*                                                                         *)
(* The IRQ handlers of Python run later than the interrupts: an interrupt  *)
(* leaves a notice in a ring (IrqRing), and boot code that reads the same  *)
(* port is never interrupted by a handler.  Bytes are numbers.             *)
(***************************************************************************)
EXTENDS Integers, Sequences, SequencesExt, FiniteSets

CONSTANTS Width,             \* of the screen; one axis stands for both
          TABLET_RANGE,      \* of the tablet's absolute positions
          KeyBuffer,         \* of the keyboard driver
          QUEUE_SIZE, IndexMod, \* of the event ring, and of its 16 bit indices
          Keys, Devices,     \* scan codes of the keyboard; what the user has: "kbd", "aux", "host"
          Rebound, Combos,   \* actions and combinations for the panel
          MaxEvents,         \* things the user does; restarts
          RingFull           \* whether a notice may find the ring full

Empty == -1
Bit(b, n) == (b \div 2 ^ n) % 2 = 1
Clamp(x) == IF x < 0 THEN 0 ELSE IF x >= Width THEN Width - 1 ELSE x

A == 30                      \* the scan codes
LSHIFT == 42
RSHIFT == 54
CAPS == 58
H == 104                     \* a key of the host
Shifts == {LSHIFT, RSHIFT}

VARIABLES user,    \* keys and buttons held, position, things done (history)
          queue,   \* kernel.gui.input.queue
          app,     \* the SDL_Event of the application and the keys it takes to be down
          unknown, \* an event came that SDL has no form for (history)
          ctl,     \* the PS/2 controller: out, kq, mq, resp, mask, latched, kint, aint, last;
                   \* a notice was dropped (history)
          irqs,    \* the notices of IRQ 1 and IRQ 12 in the ring
          boot,    \* how far boot has come
          kbd, typed, mouse, ptr, \* the drivers; the keyboard's own queue; the pointer
          mixed,   \* a byte was read by someone it was not for (history)
          vq,      \* the event queue of virtio-input and the poller
          hid,     \* the modifier and pointer state of VirtioMmioInput
          reshift, \* shift changed while a key was held; a report did not fit (history)
          bind, file, tasks, reboots \* key bindings, their file and the tasks that save it

queueVars == <<queue, app, unknown>>
ps2Vars == <<ctl, irqs, boot, kbd, typed, mouse, ptr, mixed>>
virtioVars == <<vq, hid, reshift>>
bindVars == <<bind, file, tasks, reboots>>
vars == <<user, queueVars, ps2Vars, virtioVars, bindVars>>

-----------------------------------------------------------------------------
(* The queue and SDL *)

\* dataclass Event; x is 0 for keys.  The code of a motion, 0 in the program, says here
\* whether it is of the local pointer or of the host.
Event(kind, code, x) == [kind |-> kind, code |-> code, x |-> x]
Posted(evs) == queue' = queue \o evs

Known == {"down", "up", "move", "press", "release", "quit"}

\* What an application that keeps track of keys and buttons makes of an event.
Seen(keys, ev) == CASE ev.kind \in {"down", "press"} -> keys \cup {ev.code}
                    [] ev.kind \in {"up", "release"} -> keys \ {ev.code}
                    [] OTHER -> keys

\* SDL_PollEvent and _populate: an event of another kind leaves the record as it was.
SDL_PollEvent ==
    /\ queue # <<>>
    /\ queue' = Tail(queue)
    /\ LET out == IF Head(queue).kind \in Known THEN Head(queue) ELSE app.out
       IN app' = [out |-> out, keys |-> Seen(app.keys, out),
                  x |-> IF out.kind = "move" /\ out.code = "ptr" THEN out.x ELSE app.x]
    /\ unknown' = (unknown \/ Head(queue).kind \notin Known)
    /\ UNCHANGED <<user, ps2Vars, virtioVars, bindVars>>

QueueInit == /\ queue = <<>> /\ unknown = FALSE
             /\ app = [out |-> Event("none", "", 0), keys |-> {}, x |-> Width \div 2]
             /\ user = [held |-> {}, btn |-> FALSE, hostbtn |-> FALSE, x |-> Width \div 2, done |-> 0]

-----------------------------------------------------------------------------
(* PS/2 *)

\* queue_interrupt: a full ring drops the notice.  The ring is shared with the ticks of the
\* timer, which are not modelled, so it may be full at any interrupt; bound: once.
Noticed(c, lines) ==
    \/ ctl' = c /\ irqs' = irqs \o lines
    \/ RingFull /\ lines # <<>> /\ ~c.dropped /\ ctl' = [c EXCEPT !.dropped = TRUE] /\ UNCHANGED irqs

\* The controller has one output buffer; the devices and its own answers wait for it.
Raise(c, line) ==
    LET on == IF line = "kbd" THEN c.kint ELSE c.aint
    IN IF ~on THEN ctl' = c /\ UNCHANGED irqs
       ELSE IF line \in c.mask THEN ctl' = [c EXCEPT !.latched = @ \cup {line}] /\ UNCHANGED irqs
       ELSE Noticed(c, <<line>>)

load ==
    /\ ctl.out = Empty
    /\ \/ ctl.resp # <<>> /\ Raise([ctl EXCEPT !.out = Head(ctl.resp).v, !.from = Head(ctl.resp).from,
                                               !.resp = Tail(@)],
                                   IF Head(ctl.resp).from = "ack" THEN "aux" ELSE "kbd")
       \/ ctl.kq # <<>> /\ Raise([ctl EXCEPT !.out = Head(ctl.kq), !.from = "kbd", !.kq = Tail(@)], "kbd")
       \/ ctl.mq # <<>> /\ Raise([ctl EXCEPT !.out = Head(ctl.mq), !.from = "aux", !.mq = Tail(@)], "aux")
    /\ UNCHANGED <<user, queueVars, boot, kbd, typed, mouse, ptr, mixed, virtioVars, bindVars>>

\* inb(0x60): the byte in the buffer, or the one that was there last.
Byte == IF ctl.out = Empty THEN ctl.last ELSE ctl.out
Emptied(c) == [c EXCEPT !.out = Empty, !.last = Byte]
Unmasked(c, line) == [c EXCEPT !.mask = @ \ {line}, !.latched = @ \ {line}]
Late(c, line) == IF line \in c.latched THEN <<line>> ELSE <<>>

\* The driver sends a command; for its answer it waits a while.  An answer that is late, or
\* a byte that is not the answer, is taken for it.
Wanted == [drain |-> "none", config |-> "ctl", defaults |-> "ack", report |-> "ack"]
Ask(c, from, v) == [c EXCEPT !.resp = Append(@, [from |-> from, v |-> v])]
Recv == IF ctl.out = Empty THEN 0 ELSE ctl.out
CONFIG == 71                 \* IRQ 1 on, IRQ 12 off, translation on
ACK == 250

keyboard_init ==
    /\ boot = "start"
    /\ boot' = "drain"
    /\ Noticed(Unmasked(ctl, "kbd"), Late(ctl, "kbd"))
    /\ UNCHANGED <<user, queueVars, kbd, typed, mouse, ptr, mixed, virtioVars, bindVars>>

\* MouseDriver.init, one action from one read of the port to the next.
mouse_init ==
    /\ boot \in DOMAIN Wanted
    /\ mixed' = (mixed \/ (ctl.out # Empty /\ ctl.from # Wanted[boot])
                       \/ (ctl.out = Empty /\ boot # "drain"))
    /\ \/ /\ boot = "drain"
          /\ IF ctl.out # Empty THEN ctl' = Emptied(ctl) /\ UNCHANGED boot
             ELSE ctl' = Ask(ctl, "ctl", CONFIG) /\ boot' = "config"
          /\ UNCHANGED irqs
       \/ /\ boot = "config"
          /\ boot' = "defaults"
          /\ ctl' = Ask([Emptied(ctl) EXCEPT !.kint = Bit(Recv, 0), !.aint = TRUE], "ack", ACK)
          /\ UNCHANGED irqs
       \/ /\ boot = "defaults"
          /\ boot' = "report"
          /\ ctl' = Ask([Emptied(ctl) EXCEPT !.reports = TRUE], "ack", ACK)
          /\ UNCHANGED irqs
       \/ /\ boot = "report"
          /\ boot' = "on"
          /\ Noticed(Unmasked(Emptied(ctl), "aux"), Late(ctl, "aux"))
    /\ UNCHANGED <<user, queueVars, kbd, typed, mouse, ptr, virtioVars, bindVars>>

\* _key_name_to_code, mutated to take the character before the name.
CodeShifted(shifted) == IF shifted THEN "A" ELSE "a"

\* _key_name_to_code: the name of the key, without shift.
Code(shifted) == "a"

Shifted == kbd.shift # kbd.caps

\* The _forward of install_ps2_bridge.
forward_key(ev, key) == Posted(<<IF key = A THEN ev ELSE [ev EXCEPT !.code = "caps"]>>)

\* KeyboardDriver.handle_irq, which reads the port whatever the controller's status is: the
\* answer to the mouse driver's first command leaves a notice for it as well.
keyboard_irq ==
    /\ boot = "on" /\ irqs # <<>> /\ Head(irqs) = "kbd"
    /\ irqs' = Tail(irqs)
    /\ ctl' = Emptied(ctl)
    /\ mixed' = (mixed \/ IF ctl.out = Empty THEN Byte % 128 \in Shifts \cup {A, CAPS}
                          ELSE ctl.from # "kbd")
    /\ LET released == Byte >= 128
           key == Byte % 128
           ev == Event(IF released THEN "up" ELSE "down", Code(Shifted), 0)
       IN \/ /\ key \in Shifts
             /\ kbd' = [kbd EXCEPT !.shift = ~released]
             /\ UNCHANGED <<queue, typed>>
          \/ /\ key = CAPS /\ ~released
             /\ kbd' = [kbd EXCEPT !.caps = ~@]
             /\ UNCHANGED <<queue, typed>>
          \/ /\ key = A \/ (key = CAPS /\ released)
             /\ typed' = IF Len(typed) < KeyBuffer THEN Append(typed, ev) ELSE typed
             /\ forward_key(ev, key)
             /\ UNCHANGED kbd
          \/ key \notin Shifts \cup {A, CAPS} /\ UNCHANGED <<kbd, queue, typed>>
    /\ UNCHANGED <<user, app, unknown, boot, mouse, ptr, virtioVars, bindVars>>

\* KeyboardDriver.read
read == /\ typed # <<>>
        /\ typed' = Tail(typed)
        /\ UNCHANGED <<user, queueVars, ctl, irqs, boot, kbd, mouse, ptr, mixed, virtioVars, bindVars>>

Signed(sign, b) == IF sign THEN b - 256 ELSE b

\* The movement and the button of a packet, mutated to leave out the sign.
PacketUnsigned(b0, b1) == [dx |-> b1, btn |-> Bit(b0, 0)]

\* The movement and the button of a packet.
Packet(b0, b1) == [dx |-> Signed(Bit(b0, 4), b1), btn |-> Bit(b0, 0)]

\* The _forward of install_ps2_mouse_bridge.
forward_mouse(p, x) ==
    Posted((IF p.dx # 0 THEN <<Event("move", "ptr", x)>> ELSE <<>>)
           \o (IF p.btn # mouse.btn
               THEN <<Event(IF p.btn THEN "press" ELSE "release", "btn", x)>> ELSE <<>>))

\* MouseDriver.handle_irq
mouse_irq ==
    /\ boot = "on" /\ irqs # <<>> /\ Head(irqs) = "aux"
    /\ irqs' = Tail(irqs)
    /\ LET full == Append(mouse.buf, ctl.out)
           p == Packet(full[1], full[2])
           x == Clamp(ptr + p.dx)
       IN \/ /\ ctl.out = Empty \/ ctl.from \notin {"aux", "ack"}
             /\ UNCHANGED <<ctl, queue, mouse, ptr, mixed>>
          \/ /\ ctl.out # Empty /\ ctl.from \in {"aux", "ack"}
             /\ ctl' = Emptied(ctl)
             /\ mixed' = (mixed \/ ctl.from = "ack")
             /\ \/ /\ Len(full) < 3
                   /\ mouse' = [mouse EXCEPT !.buf = full]
                   /\ UNCHANGED <<queue, ptr>>
                \/ /\ Len(full) = 3 /\ ~Bit(full[1], 3)
                   /\ mouse' = [mouse EXCEPT !.buf = <<>>]
                   /\ UNCHANGED <<queue, ptr>>
                \/ /\ Len(full) = 3 /\ Bit(full[1], 3)
                   /\ mouse' = [buf |-> <<>>, btn |-> p.btn]
                   /\ ptr' = x
                   /\ forward_mouse(p, x)
    /\ UNCHANGED <<user, app, unknown, boot, kbd, typed, virtioVars, bindVars>>

\* The user presses or releases a key (a held one repeats), moves the mouse or clicks, or
\* the window of the host sends an event, which _pump translates and posts.
May == user.done < MaxEvents
Done(u) == user' = [u EXCEPT !.done = @ + 1]

press_key ==
    /\ May /\ "kbd" \in Devices
    /\ \E k \in Keys :
          \/ /\ ctl' = [ctl EXCEPT !.kq = Append(@, k)]
             /\ Done([user EXCEPT !.held = @ \cup {k}])
          \/ /\ k \in user.held
             /\ ctl' = [ctl EXCEPT !.kq = Append(@, k + 128)]
             /\ Done([user EXCEPT !.held = @ \ {k}])
    /\ UNCHANGED <<queueVars, irqs, boot, kbd, typed, mouse, ptr, mixed, virtioVars, bindVars>>

move_mouse ==
    /\ May /\ "aux" \in Devices /\ ctl.reports
    /\ \E dx \in {-1, 0, 1}, btn \in BOOLEAN :
          /\ dx # 0 \/ btn # user.btn
          /\ ctl' = [ctl EXCEPT !.mq = @ \o <<8 + (IF btn THEN 1 ELSE 0) + (IF dx < 0 THEN 16 ELSE 0),
                                              dx % 256, 0>>]
          /\ Done([user EXCEPT !.btn = btn, !.x = Clamp(@ + dx)])
    /\ UNCHANGED <<queueVars, irqs, boot, kbd, typed, mouse, ptr, mixed, virtioVars, bindVars>>

\* _translate: the position and the button are the host's; a kind it does not know gives
\* nothing.
_translate(kind, x) ==
    IF kind = "other" THEN <<>>
    ELSE <<Event(kind, IF kind \in {"press", "release"} THEN "hostbtn" ELSE "h", x)>>

_pump ==
    /\ May /\ "host" \in Devices /\ boot = "on"
    /\ \E kind \in Known \cup {"drop", "other"}, x \in {0, Width - 1} :
          /\ kind = "move" \/ x = 0
          /\ kind = "up" => H \in user.held
          /\ kind \in {"press", "release"} => user.hostbtn = (kind = "release")
          /\ Posted(_translate(kind, x))
          /\ Done([user EXCEPT !.held = IF kind = "down" THEN @ \cup {H}
                                        ELSE IF kind = "up" THEN @ \ {H} ELSE @,
                               !.hostbtn = kind = "press" \/ (@ /\ kind # "release")])
    /\ UNCHANGED <<app, unknown, ps2Vars, virtioVars, bindVars>>

Ps2Init ==
    /\ QueueInit
    /\ ctl = [out |-> Empty, from |-> "none", kq |-> <<>>, mq |-> <<>>, resp |-> <<>>, last |-> 0,
              mask |-> {"kbd", "aux"}, latched |-> {}, kint |-> TRUE, aint |-> FALSE,
              reports |-> FALSE, dropped |-> FALSE]
    /\ irqs = <<>> /\ boot = "start" /\ mixed = FALSE
    /\ kbd = [shift |-> FALSE, caps |-> FALSE] /\ typed = <<>>
    /\ mouse = [buf |-> <<>>, btn |-> FALSE] /\ ptr = Width \div 2

Ps2Next ==
    \/ press_key \/ move_mouse \/ _pump \/ load \/ keyboard_init \/ mouse_init
    \/ keyboard_irq \/ mouse_irq \/ read \/ SDL_PollEvent

-----------------------------------------------------------------------------
(* virtio-input *)

\* _EV_TO_KEY and _EV_TO_CHARS, without shift
Name(code) == CASE code = A -> "a" [] code = LSHIFT -> "lshift" [] code = RSHIFT -> "rshift"
                [] code = CAPS -> "caps"

Inc(i) == (i + 1) % IndexMod
Slot(i) == i % QUEUE_SIZE

\* The device writes an event into the next buffer it was given, or loses it; fifo holds
\* what the driver has not decoded yet (history).
Write(q, ev) ==
    IF q.taken = q.avail_idx THEN [q EXCEPT !.lost = TRUE]
    ELSE LET d == q.avail[Slot(q.taken)]
         IN [q EXCEPT !.buf[d] = ev, !.used[Slot(q.used_idx)] = d, !.used_idx = Inc(@),
                      !.taken = Inc(@), !.fifo = Append(@, ev)]

\* type, code and value; a pointer event has an axis that is relative or absolute
InputEvent(type, code, value) == [type |-> type, code |-> code, value |-> value]

device ==
    /\ May
    /\ \/ \E k \in Keys :
             \/ /\ vq' = Write(vq, InputEvent("key", k, 1))
                /\ Done([user EXCEPT !.held = @ \cup {k}])
                /\ reshift' = (reshift \/ (k \in Shifts /\ A \in user.held))
             \/ /\ k \in user.held
                /\ vq' = Write(vq, InputEvent("key", k, 0))
                /\ Done([user EXCEPT !.held = @ \ {k}])
                /\ reshift' = (reshift \/ (k \in Shifts /\ A \in user.held))
       \/ /\ "aux" \in Devices
          /\ \E type \in {"rel", "abs", "syn"}, v \in {-1, 1, TABLET_RANGE - 1} :
                /\ v = 1 \/ (type = "rel" /\ v = -1) \/ (type = "abs" /\ v > 1)
                /\ vq' = Write(vq, InputEvent(type, 0, v))
          /\ Done(user) /\ UNCHANGED reshift
       \/ /\ "aux" \in Devices
          /\ vq' = Write(vq, InputEvent("btn", 0, IF user.btn THEN 0 ELSE 1))
          /\ Done([user EXCEPT !.btn = ~@]) /\ UNCHANGED reshift
    /\ UNCHANGED <<queueVars, ps2Vars, hid, bindVars>>

\* _used_pop
Popped(q) == q.used[Slot(q.last_used)]

\* _flush_pointer: the absolute position first, scaled to the screen, then the relative
\* motion.
_flush_pointer ==
    LET at == IF hid.abs = Empty THEN hid.x ELSE (hid.abs * (Width - 1)) \div (TABLET_RANGE - 1)
        x == Clamp(Clamp(at) + hid.rel)
        moved == at # hid.x \/ hid.rel # 0
    IN /\ hid' = [hid EXCEPT !.x = x, !.abs = Empty, !.rel = 0]
       /\ Posted(IF moved THEN <<Event("move", "ptr", x)>> ELSE <<>>)

_post_modifier(ev) == Posted(<<Event(IF ev.value # 0 THEN "down" ELSE "up", Name(ev.code), 0)>>)

\* _emit: a character's code depends on shift, a modifier's does not.
_emit(ev) ==
    \/ ev.type = "rel" /\ hid' = [hid EXCEPT !.rel = @ + ev.value] /\ UNCHANGED queue
    \/ ev.type = "abs" /\ hid' = [hid EXCEPT !.abs = ev.value] /\ UNCHANGED queue
    \/ ev.type = "syn" /\ _flush_pointer
    \/ /\ ev.type = "btn" /\ UNCHANGED hid
       /\ Posted(<<Event(IF ev.value # 0 THEN "press" ELSE "release", "btn", hid.x)>>)
    \/ /\ ev.type = "key" /\ ev.code \in Shifts
       /\ hid' = [hid EXCEPT !.shift = ev.value # 0]
       /\ _post_modifier(ev)
    \/ /\ ev.type = "key" /\ ev.code \in {A, CAPS} /\ UNCHANGED hid
       /\ Posted(<<Event(IF ev.value # 0 THEN "down" ELSE "up",
                         IF ev.code = A /\ hid.shift THEN "A" ELSE Name(ev.code), 0)>>)

\* run: the index is read once, then as many events are decoded and their buffers given back.
poll ==
    /\ vq.target = Empty
    /\ vq' = [vq EXCEPT !.target = vq.used_idx]
    /\ UNCHANGED <<user, queueVars, ps2Vars, hid, reshift, bindVars>>

decode ==
    /\ vq.target # Empty /\ vq.last_used # vq.target
    /\ LET d == Popped(vq)
       IN /\ vq' = [vq EXCEPT !.last_used = Inc(@), !.avail[Slot(vq.avail_idx)] = d,
                              !.avail_idx = Inc(@), !.fifo = Tail(@),
                              !.wrong = @ \/ vq.buf[d] # Head(vq.fifo)]
          /\ _emit(vq.buf[d])
    /\ UNCHANGED <<user, app, unknown, ps2Vars, reshift, bindVars>>

poll_end ==
    /\ vq.target # Empty /\ vq.last_used = vq.target
    /\ vq' = [vq EXCEPT !.target = Empty]
    /\ UNCHANGED <<user, queueVars, ps2Vars, hid, reshift, bindVars>>

\* probe: every buffer is given to the device.
VirtioInit ==
    /\ QueueInit
    /\ LET slots == 0 .. QUEUE_SIZE - 1
       IN vq = [avail |-> [i \in slots |-> i], avail_idx |-> QUEUE_SIZE % IndexMod, taken |-> 0,
                used |-> [i \in slots |-> 0], used_idx |-> 0, last_used |-> 0, target |-> Empty,
                buf |-> [i \in slots |-> InputEvent("syn", 0, 0)], fifo |-> <<>>,
                lost |-> FALSE, wrong |-> FALSE]
    /\ hid = [shift |-> FALSE, x |-> Width \div 2, abs |-> Empty, rel |-> 0]
    /\ reshift = FALSE

VirtioNext == device \/ poll \/ decode \/ poll_end \/ SDL_PollEvent

-----------------------------------------------------------------------------
(* Key bindings *)

Savers == 1 .. 2
Default == [i \in 1 .. 4 |-> CASE i = 1 -> <<"F1", 0>> [] i = 2 -> <<"F2", 0>>
                               [] i = 3 -> <<"TAB", 0>> [] i = 4 -> <<"TAB", 1>>]

\* set_binding, mutated to leave the other action its combination.
set_bindingOnly(b, i, combo) == [b EXCEPT ![i] = combo]

\* set_binding: an action that has the combination gets the old one of this action.
set_binding(b, i, combo) ==
    [j \in DOMAIN b |-> IF j = i THEN combo ELSE IF b[j] = combo THEN b[i] ELSE b[j]]

reset_one(b, i) == set_binding(b, i, Default[i])
reset(b) == FoldLeft(reset_one, b, <<1, 2, 3, 4>>)

\* The lines of the file; a line cut short does not parse, or parses with another number.
Payload(b) == [i \in 1 .. 4 |-> [action |-> i, combo |-> b[i], ok |-> TRUE]]
Cut(l) == {[l EXCEPT !.ok = FALSE]}
          \cup (IF l.combo[2] = 12 THEN {[l EXCEPT !.combo = <<@[1], 1>>]} ELSE {})

\* load applies the lines in order; one that does not parse resets everything.
Apply(b, lines) == FoldLeft(LAMBDA x, l : set_binding(x, l.action, l.combo), b, lines)
Loaded(b, lines) == IF \A i \in DOMAIN lines : lines[i].ok THEN Apply(b, lines) ELSE reset(b)

Idle == [step |-> "idle", lines |-> <<>>]

\* The keybindings panel: a combination is captured, or R is pressed; a task saves.
Panel(b) ==
    /\ \E t \in Savers :
          /\ tasks[t] = Idle
          /\ tasks' = [tasks EXCEPT ![t] = [step |-> "open", lines |-> Payload(b)]]
    /\ bind' = b
    /\ UNCHANGED <<file, reboots, user, queueVars, ps2Vars, virtioVars>>

capture == \E i \in Rebound, combo \in Combos : Panel(set_binding(bind, i, combo))
restore == Panel(reset(bind))

\* A payload over what another save has written meanwhile: both begin at offset 0, and the
\* rest of a longer one stays, less than a line.
Length(lines) == Len(SelectSeq(lines, LAMBDA l : l.combo[2] = 12))
Overlaid(old, new) ==
    IF old # <<>> /\ Length(old) > Length(new) THEN Append(new, [Last(old) EXCEPT !.ok = FALSE])
    ELSE new

\* save: the file is emptied, then written; either may fail.
save(t) ==
    /\ \/ /\ tasks[t].step = "open"
          /\ file' = <<>>
          /\ tasks' = [tasks EXCEPT ![t].step = "write"]
       \/ /\ tasks[t].step = "write"
          /\ file' = Overlaid(file, tasks[t].lines)
          /\ tasks' = [tasks EXCEPT ![t] = Idle]
       \/ /\ tasks[t].step # "idle"
          /\ tasks' = [tasks EXCEPT ![t] = Idle] /\ UNCHANGED file
    /\ UNCHANGED <<bind, reboots, user, queueVars, ps2Vars, virtioVars>>

\* The machine stops, perhaps with a part of a write on the disk, and starts again.
reboot ==
    /\ reboots < MaxEvents
    /\ reboots' = reboots + 1
    /\ \/ UNCHANGED file
       \/ \E t \in Savers, n \in 0 .. 3 :
             /\ tasks[t].step = "write"
             /\ \E last \in Cut(tasks[t].lines[n + 1]) :
                   file' = Append(SubSeq(tasks[t].lines, 1, n), last)
    /\ tasks' = [t \in Savers |-> Idle]
    /\ bind' = Loaded(Default, file')
    /\ UNCHANGED <<user, queueVars, ps2Vars, virtioVars>>

BindInit == bind = Default /\ file = <<>> /\ tasks = [t \in Savers |-> Idle] /\ reboots = 0
BindNext == capture \/ restore \/ reboot \/ \E t \in Savers : save(t)

-----------------------------------------------------------------------------
(* Properties *)

(***************************************************************************)
(* The output buffer of the PS/2 controller never holds a byte that nobody *)
(* will read, which would silence keyboard and mouse for good: there is a  *)
(* notice for the handler that takes it, also after a key was typed while  *)
(* MouseDriver.init read the port, as long as the configuration byte was   *)
(* not mistaken and no notice found the ring full.  The pointer and the    *)
(* button follow the packets, if no byte was read by someone else.         *)
(***************************************************************************)
Ps2Alive ==
    /\ boot = "on" /\ ctl.kint /\ ~ctl.dropped /\ ctl.out # Empty
       => \/ Contains(irqs, "kbd")
          \/ ctl.from \in {"aux", "ack"} /\ Contains(irqs, "aux")
    /\ ~mixed /\ boot = "on" /\ ctl.mq = <<>> /\ ctl.out = Empty
       => ptr = user.x /\ mouse.btn = user.btn /\ mouse.buf = <<>>

(***************************************************************************)
(* A button event of a mouse or tablet carries the position that its last  *)
(* movement before it has announced, and the pointer stays on the screen.  *)
(* (An event of the host carries the position that the host gives it.)     *)
(***************************************************************************)
ClicksWherePointed(start) ==
    \A i \in DOMAIN queue :
       LET moves == {j \in 1 .. i - 1 : queue[j].kind = "move" /\ queue[j].code = "ptr"}
           last == CHOOSE j \in moves : \A k \in moves : k <= j
       IN queue[i].kind \in {"move", "press", "release"} /\ queue[i].code \in {"ptr", "btn"} =>
          /\ queue[i].x \in 0 .. Width - 1
          /\ queue[i].kind # "move" => queue[i].x = IF moves = {} THEN start ELSE queue[last].x

(***************************************************************************)
(* What a program that follows the events takes to be pressed is what the  *)
(* user holds, once everything has arrived: every release is posted with   *)
(* the code of its press.  On PS/2 as long as no byte was read by someone  *)
(* else; for virtio-input as long as shift did not change in between and   *)
(* no report was lost; and for SDL unless an event came that it has no     *)
(* form for, because then the record still holds the event before.         *)
(***************************************************************************)
Ps2Keys(held) == (IF A \in held THEN {"a"} ELSE {}) \cup (IF H \in held THEN {"h"} ELSE {})
VirtioKeys(held) == {IF k = A THEN "a" ELSE Name(k) : k \in held}
Lower(codes) == {IF c = "A" THEN "a" ELSE c : c \in codes}
Button(down) == IF down THEN {"btn"} ELSE {}
Ps2KeysReleased ==
    ~mixed /\ ~unknown /\ boot = "on" /\ queue = <<>> /\ ctl.out = Empty
    /\ ctl.kq = <<>> /\ ctl.mq = <<>>
    => app.keys = Ps2Keys(user.held) \cup Button(user.btn)
                  \cup (IF user.hostbtn THEN {"hostbtn"} ELSE {})

(***************************************************************************)
(* virtio-input decodes the events in the order of the device, each once,  *)
(* over wraps of the indices.                                              *)
(***************************************************************************)
VirtioKeysReleased ==
    /\ ~vq.wrong
    /\ ~reshift /\ ~vq.lost /\ queue = <<>> /\ vq.fifo = <<>>
       => Lower(app.keys) = VirtioKeys(user.held) \cup Button(user.btn)

(***************************************************************************)
(* No two actions ever have the same combination, so that each one can be  *)
(* reached: after captures, resets, failed and cut short saves.  Restoring *)
(* gives the defaults from anywhere, and loading what save has written     *)
(* gives the same table.                                                   *)
(***************************************************************************)
BindingsSound ==
    /\ \A i, j \in 1 .. 4 : bind[i] = bind[j] => i = j
    /\ reset(bind) = Default
    /\ Loaded(Default, Payload(bind)) = bind
=============================================================================
