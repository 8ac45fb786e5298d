----------------------------- MODULE Interrupts -----------------------------
(***************************************************************************)
(* kernel_main from pic_init to its loop, the keyboard and mouse handlers  *)
(* that interrupt it, and the hardware they share: two cascaded 8259A and  *)
(* the one output port of the PS/2 controller.  Lines 0-7 belong to the    *)
(* primary 8259A, 8-15 to the secondary; line l has vector 0x20 + l.       *)
(* Between two instructions of kernel_main every interrupt that can be     *)
(* taken is taken; handlers are not interrupted.                           *)
(***************************************************************************)
EXTENDS Integers, Sequences, FiniteSets, FiniteSetsExt

CONSTANTS Keys,         \* whose codes the keyboard sends
          Leds,         \* sets of LEDs whose bits a scan code may have
          PortBound     \* bytes the PS/2 controller and the devices hold back

ASSUME InterruptsAssumption ==
    /\ Keys \subseteq {"lshift", "rshift", "ctrl", "caps", "num", "other"}
    /\ Leds \subseteq SUBSET {"caps", "num"} /\ Leds # {}
    /\ PortBound \in Nat

VARIABLES
    step,               \* of kernel_main, in Program
    IF_,                \* the flag of the processor
    mask,               \* the local variable of enable_int_bit
    masked,             \* both interrupt mask registers
    requested, in_service,
    isr_handler_table,
    running, pc,        \* the line whose handler runs, and where it is
    port, last,         \* bytes to be read, and the one read last
    owed,               \* devices that are to acknowledge a command
    reported,           \* keys whose code was sent last as that of a press
    lost,               \* no release of a shift key came through since one was lost
    flags,              \* shift_pressed, ctrl_pressed, capslock_on, numlock_on
    mouse_intr, sent,   \* of the mouse: may it interrupt, what did it send
    status, packet,     \* mouse_info.status and mouse_info.data
    decoded             \* the packet buttons and position were taken from last

pic      == <<masked, requested, in_service>>
keyboard == <<reported, lost, flags>>
mouse    == <<mouse_intr, sent, status, packet, decoded>>
cpu      == <<step, IF_, mask, running, pc>>
ps2      == <<port, last, owed>>
vars     == <<pic, keyboard, mouse, cpu, ps2, isr_handler_table>>

Lines     == 0..15
NoLine    == 16
Primary   == 0..7
Secondary == 8..15
Cascade   == 2
Chip(l)   == IF l \in Primary THEN Primary ELSE Secondary

\* What is at the port: a scan code of a key that was pressed (n = 1) or
\* released, a byte of a packet of the mouse, or an acknowledgement.
Byte(device, is, n) == [from |-> device, is |-> is, n |-> n]
Ack(device)         == Byte(device, "ack", 0)
Zero                == Byte("memory", "zero", 0)
ShiftKeys           == {"lshift", "rshift"}
LineOf(b) == IF b.from = "keyboard" THEN 1 ELSE 12

Do(op, l) == [op |-> op, line |-> l]
enable_int_bit(l) == <<Do("mask_in", l), Do("mask_out", l)>>

pic_init == <<Do("ocw1", 0), Do("ocw1", 8), Do("sti", 0)>>

keyboard_init == <<Do("set_isr_handler", 1), Do("set_leds", 0), Do("read_leds", 0),
                   Do("flags", 0)>> \o enable_int_bit(1)

Reporting == <<Do("mouse_intr", 0), Do("mouse_reporting", 0)>>

mouse_init ==
    <<Do("memset", 0), Do("set_isr_handler", 12)>>
    \o enable_int_bit(2) \o enable_int_bit(9) \o enable_int_bit(12) \o Reporting

\* The keyboard's line opened before its state is set up.
Faulty_Program_OpenFirst ==
    pic_init \o enable_int_bit(1) \o SubSeq(keyboard_init, 1, 4) \o mouse_init

\* The mouse enabled while the keyboard is still to be asked for its LEDs.
Faulty_Program_MouseFirst == pic_init \o mouse_init \o keyboard_init

\* The mouse set off before it may interrupt.
Faulty_Program_LateIntr ==
    pic_init \o keyboard_init \o SubSeq(mouse_init, 1, 8)
    \o <<Do("mouse_reporting", 0), Do("mouse_intr", 0)>>

Program == pic_init \o keyboard_init \o mouse_init

Loop == Len(Program) + 1        \* printing for ever

Init ==
    /\ step = 1 /\ IF_ = FALSE /\ mask = {}
    /\ masked = {} /\ requested = {} /\ in_service = {}
    /\ isr_handler_table = [l \in Lines |-> "none"]
    /\ running = NoLine /\ pc = "main"
    /\ port = <<>> /\ last = Byte("keyboard", "other", 0)
    /\ owed = {} /\ reported = {} /\ lost = FALSE
    /\ flags = [shift |-> FALSE, ctrl |-> FALSE, caps |-> FALSE, num |-> FALSE]
    /\ mouse_intr = FALSE /\ sent = [is |-> "even", n |-> 0]
    /\ status = 0 /\ packet = <<Zero, Zero, Zero>> /\ decoded = <<>>
-----------------------------------------------------------------------------
(* The hardware. *)

\* A byte that comes to stand at the port makes its device's line request.
Announced(bytes) ==
    IF bytes = <<>> \/ (Head(bytes).from = "mouse" /\ ~ mouse_intr)
    THEN {} ELSE {LineOf(Head(bytes))}

Arrives(b) ==
    /\ port' = Append(port, b)
    /\ requested' = IF port = <<>> THEN requested \cup Announced(<<b>>) ELSE requested

\* What inb finds; an empty port still has the byte read last.
inb == IF port = <<>> THEN last ELSE Head(port)

Taken ==
    /\ last' = inb
    /\ port' = IF port = <<>> THEN <<>> ELSE Tail(port)

Acknowledge ==
    \E device \in owed :
      /\ Arrives(Ack(device))
      /\ owed' = owed \ {device}
      /\ sent' = IF device = "mouse" THEN [sent EXCEPT !.n = 1] ELSE sent
      /\ UNCHANGED <<masked, in_service, keyboard, mouse_intr, status, packet, decoded,
                     cpu, last, isr_handler_table>>

\* The keyboard sends the code of a key that was pressed or released, or is
\* held down and repeated, or sends with 0xe0 the code of a left shift key that
\* nobody touched; 0xe0 itself and its keys are "other".  A byte that nobody
\* has room for is lost.
Key ==
    /\ \E k \in Keys, n \in 0..1 :
         /\ reported' = IF n = 1 THEN reported \cup {k} ELSE reported \ {k}
         /\ \/ /\ Len(port) < PortBound
               /\ Arrives(Byte("keyboard", k, n))
               /\ lost' = (lost /\ ~ (k \in ShiftKeys /\ n = 0))
            \/ /\ Len(port) >= PortBound
               /\ lost' = (lost \/ (k \in ShiftKeys /\ n = 0))
               /\ UNCHANGED <<port, requested>>
    /\ UNCHANGED <<masked, in_service, flags, mouse, cpu, last, owed, isr_handler_table>>

\* The mouse sends packets of three bytes; they are "even" and "odd" in turn.
Move ==
    /\ sent.n > 0 /\ Len(port) < PortBound
    /\ Arrives(Byte("mouse", sent.is, sent.n))
    /\ sent' = [is |-> IF sent.n < 3 THEN sent.is
                        ELSE IF sent.is = "even" THEN "odd" ELSE "even",
                n  |-> (sent.n % 3) + 1]
    /\ UNCHANGED <<masked, in_service, keyboard, mouse_intr, status, packet, decoded,
                   cpu, last, owed, isr_handler_table>>

\* The lines an 8259A asks the processor to serve: open, requested, and of a
\* higher priority than any in service.
Above(l) == \A s \in in_service \cap Chip(l) : l < s

SecondaryAsks == {l \in Secondary : l \in requested \ masked /\ Above(l)}

PrimaryAsks ==
    {l \in Primary : /\ l \notin masked /\ Above(l)
                     /\ l \in requested \/ (l = Cascade /\ SecondaryAsks # {})}

\* The processor takes an interrupt; int_entry calls the handler.
Interrupt ==
    /\ IF_ /\ PrimaryAsks # {}
    /\ LET first == Min(PrimaryAsks)
           l     == IF first = Cascade THEN Min(SecondaryAsks) ELSE first
       IN  /\ running' = l
           /\ requested' = requested \ {l}
           /\ in_service' = in_service \cup {first, l}
           /\ pc' = isr_handler_table[l]
    /\ IF_' = FALSE
    /\ UNCHANGED <<masked, keyboard, mouse, step, mask, ps2, isr_handler_table>>
-----------------------------------------------------------------------------
(* kernel_main. *)

Doing(op) ==
    /\ step < Loop /\ Program[step].op = op
    /\ pc = "main" /\ ~ (IF_ /\ PrimaryAsks # {})
    /\ step' = step + 1
    /\ UNCHANGED <<running, pc>>

Line == Program[step].line

\* Everything masked but the cascade.
OCW1 ==
    /\ Doing("ocw1")
    /\ masked' = (masked \ Chip(Line)) \cup (Chip(Line) \ {Cascade})
    /\ UNCHANGED <<requested, in_service, keyboard, mouse, IF_, mask, ps2, isr_handler_table>>

STI ==
    /\ Doing("sti")
    /\ IF_' = TRUE
    /\ UNCHANGED <<pic, keyboard, mouse, mask, ps2, isr_handler_table>>

set_isr_handler ==
    /\ Doing("set_isr_handler")
    /\ isr_handler_table' = [isr_handler_table EXCEPT ![Line] =
                               IF Line = 1 THEN "keyboard_isr" ELSE "mouse_isr"]
    /\ UNCHANGED <<pic, keyboard, mouse, IF_, mask, ps2>>

MaskIn ==
    /\ Doing("mask_in")
    /\ mask' = masked \cap Chip(Line)
    /\ UNCHANGED <<pic, keyboard, mouse, IF_, ps2, isr_handler_table>>

MaskOut ==
    /\ Doing("mask_out")
    /\ masked' = (masked \ Chip(Line)) \cup (mask \ {Line})
    /\ mask' = {}
    /\ UNCHANGED <<requested, in_service, keyboard, mouse, IF_, ps2, isr_handler_table>>

\* read_keyboard_leds: the command that sets the LEDs ...
SetLeds ==
    /\ Doing("set_leds")
    /\ owed' = owed \cup {"keyboard"}
    /\ UNCHANGED <<pic, keyboard, mouse, IF_, mask, port, last, isr_handler_table>>

\* ... and whatever is at the port.  A request that was made for that byte may
\* stay, or be withdrawn.
ReadLeds ==
    /\ Doing("read_leds")
    /\ Taken
    /\ \E withdrawn \in {{}, Announced(port)} :
         requested' = (requested \ withdrawn) \cup Announced(port')
    /\ UNCHANGED <<masked, in_service, keyboard, mouse, IF_, mask, owed, isr_handler_table>>

\* Two bits of the byte that was read.  The ACK, 0xfa, has the bit of NUM LOCK.
KeyboardFlags ==
    /\ Doing("flags")
    /\ \E on \in IF last.is = "ack" THEN {{"num"}} ELSE Leds :
         flags' = [shift |-> FALSE, ctrl |-> FALSE, caps |-> "caps" \in on, num |-> "num" \in on]
    /\ UNCHANGED <<pic, reported, lost, mouse, IF_, mask, ps2, isr_handler_table>>

ClearMouse ==
    /\ Doing("memset")
    /\ status' = 0 /\ packet' = <<Zero, Zero, Zero>> /\ decoded' = <<>>
    /\ UNCHANGED <<pic, keyboard, mouse_intr, sent, IF_, mask, ps2, isr_handler_table>>

\* The configuration byte lets the mouse interrupt.
MouseIntr ==
    /\ Doing("mouse_intr")
    /\ mouse_intr' = TRUE
    /\ UNCHANGED <<pic, keyboard, sent, status, packet, decoded, IF_, mask, ps2,
                   isr_handler_table>>

MouseReporting ==
    /\ Doing("mouse_reporting")
    /\ owed' = owed \cup {"mouse"}
    /\ UNCHANGED <<pic, keyboard, mouse, IF_, mask, port, last, isr_handler_table>>
-----------------------------------------------------------------------------
(* The handlers. *)

\* A right shift key whose release is not looked for.
Faulty_Flags_RightBreak(f, key, make) ==
    CASE key = "lshift" \/ (key = "rshift" /\ make) -> [f EXCEPT !.shift = make]
      [] key = "ctrl"                 -> [f EXCEPT !.ctrl = make]
      [] key = "caps" /\ make         -> [f EXCEPT !.caps = ~ @]
      [] key = "num" /\ make          -> [f EXCEPT !.num = ~ @]
      [] OTHER                        -> f

\* scancode_to_ascii: what becomes of the flags.
Flags(f, key, make) ==
    CASE key \in ShiftKeys              -> [f EXCEPT !.shift = make]
      [] key = "ctrl"                 -> [f EXCEPT !.ctrl = make]
      [] key = "caps" /\ make         -> [f EXCEPT !.caps = ~ @]
      [] key = "num" /\ make          -> [f EXCEPT !.num = ~ @]
      [] OTHER                        -> f

\* The ACK is the scan code of a key that was released; a byte of the mouse
\* could be any.
keyboard_isr_handler ==
    /\ pc = "keyboard_isr"
    /\ Taken
    /\ requested' = requested \cup Announced(port')
    /\ IF inb.from = "keyboard"
       THEN flags' = Flags(flags, inb.is, inb.n = 1)
       ELSE flags' \in [{"shift", "ctrl", "caps", "num"} -> BOOLEAN]
    /\ pc' = "send_eoi"
    /\ UNCHANGED <<masked, in_service, reported, lost, mouse, step, IF_, mask, running, owed,
                   isr_handler_table>>

\* The acknowledgement taken for the first byte of a packet.
Faulty_decode_NoAck(b) ==
    LET n == IF status = 0 THEN 1 ELSE status
    IN  /\ packet' = [packet EXCEPT ![n] = b]
        /\ status' = (n % 3) + 1
        /\ decoded' = IF n = 3 THEN packet' ELSE decoded

ps2_mouse_decode(b) ==
    IF status = 0
    THEN /\ status' = IF b.is = "ack" THEN 1 ELSE 0
         /\ UNCHANGED <<packet, decoded>>
    ELSE /\ packet' = [packet EXCEPT ![status] = b]
         /\ status' = (status % 3) + 1
         /\ decoded' = IF status = 3 THEN packet' ELSE decoded

mouse_isr_handler ==
    /\ pc = "mouse_isr"
    /\ Taken
    /\ requested' = requested \cup Announced(port')
    /\ ps2_mouse_decode(inb)
    /\ pc' = "send_eoi"
    /\ UNCHANGED <<masked, in_service, keyboard, mouse_intr, sent, step, IF_, mask, running,
                   owed, isr_handler_table>>

\* The EOI is not specific: it ends what has the highest priority.
EOI(chip) ==
    in_service' = IF in_service \cap chip = {} THEN in_service
                  ELSE in_service \ {Min(in_service \cap chip)}

\* A line of the secondary 8259A acknowledged there only.
Faulty_send_eoi_OneChip ==
    /\ pc = "send_eoi"
    /\ EOI(Chip(running))
    /\ pc' = "iret"
    /\ UNCHANGED <<masked, requested, keyboard, mouse, step, IF_, mask, running, ps2,
                   isr_handler_table>>

send_eoi ==
    /\ pc = "send_eoi"
    /\ EOI(Primary)
    /\ pc' = IF running \in Secondary THEN "send_eoi_secondary" ELSE "iret"
    /\ UNCHANGED <<masked, requested, keyboard, mouse, step, IF_, mask, running, ps2,
                   isr_handler_table>>

SendEoiSecondary ==
    /\ pc = "send_eoi_secondary"
    /\ EOI(Secondary)
    /\ pc' = "iret"
    /\ UNCHANGED <<masked, requested, keyboard, mouse, step, IF_, mask, running, ps2,
                   isr_handler_table>>

\* int_exit.
IRET ==
    /\ pc = "iret"
    /\ pc' = "main" /\ running' = NoLine /\ IF_' = TRUE
    /\ UNCHANGED <<pic, keyboard, mouse, step, mask, ps2, isr_handler_table>>

\* kernel_main prints for ever; the console is Console's.
Printing ==
    /\ step = Loop /\ pc = "main"
    /\ UNCHANGED vars

kernel_main ==
    \/ OCW1 \/ STI \/ set_isr_handler \/ MaskIn \/ MaskOut \/ SetLeds \/ ReadLeds
    \/ KeyboardFlags \/ ClearMouse \/ MouseIntr \/ MouseReporting \/ Printing

Handler ==
    \/ keyboard_isr_handler \/ mouse_isr_handler
    \/ send_eoi \/ SendEoiSecondary \/ IRET

Next ==
    \/ Acknowledge \/ Key \/ Move
    \/ Interrupt \/ kernel_main \/ Handler

\* The processor does not stand still.
Spec == Init /\ [][Next]_vars /\ WF_vars(Interrupt \/ kernel_main \/ Handler)
-----------------------------------------------------------------------------
Done(op, l) == \A n \in step..Len(Program) : Program[n] # Do(op, l)

\* No handler runs before it is installed and the state it updates is set up,
\* though interrupts are enabled from pic_init on (pic.c:25, keyboard.c:217-224,
\* mouse.c:70-93).
HandlersReady ==
    running # NoLine =>
        /\ isr_handler_table[running] # "none"
        /\ running = 1 => Done("flags", 0)
        /\ running = 12 => Done("memset", 0)

\* Two drivers read one port, and kernel_main does too (keyboard.c:195,201,
\* mouse.c:59): none of them takes a byte of the other's device.
BytesReachTheirDriver ==
    /\ pc = "keyboard_isr" => inb.from = "keyboard"
    /\ pc = "mouse_isr" => port # <<>> /\ inb.from = "mouse"

\* What buttons and position are taken from is one packet of the mouse, from
\* its first byte to its last (mouse.c:13-55).
PacketsWhole ==
    decoded # <<>> =>
        \E is \in {"even", "odd"} : \A n \in 1..3 : decoded[n] = Byte("mouse", is, n)

\* The 8259A see edges only: a byte at the port that nobody was told of would
\* block it for ever (mouse.c:76-85, interrupt.c:63-72).
EveryByteAnnounced ==
    step = Loop /\ port # <<>> /\ pc \notin {"keyboard_isr", "mouse_isr"} =>
        LineOf(Head(port)) \in requested

\* The flag of two shift keys does not outlive what the keyboard says of them:
\* once every byte it sent was handled, shift is on only while the last code of
\* one of them was that of a press, unless its release was lost on the way and
\* none has come through since.  The left key's codes that come after 0xe0, for
\* Print Screen and the grey keys, count as that key's, since 0xe0 is dropped
\* (keyboard.c:114-146,217-224).
NoStuckShift ==
    /\ step = Loop /\ pc # "keyboard_isr" /\ ~ lost
    /\ \A n \in 1..Len(port) : port[n].from # "keyboard"
    => (flags.shift => reported \cap ShiftKeys # {})

\* Once interrupts are enabled an open line that requests is served: every
\* interrupt taken before was acknowledged to the 8259A it came through
\* (interrupt.c:63-72).
RequestsServed ==
    \A l \in {1, 12} : IF_ /\ l \in requested \ masked ~> running = l
=============================================================================
