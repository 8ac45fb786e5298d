-------------------------- MODULE InterruptsProofs --------------------------
(***************************************************************************)
(* The handlers, the loop they interrupt and the two devices behind one    *)
(* port, for any keys and any number of bytes held back: no handler runs   *)
(* before its driver is set up, every byte comes to the driver of its      *)
(* device, packets are whole, no byte is left unannounced, and the shift   *)
(* flag is not set while no shift key is down.                             *)
(***************************************************************************)
EXTENDS Interrupts, TLAPS

\* The twenty places kernel_main can be at.
LEMMA ProgramListed ==
    /\ Len(Program) = 19 /\ Loop = 20
    /\ Program[1] = Do("ocw1", 0) /\ Program[2] = Do("ocw1", 8) /\ Program[3] = Do("sti", 0)
    /\ Program[4] = Do("set_isr_handler", 1) /\ Program[5] = Do("set_leds", 0)
    /\ Program[6] = Do("read_leds", 0) /\ Program[7] = Do("flags", 0)
    /\ Program[8] = Do("mask_in", 1) /\ Program[9] = Do("mask_out", 1)
    /\ Program[10] = Do("memset", 0) /\ Program[11] = Do("set_isr_handler", 12)
    /\ Program[12] = Do("mask_in", 2) /\ Program[13] = Do("mask_out", 2)
    /\ Program[14] = Do("mask_in", 9) /\ Program[15] = Do("mask_out", 9)
    /\ Program[16] = Do("mask_in", 12) /\ Program[17] = Do("mask_out", 12)
    /\ Program[18] = Do("mouse_intr", 0) /\ Program[19] = Do("mouse_reporting", 0)
  BY DEF Program, pic_init, keyboard_init, mouse_init, enable_int_bit, Reporting, Loop

\* Which of them do what.
LEMMA Places ==
    ASSUME NEW op, Doing(op), step \in 1..20
    PROVE  /\ step \in 1..19 /\ step' = step + 1 /\ pc = "main"
           /\ UNCHANGED <<running, pc>>
           /\ ~ (IF_ /\ PrimaryAsks # {})
           /\ op = "ocw1" => step \in {1, 2}
           /\ op = "sti" => step = 3
           /\ op = "set_isr_handler" => step \in {4, 11}
           /\ op = "set_leds" => step = 5
           /\ op = "read_leds" => step = 6
           /\ op = "flags" => step = 7
           /\ op = "mask_in" => step \in {8, 12, 14, 16}
           /\ op = "mask_out" => step \in {9, 13, 15, 17}
           /\ op = "memset" => step = 10
           /\ op = "mouse_intr" => step = 18
           /\ op = "mouse_reporting" => step = 19
  <1>1. step \in 1..19 /\ Program[step].op = op
    BY ProgramListed DEF Doing
  <1>2. \/ step = 1 \/ step = 2 \/ step = 3 \/ step = 4 \/ step = 5 \/ step = 6 \/ step = 7
        \/ step = 8 \/ step = 9 \/ step = 10 \/ step = 11 \/ step = 12 \/ step = 13
        \/ step = 14 \/ step = 15 \/ step = 16 \/ step = 17 \/ step = 18 \/ step = 19
    BY <1>1
  <1> QED BY <1>1, <1>2, ProgramListed DEF Doing, Do

LEMMA LineAt ==
    /\ step = 1 => Line = 0
    /\ step = 2 => Line = 8
    /\ step = 4 => Line = 1
    /\ step \in {8, 9} => Line = 1
    /\ step = 11 => Line = 12
    /\ step \in {12, 13} => Line = 2
    /\ step \in {14, 15} => Line = 9
    /\ step \in {16, 17} => Line = 12
  BY ProgramListed DEF Line, Do
-----------------------------------------------------------------------------
\* The mask registers of both 8259A before kernel_main's step s, and what
\* enable_int_bit has read of them.
MaskedAt(s) ==
    IF s = 1 THEN {} ELSE IF s = 2 THEN Primary \ {2}
    ELSE IF s <= 9 THEN Lines \ {2} ELSE IF s <= 15 THEN Lines \ {1, 2}
    ELSE IF s <= 17 THEN Lines \ {1, 2, 9} ELSE Lines \ {1, 2, 9, 12}

MaskAt(s) ==
    IF s = 9 THEN Primary \ {2} ELSE IF s = 13 THEN Primary \ {1, 2}
    ELSE IF s = 15 THEN Secondary ELSE IF s = 17 THEN Secondary \ {9} ELSE {}

HandlersAt(s) ==
    [l \in Lines |-> IF l = 1 /\ s >= 5 THEN "keyboard_isr"
                     ELSE IF l = 12 /\ s >= 12 THEN "mouse_isr" ELSE "none"]

\* What kernel_main has done up to its step.
MainInv ==
    /\ step \in 1..20
    /\ masked = MaskedAt(step) /\ mask = MaskAt(step)
    /\ isr_handler_table = HandlersAt(step)
    /\ mouse_intr <=> step >= 19

\* How far the handler has come, and what it still has to acknowledge.
Serving(line, places, lines) ==
    running = line /\ pc \in places /\ in_service = lines /\ ~ IF_

ServiceInv ==
    \/ running = NoLine /\ pc = "main" /\ in_service = {} /\ (IF_ <=> step >= 4)
    \/ /\ step >= 10
       /\ \/ Serving(1, {"keyboard_isr", "send_eoi"}, {1})
          \/ Serving(1, {"iret"}, {})
    \/ /\ step >= 18
       /\ \/ Serving(12, {"mouse_isr", "send_eoi"}, {2, 12})
          \/ Serving(12, {"send_eoi_secondary"}, {12})
          \/ Serving(12, {"iret"}, {})

\* The mouse is silent until it was told to report.
DeviceInv ==
    /\ owed \subseteq {"keyboard", "mouse"}
    /\ sent \in [is : {"even", "odd"}, n : 0..3]
    /\ sent.n = 0 => sent.is = "even"
    /\ "mouse" \in owed => step = 20 /\ sent.n = 0
    /\ sent.n > 0 => step = 20

PortByte == [from : {"keyboard", "mouse"}, is : Keys \cup {"ack", "even", "odd"}, n : 0..3]

PortInv ==
    /\ port \in Seq(PortByte)
    /\ last.from \in {"keyboard", "mouse"}
    /\ step < 20 => /\ last.from = "keyboard"
                    /\ \A p \in 1..Len(port) : port[p].from = "keyboard"

Reading == pc \in {"keyboard_isr", "mouse_isr"}

\* Once the keyboard's line is open and the spurious request of its set-up was
\* served, exactly the byte at the port requests.
RequestInv ==
    /\ step <= 10 => /\ requested \subseteq {1}
                     /\ port # <<>> /\ ~ Reading => requested = {1}
    /\ step >= 11 =>
         /\ Reading \/ port = <<>> => requested = {}
         /\ ~ Reading /\ port # <<>> => requested = {LineOf(Head(port))}
         /\ Reading => port # <<>> /\ running = LineOf(Head(port))

ReadyInv == MainInv /\ ServiceInv /\ DeviceInv /\ PortInv /\ RequestInv
-----------------------------------------------------------------------------
LEMMA ReadyInit == Init => ReadyInv
  <1> SUFFICES ASSUME Init PROVE ReadyInv
    OBVIOUS
  <1>1. MainInv
    BY DEF Init, MainInv, MaskedAt, MaskAt, HandlersAt
  <1>2. ServiceInv
    BY DEF Init, ServiceInv
  <1>3. DeviceInv /\ PortInv /\ RequestInv
    BY DEF Init, DeviceInv, PortInv, RequestInv, Byte
  <1> QED BY <1>1, <1>2, <1>3 DEF ReadyInv

\* A byte at the port makes its line request.
LEMMA Announces ==
    ASSUME ReadyInv
    PROVE  Announced(port) = IF port = <<>> THEN {} ELSE {LineOf(Head(port))}
  <1>1. CASE port # <<>>
    <2>1. Head(port) = port[1] /\ 1 \in 1..Len(port)
      BY <1>1 DEF ReadyInv, PortInv
    <2>2. Head(port).from = "mouse" => mouse_intr
      BY <2>1 DEF ReadyInv, PortInv, MainInv
    <2> QED BY <1>1, <2>2 DEF Announced
  <1>2. CASE port = <<>>
    BY <1>2 DEF Announced
  <1> QED BY <1>1, <1>2

LEMMA ArrivalKeeps ==
    ASSUME ReadyInv, NEW b \in PortByte, Arrives(b), b.from = "mouse" => step = 20,
           UNCHANGED <<step, running, pc, last>>
    PROVE  PortInv' /\ RequestInv'
  <1>1. port \in Seq(PortByte) /\ step \in 1..20 /\ port' = Append(port, b)
    BY DEF ReadyInv, PortInv, MainInv, Arrives
  <1>2. /\ port' \in Seq(PortByte) /\ Len(port') = Len(port) + 1 /\ Len(port) \in Nat
        /\ port'[Len(port) + 1] = b /\ \A p \in 1..Len(port) : port'[p] = port[p]
        /\ port' # <<>>
    BY <1>1
  <1>3. b.from \in {"keyboard", "mouse"}
    BY DEF PortByte
  <1>4. PortInv'
    <2>1. ASSUME step < 20, NEW p \in 1..Len(port') PROVE port'[p].from = "keyboard"
      <3>1. b.from = "keyboard"
        BY <1>1, <1>3, <2>1
      <3>2. p \in 1..Len(port) \/ p = Len(port) + 1
        BY <1>2
      <3> QED BY <1>2, <2>1, <3>1, <3>2 DEF ReadyInv, PortInv
    <2> QED BY <1>2, <2>1 DEF ReadyInv, PortInv
  <1>5. Announced(<<b>>) = {LineOf(b)}
    <2>1. b.from = "mouse" => mouse_intr
      BY DEF ReadyInv, MainInv
    <2>2. <<b>> # <<>> /\ Head(<<b>>) = b
      OBVIOUS
    <2> QED BY <2>1, <2>2 DEF Announced
  <1>6. CASE port = <<>>
    <2>1. requested' = requested \cup {LineOf(b)} /\ Head(port') = b
      BY <1>1, <1>5, <1>6 DEF Arrives
    <2>2. step <= 10 => LineOf(b) = 1
      BY <1>1, <1>3 DEF LineOf
    <2> QED BY <1>2, <1>4, <1>6, <2>1, <2>2 DEF ReadyInv, RequestInv, Reading
  <1>7. CASE port # <<>>
    <2>1. requested' = requested /\ Head(port') = Head(port)
      BY <1>1, <1>7 DEF Arrives
    <2> QED BY <1>2, <1>4, <1>7, <2>1 DEF ReadyInv, RequestInv, Reading
  <1> QED BY <1>6, <1>7

LEMMA AcknowledgeReady == ReadyInv /\ Acknowledge => ReadyInv'
  <1> SUFFICES ASSUME ReadyInv, NEW device \in owed,
                      Arrives(Ack(device)), owed' = owed \ {device},
                      sent' = IF device = "mouse" THEN [sent EXCEPT !.n = 1] ELSE sent,
                      UNCHANGED <<masked, in_service, keyboard, mouse_intr, status, packet,
                                  decoded, cpu, last, isr_handler_table>>
               PROVE  ReadyInv'
    BY DEF Acknowledge
  <1>1. UNCHANGED <<masked, in_service, mouse_intr, step, IF_, mask, running, pc, last,
                    isr_handler_table>>
    BY DEF cpu
  <1>2. device \in {"keyboard", "mouse"} /\ (device = "mouse" => step = 20)
    BY DEF ReadyInv, DeviceInv
  <1>3. Ack(device) \in PortByte /\ Ack(device).from = device
    BY <1>2 DEF Ack, Byte, PortByte
  <1>4. PortInv' /\ RequestInv'
    BY <1>1, <1>2, <1>3, ArrivalKeeps
  <1>5. MainInv' /\ ServiceInv'
    BY <1>1 DEF ReadyInv, MainInv, ServiceInv, Serving
  <1>6. DeviceInv'
    <2>1. CASE device = "mouse"
      BY <1>1, <1>2, <2>1 DEF ReadyInv, DeviceInv
    <2>2. CASE device # "mouse"
      BY <1>1, <1>2, <2>2 DEF ReadyInv, DeviceInv
    <2> QED BY <2>1, <2>2
  <1> QED BY <1>4, <1>5, <1>6 DEF ReadyInv

LEMMA KeyReady == ReadyInv /\ Key => ReadyInv'
  <1> SUFFICES ASSUME ReadyInv, Key PROVE ReadyInv'
    OBVIOUS
  <1>1. PICK k \in Keys, n \in 0..1 :
          Arrives(Byte("keyboard", k, n)) \/ UNCHANGED <<port, requested>>
    BY DEF Key
  <1>2. UNCHANGED <<masked, in_service, mouse_intr, sent, step, IF_, mask, running, pc, last,
                    owed, isr_handler_table>>
    BY DEF Key, cpu, mouse
  <1> DEFINE b == Byte("keyboard", k, n)
  <1>3. b \in PortByte /\ b.from = "keyboard"
    BY DEF Byte, PortByte
  <1>4. PortInv' /\ RequestInv'
    <2>1. CASE Arrives(b)
      <3> HIDE DEF b
      <3> QED BY <1>2, <1>3, <2>1, ArrivalKeeps
    <2>2. CASE UNCHANGED <<port, requested>>
      BY <1>2, <2>2 DEF ReadyInv, PortInv, RequestInv, Reading
    <2> QED BY <1>1, <2>1, <2>2
  <1>5. MainInv' /\ ServiceInv' /\ DeviceInv'
    BY <1>2 DEF ReadyInv, MainInv, ServiceInv, Serving, DeviceInv
  <1> QED BY <1>4, <1>5 DEF ReadyInv

LEMMA MoveReady == ReadyInv /\ Move => ReadyInv'
  <1> SUFFICES ASSUME ReadyInv, Move PROVE ReadyInv'
    OBVIOUS
  <1> DEFINE b == Byte("mouse", sent.is, sent.n)
  <1>1. sent \in [is : {"even", "odd"}, n : 0..3] /\ sent.n > 0 /\ step = 20
    BY DEF ReadyInv, DeviceInv, Move
  <1>2. UNCHANGED <<masked, in_service, mouse_intr, step, IF_, mask, running, pc, last,
                    owed, isr_handler_table>>
    BY DEF Move, cpu
  <1>3. b \in PortByte
    BY <1>1 DEF Byte, PortByte
  <1>4. PortInv' /\ RequestInv'
    <2>1. Arrives(b)
      BY DEF Move
    <2> HIDE DEF b
    <2> QED BY <1>1, <1>2, <1>3, <2>1, ArrivalKeeps
  <1>5. MainInv' /\ ServiceInv'
    BY <1>2 DEF ReadyInv, MainInv, ServiceInv, Serving
  <1>6. DeviceInv'
    <2>1. sent' \in [is : {"even", "odd"}, n : 1..3]
      <3>1. (sent.n % 3) + 1 \in 1..3
        BY <1>1
      <3> QED BY <1>1, <3>1 DEF Move
    <2>2. "mouse" \notin owed
      BY <1>1 DEF ReadyInv, DeviceInv
    <2> QED BY <1>1, <1>2, <2>1, <2>2 DEF ReadyInv, DeviceInv
  <1> QED BY <1>4, <1>5, <1>6 DEF ReadyInv
-----------------------------------------------------------------------------
LEMMA MinOfOne == ASSUME NEW x \in Int PROVE Min({x}) = x
  BY DEF Min

\* At most one line requests; it is the keyboard's, or, at the end, the mouse's.
LEMMA OneRequest ==
    ASSUME ReadyInv
    PROVE  /\ requested \subseteq {1} \/ requested = {12}
           /\ 12 \in requested => step = 20
           /\ step \in 2..9 => PrimaryAsks = {}
  <1>1. requested \subseteq {1} \/ requested = {12}
    BY DEF ReadyInv, MainInv, RequestInv, LineOf
  <1>2. 12 \in requested => step = 20
    <2>1. SUFFICES ASSUME 12 \in requested, step # 20 PROVE FALSE
      OBVIOUS
    <2>2. step >= 11 /\ step < 20 /\ port # <<>> /\ LineOf(Head(port)) = 12
      BY <2>1 DEF ReadyInv, MainInv, RequestInv
    <2>3. Head(port) = port[1] /\ 1 \in 1..Len(port)
      BY <2>2 DEF ReadyInv, PortInv
    <2> QED BY <2>2, <2>3 DEF ReadyInv, PortInv, LineOf
  <1>3. ASSUME step \in 2..9 PROVE PrimaryAsks = {}
    <2>1. step \in 1..20 /\ requested \subseteq {1}
      BY <1>3 DEF ReadyInv, MainInv, RequestInv
    <2>2. SecondaryAsks = {}
      BY <2>1 DEF SecondaryAsks, Secondary
    <2>3. step >= 3 => 1 \in masked
      BY <2>1, <1>3 DEF ReadyInv, MainInv, MaskedAt, Lines
    <2>4. step = 2 => 1 \in masked
      BY DEF ReadyInv, MainInv, MaskedAt, Primary
    <2>5. 1 \in masked
      BY <1>3, <2>1, <2>3, <2>4
    <2> QED BY <2>1, <2>2, <2>5 DEF PrimaryAsks, Primary, Cascade
  <1> QED BY <1>1, <1>2, <1>3

\* What the processor is asked to serve when it can be interrupted.
LEMMA Asked ==
    ASSUME ReadyInv, IF_, PrimaryAsks # {}
    PROVE  /\ pc = "main" /\ running = NoLine /\ in_service = {} /\ step >= 10
           /\ \/ requested = {1} /\ PrimaryAsks = {1}
              \/ /\ requested = {12} /\ PrimaryAsks = {2} /\ SecondaryAsks = {12}
                 /\ step = 20
  <1>1. pc = "main" /\ running = NoLine /\ in_service = {} /\ step >= 4 /\ step \in 1..20
    BY DEF ReadyInv, ServiceInv, Serving, MainInv
  <1>2. step >= 10
    BY <1>1, OneRequest
  <1>3. CASE requested = {12}
    <2>1. step = 20 /\ 12 \notin masked
      BY <1>3, OneRequest DEF ReadyInv, MainInv, MaskedAt
    <2>2. SecondaryAsks = {12}
      BY <1>1, <1>3, <2>1 DEF SecondaryAsks, Secondary, Above
    <2>3. 2 \notin masked
      BY <2>1 DEF ReadyInv, MainInv, MaskedAt
    <2>4. PrimaryAsks = {2}
      BY <1>1, <1>3, <2>2, <2>3 DEF PrimaryAsks, Primary, Cascade, Above
    <2> QED BY <1>1, <1>2, <1>3, <2>1, <2>2, <2>4
  <1>4. CASE requested # {12}
    <2>1. requested \subseteq {1}
      BY <1>4, OneRequest
    <2>2. SecondaryAsks = {}
      BY <2>1 DEF SecondaryAsks, Secondary
    <2>3. PrimaryAsks \subseteq requested
      BY <2>2 DEF PrimaryAsks
    <2>4. PrimaryAsks = {1} /\ requested = {1}
      BY <2>1, <2>3
    <2> QED BY <1>1, <1>2, <2>4
  <1> QED BY <1>3, <1>4

LEMMA InterruptReady == ReadyInv /\ Interrupt => ReadyInv'
  <1> SUFFICES ASSUME ReadyInv, Interrupt PROVE ReadyInv'
    OBVIOUS
  <1>1. IF_ /\ PrimaryAsks # {}
    BY DEF Interrupt
  <1>2. /\ pc = "main" /\ running = NoLine /\ in_service = {} /\ step >= 10
        /\ \/ requested = {1} /\ PrimaryAsks = {1}
           \/ /\ requested = {12} /\ PrimaryAsks = {2} /\ SecondaryAsks = {12}
              /\ step = 20
    BY <1>1, Asked
  <1>3. /\ UNCHANGED <<masked, mouse_intr, sent, step, mask, port, last, owed,
                       isr_handler_table>>
        /\ IF_' = FALSE /\ step \in 1..20
    BY DEF Interrupt, mouse, ps2, ReadyInv, MainInv
  <1>4. MainInv' /\ DeviceInv' /\ PortInv'
    BY <1>3 DEF ReadyInv, MainInv, DeviceInv, PortInv
  <1>5. isr_handler_table[1] = "keyboard_isr"
        /\ (step = 20 => isr_handler_table[12] = "mouse_isr")
    BY <1>2, <1>3 DEF ReadyInv, MainInv, HandlersAt, Lines
  <1>6. CASE requested = {1} /\ PrimaryAsks = {1}
    <2>1. Min(PrimaryAsks) = 1
      BY <1>6, MinOfOne
    <2>2. running' = 1 /\ requested' = {} /\ in_service' = {1} /\ pc' = "keyboard_isr"
      BY <1>2, <1>5, <1>6, <2>1 DEF Interrupt, Cascade
    <2>3. ServiceInv'
      BY <1>2, <1>3, <2>2 DEF ServiceInv, Serving
    <2>4. step >= 11 => port # <<>> /\ LineOf(Head(port)) = 1
      BY <1>2, <1>6 DEF ReadyInv, RequestInv, Reading
    <2>5. RequestInv'
      BY <1>3, <2>2, <2>4 DEF RequestInv, Reading
    <2> QED BY <1>4, <2>3, <2>5 DEF ReadyInv
  <1>7. CASE requested = {12} /\ PrimaryAsks = {2} /\ SecondaryAsks = {12} /\ step = 20
    <2>1. Min(PrimaryAsks) = 2 /\ Min(SecondaryAsks) = 12
      BY <1>7, MinOfOne
    <2>2. running' = 12 /\ requested' = {} /\ in_service' = {2, 12} /\ pc' = "mouse_isr"
      BY <1>2, <1>5, <1>7, <2>1 DEF Interrupt, Cascade
    <2>3. ServiceInv'
      BY <1>3, <1>7, <2>2 DEF ServiceInv, Serving
    <2>4. port # <<>> /\ LineOf(Head(port)) = 12
      BY <1>2, <1>7 DEF ReadyInv, RequestInv, Reading
    <2>5. RequestInv'
      BY <1>3, <1>7, <2>2, <2>4 DEF RequestInv, Reading
    <2> QED BY <1>4, <2>3, <2>5 DEF ReadyInv
  <1> QED BY <1>2, <1>6, <1>7
-----------------------------------------------------------------------------
\* What every step of kernel_main keeps: it runs only when no handler does,
\* and the keyboard's spurious request is served before it goes on.
LEMMA StepKeeps ==
    ASSUME ReadyInv, NEW op, Doing(op), op # "sti" => IF_' = IF_, op = "sti" => IF_' = TRUE,
           UNCHANGED <<in_service, port, last, requested>>
    PROVE  ServiceInv' /\ PortInv' /\ RequestInv'
  <1>1. /\ step \in 1..19 /\ step' = step + 1 /\ pc = "main" /\ UNCHANGED <<running, pc>>
        /\ ~ (IF_ /\ PrimaryAsks # {}) /\ (op = "sti" => step = 3)
        /\ (step = 3 => op = "sti")
    <2>1. step \in 1..20
      BY DEF ReadyInv, MainInv
    <2>2. step = 3 => op = "sti"
      BY ProgramListed DEF Doing, Do
    <2> QED BY <2>1, <2>2, Places
  <1>2. running = NoLine /\ in_service = {} /\ (IF_ <=> step >= 4)
    BY <1>1 DEF ReadyInv, ServiceInv, Serving
  <1>3. ServiceInv'
    <2>1. IF_' <=> step + 1 >= 4
      BY <1>1, <1>2
    <2> QED BY <1>1, <1>2, <2>1 DEF ServiceInv
  <1>4. PortInv'
    BY <1>1 DEF ReadyInv, PortInv
  <1>4a. ~ Reading /\ ~ Reading' /\ requested' = requested /\ port' = port
    BY <1>1 DEF Reading
  <1>5. ASSUME step # 10 PROVE RequestInv'
    <2>1. (step <= 10 <=> step' <= 10) /\ (step >= 11 <=> step' >= 11)
      BY <1>1, <1>5
    <2> QED BY <1>4a, <2>1 DEF ReadyInv, RequestInv
  <1>6. ASSUME step = 10 PROVE RequestInv'
    <2>1. PrimaryAsks = {}
      BY <1>1, <1>2, <1>6
    <2>2. 1 \notin masked
      BY <1>6 DEF ReadyInv, MainInv, MaskedAt
    <2>3. 1 \notin requested
      BY <1>2, <2>1, <2>2 DEF PrimaryAsks, Primary, Above
    <2>4. requested = {} /\ port = <<>>
      BY <1>1, <1>6, <2>3 DEF ReadyInv, RequestInv, Reading
    <2> QED BY <1>1, <1>4a, <1>6, <2>4 DEF RequestInv
  <1> QED BY <1>3, <1>4, <1>5, <1>6

LEMMA SetUpReady ==
    ASSUME ReadyInv, OCW1 \/ STI \/ set_isr_handler PROVE ReadyInv'
  <1>0. step \in 1..20
    BY DEF ReadyInv, MainInv
  <1>1. CASE OCW1
    <2>1. Doing("ocw1") /\ UNCHANGED <<requested, in_service, mouse_intr, sent, IF_, mask,
                                       port, last, owed, isr_handler_table>>
      BY <1>1 DEF OCW1, mouse, ps2
    <2>2. step \in {1, 2} /\ step' = step + 1
      BY <1>0, <2>1, Places
    <2>3. ServiceInv' /\ PortInv' /\ RequestInv'
      BY <2>1, StepKeeps
    <2>4. masked' = MaskedAt(step')
      <3>1. masked' = (masked \ Chip(Line)) \cup (Chip(Line) \ {2})
        BY <1>1 DEF OCW1, Cascade
      <3>2. CASE step = 1
        <4>1. masked = {} /\ Chip(Line) = Primary
          BY <3>2, LineAt DEF ReadyInv, MainInv, MaskedAt, Chip, Primary
        <4> QED BY <2>2, <3>1, <3>2, <4>1 DEF MaskedAt
      <3>3. CASE step = 2
        <4>1. masked = Primary \ {2} /\ Chip(Line) = Secondary
          BY <3>3, LineAt DEF ReadyInv, MainInv, MaskedAt, Chip, Primary
        <4>2. masked' = Lines \ {2}
          BY <3>1, <4>1 DEF Primary, Secondary, Lines
        <4> QED BY <2>2, <3>3, <4>2 DEF MaskedAt
      <3> QED BY <2>2, <3>2, <3>3
    <2>5. MainInv' /\ DeviceInv'
      BY <2>1, <2>2, <2>4 DEF ReadyInv, MainInv, MaskAt, HandlersAt, DeviceInv
    <2> QED BY <2>3, <2>5 DEF ReadyInv
  <1>2. CASE STI
    <2>1. Doing("sti") /\ UNCHANGED <<requested, masked, in_service, mouse_intr, sent, mask,
                                      port, last, owed, isr_handler_table>> /\ IF_' = TRUE
      BY <1>2 DEF STI, mouse, ps2, pic
    <2>2. step = 3 /\ step' = 4
      BY <1>0, <2>1, Places
    <2>3. ServiceInv' /\ PortInv' /\ RequestInv'
      BY <2>1, StepKeeps
    <2>5. MainInv' /\ DeviceInv'
      BY <2>1, <2>2 DEF ReadyInv, MainInv, MaskAt, MaskedAt, HandlersAt, DeviceInv
    <2> QED BY <2>3, <2>5 DEF ReadyInv
  <1>3. CASE set_isr_handler
    <2>1. Doing("set_isr_handler")
          /\ UNCHANGED <<requested, masked, in_service, mouse_intr, sent, IF_, mask, port,
                         last, owed>>
      BY <1>3 DEF set_isr_handler, mouse, ps2, pic
    <2>2. step \in {4, 11} /\ step' = step + 1
      BY <1>0, <2>1, Places
    <2>3. ServiceInv' /\ PortInv' /\ RequestInv'
      BY <2>1, StepKeeps
    <2>4. isr_handler_table' = HandlersAt(step')
      <3>1. isr_handler_table' = [HandlersAt(step) EXCEPT ![Line] =
                                    IF Line = 1 THEN "keyboard_isr" ELSE "mouse_isr"]
        BY <1>3 DEF set_isr_handler, ReadyInv, MainInv
      <3>2. CASE step = 4
        <4>1. Line = 1
          BY <3>2, LineAt
        <4>2. HandlersAt(5) = [HandlersAt(4) EXCEPT ![1] = "keyboard_isr"]
          <5>1. \A l \in Lines :
                  HandlersAt(5)[l] = IF l = 1 THEN "keyboard_isr" ELSE HandlersAt(4)[l]
            BY DEF HandlersAt
          <5> QED BY <5>1 DEF HandlersAt
        <4> QED BY <2>2, <3>1, <3>2, <4>1, <4>2
      <3>3. CASE step = 11
        <4>1. Line = 12
          BY <3>3, LineAt
        <4>2. HandlersAt(12) = [HandlersAt(11) EXCEPT ![12] = "mouse_isr"]
          <5>1. \A l \in Lines :
                  HandlersAt(12)[l] = IF l = 12 THEN "mouse_isr" ELSE HandlersAt(11)[l]
            BY DEF HandlersAt
          <5> QED BY <5>1 DEF HandlersAt
        <4> QED BY <2>2, <3>1, <3>3, <4>1, <4>2
      <3> QED BY <2>2, <3>2, <3>3
    <2>5. MainInv' /\ DeviceInv'
      BY <2>1, <2>2, <2>4 DEF ReadyInv, MainInv, MaskAt, MaskedAt, DeviceInv
    <2> QED BY <2>3, <2>5 DEF ReadyInv
  <1> QED BY <1>1, <1>2, <1>3

LEMMA MaskReady ==
    ASSUME ReadyInv, MaskIn \/ MaskOut PROVE ReadyInv'
  <1>0. step \in 1..20
    BY DEF ReadyInv, MainInv
  <1>1. CASE MaskIn
    <2>1. Doing("mask_in") /\ UNCHANGED <<requested, masked, in_service, mouse_intr, sent, IF_,
                                          port, last, owed, isr_handler_table>>
          /\ mask' = masked \cap Chip(Line)
      BY <1>1 DEF MaskIn, mouse, ps2, pic
    <2>2. step \in {8, 12, 14, 16} /\ step' = step + 1
      BY <1>0, <2>1, Places
    <2>3. ServiceInv' /\ PortInv' /\ RequestInv'
      BY <2>1, StepKeeps
    <2>4. mask' = MaskAt(step')
      <3>1. CASE step = 8
        <4>1. masked = Lines \ {2} /\ Chip(Line) = Primary
          BY <3>1, LineAt DEF ReadyInv, MainInv, MaskedAt, Chip, Primary
        <4>2. mask' = Primary \ {2}
          BY <2>1, <4>1 DEF Primary, Lines
        <4> QED BY <2>2, <3>1, <4>2 DEF MaskAt
      <3>2. CASE step = 12
        <4>1. masked = Lines \ {1, 2} /\ Chip(Line) = Primary
          BY <3>2, LineAt DEF ReadyInv, MainInv, MaskedAt, Chip, Primary
        <4>2. mask' = Primary \ {1, 2}
          BY <2>1, <4>1 DEF Primary, Lines
        <4> QED BY <2>2, <3>2, <4>2 DEF MaskAt
      <3>3. CASE step = 14
        <4>1. masked = Lines \ {1, 2} /\ Chip(Line) = Secondary
          BY <3>3, LineAt DEF ReadyInv, MainInv, MaskedAt, Chip, Primary
        <4>2. mask' = Secondary
          BY <2>1, <4>1 DEF Secondary, Lines
        <4> QED BY <2>2, <3>3, <4>2 DEF MaskAt
      <3>4. CASE step = 16
        <4>1. masked = Lines \ {1, 2, 9} /\ Chip(Line) = Secondary
          BY <3>4, LineAt DEF ReadyInv, MainInv, MaskedAt, Chip, Primary
        <4>2. mask' = Secondary \ {9}
          BY <2>1, <4>1 DEF Secondary, Lines
        <4> QED BY <2>2, <3>4, <4>2 DEF MaskAt
      <3> QED BY <2>2, <3>1, <3>2, <3>3, <3>4
    <2>5. MainInv' /\ DeviceInv'
      <3>1. MaskedAt(step') = MaskedAt(step) /\ HandlersAt(step') = HandlersAt(step)
        BY <2>2 DEF MaskedAt, HandlersAt
      <3>2. step' \in 1..20 /\ (step' >= 19 <=> step >= 19) /\ step < 20 /\ step' < 20
        BY <2>2
      <3> QED BY <2>1, <2>4, <3>1, <3>2 DEF ReadyInv, MainInv, DeviceInv
    <2> QED BY <2>3, <2>5 DEF ReadyInv
  <1>2. CASE MaskOut
    <2>1. Doing("mask_out") /\ UNCHANGED <<requested, in_service, mouse_intr, sent, IF_,
                                           port, last, owed, isr_handler_table>>
          /\ masked' = (masked \ Chip(Line)) \cup (mask \ {Line}) /\ mask' = {}
      BY <1>2 DEF MaskOut, mouse, ps2
    <2>2. step \in {9, 13, 15, 17} /\ step' = step + 1
      BY <1>0, <2>1, Places
    <2>3. ServiceInv' /\ PortInv' /\ RequestInv'
      BY <2>1, StepKeeps
    <2>4. masked' = MaskedAt(step')
      <3>1. CASE step = 9
        <4>1. masked = Lines \ {2} /\ Chip(Line) = Primary /\ mask = Primary \ {2} /\ Line = 1
          BY <3>1, LineAt DEF ReadyInv, MainInv, MaskedAt, MaskAt, Chip, Primary
        <4>2. masked' = Lines \ {1, 2}
          BY <2>1, <4>1 DEF Primary, Lines
        <4> QED BY <2>2, <3>1, <4>2 DEF MaskedAt
      <3>2. CASE step = 13
        <4>1. masked = Lines \ {1, 2} /\ Chip(Line) = Primary /\ mask = Primary \ {1, 2}
              /\ Line = 2
          BY <3>2, LineAt DEF ReadyInv, MainInv, MaskedAt, MaskAt, Chip, Primary
        <4>2. masked' = Lines \ {1, 2}
          BY <2>1, <4>1 DEF Primary, Lines
        <4> QED BY <2>2, <3>2, <4>2 DEF MaskedAt
      <3>3. CASE step = 15
        <4>1. masked = Lines \ {1, 2} /\ Chip(Line) = Secondary /\ mask = Secondary /\ Line = 9
          BY <3>3, LineAt DEF ReadyInv, MainInv, MaskedAt, MaskAt, Chip, Primary
        <4>2. masked' = Lines \ {1, 2, 9}
          BY <2>1, <4>1 DEF Secondary, Lines
        <4> QED BY <2>2, <3>3, <4>2 DEF MaskedAt
      <3>4. CASE step = 17
        <4>1. masked = Lines \ {1, 2, 9} /\ Chip(Line) = Secondary /\ mask = Secondary \ {9}
              /\ Line = 12
          BY <3>4, LineAt DEF ReadyInv, MainInv, MaskedAt, MaskAt, Chip, Primary
        <4>2. masked' = Lines \ {1, 2, 9, 12}
          BY <2>1, <4>1 DEF Secondary, Lines
        <4> QED BY <2>2, <3>4, <4>2 DEF MaskedAt
      <3> QED BY <2>2, <3>1, <3>2, <3>3, <3>4
    <2>5. MainInv' /\ DeviceInv'
      <3>1. MaskAt(step') = {} /\ HandlersAt(step') = HandlersAt(step)
        BY <2>2 DEF MaskAt, HandlersAt
      <3>2. step' \in 1..20 /\ (step' >= 19 <=> step >= 19) /\ step < 20 /\ step' < 20
        BY <2>2
      <3> QED BY <2>1, <2>4, <3>1, <3>2 DEF ReadyInv, MainInv, DeviceInv
    <2> QED BY <2>3, <2>5 DEF ReadyInv
  <1> QED BY <1>1, <1>2

\* A step that leaves masks and handlers as they are.
LEMMA OtherStepsMain ==
    ASSUME ReadyInv, step \in {5, 6, 7, 10, 18, 19}, step' = step + 1,
           UNCHANGED <<masked, mask, isr_handler_table>>,
           mouse_intr' <=> (mouse_intr \/ step = 18)
    PROVE  MainInv'
  <1>1. /\ MaskedAt(step') = MaskedAt(step) /\ HandlersAt(step') = HandlersAt(step)
        /\ MaskAt(step') = MaskAt(step)
    BY DEF MaskedAt, HandlersAt, MaskAt
  <1>2. step' \in 1..20 /\ (step' >= 19 <=> step >= 18) /\ (step >= 18 <=> step >= 19 \/ step = 18)
    OBVIOUS
  <1> QED BY <1>1, <1>2 DEF ReadyInv, MainInv

LEMMA DriversReady ==
    ASSUME ReadyInv,
           SetLeds \/ KeyboardFlags \/ ClearMouse \/ MouseIntr \/ MouseReporting
    PROVE  ReadyInv'
  <1>0. step \in 1..20
    BY DEF ReadyInv, MainInv
  <1>1. CASE SetLeds \/ MouseReporting
    <2>1. PICK op \in {"set_leds", "mouse_reporting"} :
            /\ Doing(op)
            /\ owed' = owed \cup {IF op = "set_leds" THEN "keyboard" ELSE "mouse"}
      BY <1>1 DEF SetLeds, MouseReporting
    <2>2. UNCHANGED <<requested, masked, in_service, mouse_intr, sent, IF_, mask,
                      port, last, isr_handler_table>>
      BY <1>1 DEF SetLeds, MouseReporting, mouse, pic
    <2>3. step' = step + 1 /\ (op = "set_leds" => step = 5)
          /\ (op = "mouse_reporting" => step = 19)
      BY <1>0, <2>1, Places
    <2>4. ServiceInv' /\ PortInv' /\ RequestInv'
      BY <2>1, <2>2, StepKeeps
    <2>5. MainInv'
      BY <2>1, <2>2, <2>3, OtherStepsMain
    <2>6. DeviceInv'
      BY <2>1, <2>2, <2>3 DEF ReadyInv, DeviceInv
    <2> QED BY <2>4, <2>5, <2>6 DEF ReadyInv
  <1>2. CASE KeyboardFlags \/ ClearMouse \/ MouseIntr
    <2>1. PICK op \in {"flags", "memset", "mouse_intr"} :
            /\ Doing(op)
            /\ mouse_intr' <=> (mouse_intr \/ op = "mouse_intr")
      BY <1>2 DEF KeyboardFlags, ClearMouse, MouseIntr, mouse
    <2>2. UNCHANGED <<requested, masked, in_service, sent, IF_, mask,
                      port, last, owed, isr_handler_table>>
      BY <1>2 DEF KeyboardFlags, ClearMouse, MouseIntr, mouse, pic, ps2
    <2>3. step' = step + 1 /\ (op = "flags" => step = 7) /\ (op = "memset" => step = 10)
          /\ (op = "mouse_intr" => step = 18)
      BY <1>0, <2>1, Places
    <2>4. ServiceInv' /\ PortInv' /\ RequestInv'
      BY <2>1, <2>2, StepKeeps
    <2>5. MainInv'
      <3>1. step \in {7, 10, 18} /\ (op = "mouse_intr" <=> step = 18)
        BY <2>1, <2>3
      <3> QED BY <2>1, <2>2, <2>3, <3>1, OtherStepsMain
    <2>6. DeviceInv'
      BY <2>1, <2>2, <2>3 DEF ReadyInv, DeviceInv
    <2> QED BY <2>4, <2>5, <2>6 DEF ReadyInv
  <1> QED BY <1>1, <1>2
-----------------------------------------------------------------------------
\* A byte taken from the port: the next one announces itself.
LEMMA TakenGives ==
    ASSUME ReadyInv, Taken
    PROVE  /\ port' \in Seq(PortByte)
           /\ port = <<>> => port' = <<>>
           /\ port # <<>> => Len(port') = Len(port) - 1
           /\ \A p \in 1..Len(port') : p + 1 \in 1..Len(port) /\ port'[p] = port[p + 1]
           /\ last' = inb /\ last'.from \in {"keyboard", "mouse"}
           /\ step < 20 => /\ last'.from = "keyboard"
                           /\ \A p \in 1..Len(port') : port'[p].from = "keyboard"
           /\ Announced(port') = IF port' = <<>> THEN {} ELSE {LineOf(Head(port'))}
  <1>1. port \in Seq(PortByte) /\ last.from \in {"keyboard", "mouse"} /\ step \in 1..20
        /\ (mouse_intr <=> step >= 19)
    BY DEF ReadyInv, PortInv, MainInv
  <1>2. step < 20 => /\ last.from = "keyboard"
                     /\ \A p \in 1..Len(port) : port[p].from = "keyboard"
    BY DEF ReadyInv, PortInv
  <1>3. \A p \in 1..Len(port) : port[p].from \in {"keyboard", "mouse"}
    <2> SUFFICES ASSUME NEW p \in 1..Len(port) PROVE port[p].from \in {"keyboard", "mouse"}
      OBVIOUS
    <2>1. port[p] \in PortByte
      BY <1>1
    <2> QED BY <2>1 DEF PortByte
  <1>4. CASE port = <<>>
    <2>1. port' = <<>> /\ last' = last /\ inb = last
      BY <1>4 DEF Taken, inb
    <2> QED BY <1>1, <1>2, <1>4, <2>1 DEF Announced
  <1>5. CASE port # <<>>
    <2>1. port' = Tail(port) /\ last' = Head(port) /\ inb = Head(port)
      BY <1>5 DEF Taken, inb
    <2>2. /\ port' \in Seq(PortByte) /\ Len(port') = Len(port) - 1 /\ Len(port) \in Nat
          /\ \A p \in 1..Len(port') : p + 1 \in 1..Len(port) /\ port'[p] = port[p + 1]
          /\ Head(port) = port[1] /\ 1 \in 1..Len(port)
      BY <1>1, <1>5, <2>1
    <2>3. last'.from \in {"keyboard", "mouse"} /\ (step < 20 => last'.from = "keyboard")
      BY <1>2, <1>3, <2>1, <2>2
    <2>4. ASSUME port' # <<>>
          PROVE  Announced(port') = {LineOf(Head(port'))}
      <3>1. Head(port') = port'[1] /\ 1 \in 1..Len(port')
        BY <2>2, <2>4
      <3>2. Head(port') = port[2] /\ 2 \in 1..Len(port)
        BY <2>2, <3>1
      <3>3. Head(port').from = "mouse" => mouse_intr
        BY <1>1, <1>2, <3>2
      <3> QED BY <2>4, <3>3 DEF Announced
    <2>5. port' = <<>> => Announced(port') = {}
      BY DEF Announced
    <2> QED BY <1>2, <1>5, <2>1, <2>2, <2>3, <2>4, <2>5
  <1> QED BY <1>4, <1>5

LEMMA ReadLedsReady == ReadyInv /\ ReadLeds => ReadyInv'
  <1> SUFFICES ASSUME ReadyInv, ReadLeds PROVE ReadyInv'
    OBVIOUS
  <1>1. /\ Doing("read_leds") /\ Taken
        /\ UNCHANGED <<masked, in_service, mouse_intr, sent, IF_, mask, owed, isr_handler_table>>
    BY DEF ReadLeds, mouse
  <1>2. step = 6 /\ step' = 7 /\ pc = "main" /\ UNCHANGED <<pc, running>>
    <2>1. step \in 1..20
      BY DEF ReadyInv, MainInv
    <2> QED BY <1>1, <2>1, Places
  <1>3. MainInv'
    BY <1>1, <1>2, OtherStepsMain
  <1>4. ServiceInv' /\ DeviceInv'
    BY <1>1, <1>2 DEF ReadyInv, ServiceInv, Serving, DeviceInv
  <1>5. PortInv'
    BY <1>1, <1>2, TakenGives DEF PortInv
  <1>6. RequestInv'
    <2>1. PICK withdrawn \in {{}, Announced(port)} :
            requested' = (requested \ withdrawn) \cup Announced(port')
      BY DEF ReadLeds
    <2>2. Announced(port') = IF port' = <<>> THEN {} ELSE {LineOf(Head(port'))}
      BY <1>1, TakenGives
    <2>3. port' # <<>> => LineOf(Head(port')) = 1
      <3> SUFFICES ASSUME port' # <<>> PROVE LineOf(Head(port')) = 1
        OBVIOUS
      <3>1. port' \in Seq(PortByte)
        BY <1>1, TakenGives
      <3>2. Head(port') = port'[1] /\ 1 \in 1..Len(port')
        BY <3>1
      <3>3. Head(port').from = "keyboard"
        BY <1>1, <1>2, <3>2, TakenGives
      <3> QED BY <3>3 DEF LineOf
    <2>4. requested \subseteq {1}
      BY <1>2 DEF ReadyInv, RequestInv
    <2>5. requested' \subseteq {1} /\ (port' # <<>> => requested' = {1})
      BY <2>1, <2>2, <2>3, <2>4
    <2> QED BY <1>2, <2>5 DEF RequestInv
  <1> QED BY <1>3, <1>4, <1>5, <1>6 DEF ReadyInv

LEMMA HandlersKeep ==
    ASSUME ReadyInv, keyboard_isr_handler \/ mouse_isr_handler PROVE ReadyInv'
  <1>1. /\ Reading /\ Taken /\ pc' = "send_eoi"
        /\ requested' = requested \cup Announced(port')
        /\ UNCHANGED <<masked, in_service, mouse_intr, sent, step, IF_, mask, running, owed,
                       isr_handler_table>>
    BY DEF keyboard_isr_handler, mouse_isr_handler, Reading, mouse
  <1>2. MainInv' /\ DeviceInv'
    BY <1>1 DEF ReadyInv, MainInv, DeviceInv
  <1>3. ServiceInv'
    <2>1. \/ step >= 10 /\ Serving(1, {"keyboard_isr", "send_eoi"}, {1})
          \/ step >= 18 /\ Serving(12, {"mouse_isr", "send_eoi"}, {2, 12})
      BY <1>1 DEF ReadyInv, ServiceInv, Serving, Reading
    <2> QED BY <1>1, <2>1 DEF ServiceInv, Serving
  <1>4. PortInv'
    BY <1>1, TakenGives DEF PortInv
  <1>5. RequestInv'
    <2>1. Announced(port') = IF port' = <<>> THEN {} ELSE {LineOf(Head(port'))}
      BY <1>1, TakenGives
    <2>2. ~ Reading' /\ step \in 1..20
      BY <1>1 DEF Reading, ReadyInv, MainInv
    <2>3. CASE step <= 10
      <3>1. port' # <<>> => LineOf(Head(port')) = 1
        <4> SUFFICES ASSUME port' # <<>> PROVE LineOf(Head(port')) = 1
          OBVIOUS
        <4>1. port' \in Seq(PortByte)
          BY <1>1, TakenGives
        <4>2. Head(port') = port'[1] /\ 1 \in 1..Len(port')
          BY <4>1
        <4>3. step < 20
          BY <2>2, <2>3
        <4>4. Head(port').from = "keyboard"
          BY <1>1, <4>2, <4>3, TakenGives
        <4> QED BY <4>4 DEF LineOf
      <3>2. requested \subseteq {1}
        BY <2>3 DEF ReadyInv, RequestInv
      <3>3. requested' \subseteq {1} /\ (port' # <<>> => requested' = {1})
        BY <1>1, <2>1, <3>1, <3>2
      <3> QED BY <1>1, <2>2, <2>3, <3>3 DEF RequestInv
    <2>4. CASE step >= 11
      <3>1. requested = {}
        BY <1>1, <2>4 DEF ReadyInv, RequestInv
      <3> QED BY <1>1, <2>1, <2>2, <2>4, <3>1 DEF RequestInv
    <2> QED BY <2>2, <2>3, <2>4
  <1> QED BY <1>2, <1>3, <1>4, <1>5 DEF ReadyInv

\* An EOI that is not specific ends the right interrupt: nothing is nested.
LEMMA EndsReady ==
    ASSUME ReadyInv, send_eoi \/ SendEoiSecondary \/ IRET PROVE ReadyInv'
  <1>1. /\ ~ Reading /\ ~ Reading'
        /\ UNCHANGED <<masked, requested, mouse_intr, sent, step, mask, port, last, owed,
                       isr_handler_table>>
    BY DEF send_eoi, SendEoiSecondary, IRET, Reading, mouse, ps2, pic
  <1>2. MainInv' /\ DeviceInv' /\ PortInv'
    BY <1>1 DEF ReadyInv, MainInv, DeviceInv, PortInv
  <1>3. RequestInv'
    BY <1>1 DEF ReadyInv, RequestInv
  <1>4. ServiceInv'
    <2>1. CASE send_eoi
      <3>1. /\ pc = "send_eoi" /\ UNCHANGED <<running, IF_, step>>
            /\ in_service' = IF in_service \cap Primary = {} THEN in_service
                             ELSE in_service \ {Min(in_service \cap Primary)}
            /\ pc' = IF running \in Secondary THEN "send_eoi_secondary" ELSE "iret"
        BY <2>1 DEF send_eoi, EOI
      <3>2. CASE step >= 10 /\ running = 1 /\ in_service = {1} /\ ~ IF_
        <4>1. in_service \cap Primary = {1} /\ running \notin Secondary
          BY <3>2 DEF Primary, Secondary
        <4>2. in_service' = {} /\ pc' = "iret"
          BY <3>1, <3>2, <4>1, MinOfOne
        <4> QED BY <3>1, <3>2, <4>2 DEF ServiceInv, Serving
      <3>3. CASE step >= 18 /\ running = 12 /\ in_service = {2, 12} /\ ~ IF_
        <4>1. in_service \cap Primary = {2} /\ running \in Secondary
          BY <3>3 DEF Primary, Secondary
        <4>2. in_service' = {12} /\ pc' = "send_eoi_secondary"
          BY <3>1, <3>3, <4>1, MinOfOne
        <4> QED BY <3>1, <3>3, <4>2 DEF ServiceInv, Serving
      <3> QED BY <3>1, <3>2, <3>3 DEF ReadyInv, ServiceInv, Serving
    <2>2. CASE SendEoiSecondary
      <3>1. /\ pc = "send_eoi_secondary" /\ UNCHANGED <<running, IF_, step>> /\ pc' = "iret"
            /\ in_service' = IF in_service \cap Secondary = {} THEN in_service
                             ELSE in_service \ {Min(in_service \cap Secondary)}
        BY <2>2 DEF SendEoiSecondary, EOI
      <3>2. step >= 18 /\ running = 12 /\ in_service = {12} /\ ~ IF_
        BY <3>1 DEF ReadyInv, ServiceInv, Serving
      <3>3. in_service \cap Secondary = {12}
        BY <3>2 DEF Secondary
      <3>4. in_service' = {}
        BY <3>1, <3>2, <3>3, MinOfOne
      <3> QED BY <3>1, <3>2, <3>4 DEF ServiceInv, Serving
    <2>3. CASE IRET
      <3>1. /\ pc = "iret" /\ pc' = "main" /\ running' = NoLine /\ IF_' = TRUE
            /\ UNCHANGED <<step, in_service>>
        BY <2>3 DEF IRET, pic
      <3>2. in_service = {} /\ step >= 10 /\ step \in 1..20
        BY <3>1 DEF ReadyInv, ServiceInv, Serving, MainInv
      <3> QED BY <3>1, <3>2 DEF ServiceInv
    <2> QED BY <2>1, <2>2, <2>3
  <1> QED BY <1>2, <1>3, <1>4 DEF ReadyInv

LEMMA ReadyHolds == Spec => []ReadyInv
  <1>1. ReadyInv /\ [Next]_vars => ReadyInv'
    <2> SUFFICES ASSUME ReadyInv, [Next]_vars PROVE ReadyInv'
      OBVIOUS
    <2>1. CASE Acknowledge \/ Key \/ Move \/ Interrupt
      BY <2>1, AcknowledgeReady, KeyReady, MoveReady, InterruptReady
    <2>2. CASE OCW1 \/ STI \/ set_isr_handler
      BY <2>2, SetUpReady
    <2>3. CASE MaskIn \/ MaskOut
      BY <2>3, MaskReady
    <2>4. CASE SetLeds \/ KeyboardFlags \/ ClearMouse \/ MouseIntr \/ MouseReporting
      BY <2>4, DriversReady
    <2>5. CASE ReadLeds
      BY <2>5, ReadLedsReady
    <2>6. CASE keyboard_isr_handler \/ mouse_isr_handler
      BY <2>6, HandlersKeep
    <2>7. CASE send_eoi \/ SendEoiSecondary \/ IRET
      BY <2>7, EndsReady
    <2>8. CASE Printing \/ UNCHANGED vars
      <3>1. UNCHANGED <<masked, requested, in_service, mouse_intr, sent, step, IF_, mask,
                        running, pc, port, last, owed, isr_handler_table>>
        BY <2>8 DEF Printing, vars, pic, mouse, cpu, ps2
      <3> QED BY <3>1 DEF ReadyInv, MainInv, ServiceInv, Serving, DeviceInv, PortInv,
                          RequestInv, Reading
    <2> QED BY <2>1, <2>2, <2>3, <2>4, <2>5, <2>6, <2>7, <2>8
            DEF Next, kernel_main, Handler
  <1> QED BY <1>1, ReadyInit, PTL DEF Spec
-----------------------------------------------------------------------------
\* No handler runs before it is installed and the state it updates is set up,
\* though interrupts are on from pic_init (pic.c:25, keyboard.c:217-224,
\* mouse.c:70-93).
THEOREM HandlersAlwaysReady == Spec => []HandlersReady
  <1>1. ReadyInv => HandlersReady
    <2> SUFFICES ASSUME ReadyInv, running # NoLine PROVE HandlersReady
      BY DEF HandlersReady
    <2>1. \/ running = 1 /\ step >= 10
          \/ running = 12 /\ step >= 18
      BY DEF ReadyInv, ServiceInv, Serving
    <2>2. step \in 1..20 /\ isr_handler_table = HandlersAt(step)
      BY DEF ReadyInv, MainInv
    <2>3. isr_handler_table[running] # "none"
      BY <2>1, <2>2 DEF HandlersAt, Lines
    <2>4. step >= 10 => Done("flags", 0)
      <3> SUFFICES ASSUME step >= 10, NEW n \in step..19 PROVE Program[n] # Do("flags", 0)
        BY ProgramListed DEF Done
      <3>1. \/ n = 10 \/ n = 11 \/ n = 12 \/ n = 13 \/ n = 14 \/ n = 15 \/ n = 16 \/ n = 17
            \/ n = 18 \/ n = 19
        BY <2>2
      <3>2. Program[n].op # "flags"
        BY <3>1, ProgramListed DEF Do
      <3> QED BY <3>2 DEF Do
    <2>5. step >= 18 => Done("memset", 0)
      <3> SUFFICES ASSUME step >= 18, NEW n \in step..19 PROVE Program[n] # Do("memset", 0)
        BY ProgramListed DEF Done
      <3>1. n = 18 \/ n = 19
        BY <2>2
      <3>2. Program[n].op # "memset"
        BY <3>1, ProgramListed DEF Do
      <3> QED BY <3>2 DEF Do
    <2> QED BY <2>1, <2>3, <2>4, <2>5 DEF HandlersReady
  <1> QED BY <1>1, ReadyHolds, PTL

LEMMA BytesAreRight == ReadyInv => BytesReachTheirDriver
  <1> SUFFICES ASSUME ReadyInv PROVE BytesReachTheirDriver
    OBVIOUS
  <1>1. step \in 1..20 /\ port \in Seq(PortByte)
    BY DEF ReadyInv, MainInv, PortInv
  <1>2. port # <<>> => Head(port) = port[1] /\ 1 \in 1..Len(port)
    BY <1>1
  <1>3. port # <<>> => Head(port).from \in {"keyboard", "mouse"}
    <2>1. port # <<>> => port[1] \in PortByte
      BY <1>1, <1>2
    <2> QED BY <1>2, <2>1 DEF PortByte
  <1>4. ASSUME pc = "keyboard_isr" PROVE inb.from = "keyboard"
    <2>1. running = 1
      BY <1>4 DEF ReadyInv, ServiceInv, Serving
    <2>2. CASE step <= 10
      <3>1. step < 20
        BY <1>1, <2>2
      <3> QED BY <1>2, <3>1 DEF ReadyInv, PortInv, inb
    <2>3. CASE step >= 11
      <3>1. port # <<>> /\ LineOf(Head(port)) = 1
        BY <1>4, <2>1, <2>3 DEF ReadyInv, RequestInv, Reading
      <3> QED BY <1>3, <3>1 DEF LineOf, inb
    <2> QED BY <1>1, <2>2, <2>3
  <1>5. ASSUME pc = "mouse_isr" PROVE port # <<>> /\ inb.from = "mouse"
    <2>1. running = 12 /\ step >= 11
      BY <1>1, <1>5 DEF ReadyInv, ServiceInv, Serving
    <2>2. port # <<>> /\ LineOf(Head(port)) = 12
      BY <1>5, <2>1 DEF ReadyInv, RequestInv, Reading
    <2> QED BY <1>3, <2>2 DEF LineOf, inb
  <1> QED BY <1>4, <1>5 DEF BytesReachTheirDriver

\* No driver takes a byte of the other's device, whatever is typed and moved
\* (keyboard.c:195,201, mouse.c:59).
THEOREM BytesAlwaysReachTheirDriver == Spec => []BytesReachTheirDriver
  BY BytesAreRight, ReadyHolds, PTL

\* A byte at the port has always made its line request: the port is never
\* blocked by one nobody was told of (mouse.c:76-85, interrupt.c:63-72).
THEOREM BytesAlwaysAnnounced == Spec => []EveryByteAnnounced
  <1>1. ReadyInv => EveryByteAnnounced
    <2> SUFFICES ASSUME ReadyInv, step = Loop, port # <<>>,
                        pc \notin {"keyboard_isr", "mouse_isr"}
                 PROVE  LineOf(Head(port)) \in requested
      BY DEF EveryByteAnnounced
    <2>1. step = 20
      BY ProgramListed
    <2> QED BY <2>1 DEF ReadyInv, RequestInv, Reading
  <1> QED BY <1>1, ReadyHolds, PTL
-----------------------------------------------------------------------------
Mouse(b) == b.from = "mouse"

\* The byte the mouse sends after b: packets "even" and "odd" in turn.
After(b) ==
    IF b.is = "ack" THEN Byte("mouse", "even", 1)
    ELSE IF b.n < 3 THEN Byte("mouse", b.is, b.n + 1)
    ELSE Byte("mouse", IF b.is = "even" THEN "odd" ELSE "even", 1)

\* The mouse's bytes in s lead from the one awaited to the one coming, with
\* none lost, doubled or out of turn between them.
Chain(awaited, s, coming) ==
    /\ \A p \in 1..Len(s) :
         Mouse(s[p]) /\ (\A q \in 1..Len(s) : q < p => ~ Mouse(s[q])) => s[p] = awaited
    /\ \A p, q \in 1..Len(s) :
         /\ Mouse(s[p]) /\ Mouse(s[q]) /\ p < q
         /\ \A r \in 1..Len(s) : p < r /\ r < q => ~ Mouse(s[r])
         => s[q] = After(s[p])
    /\ \A p \in 1..Len(s) :
         Mouse(s[p]) /\ (\A q \in 1..Len(s) : p < q => ~ Mouse(s[q])) => coming = After(s[p])
    /\ (\A p \in 1..Len(s) : ~ Mouse(s[p])) => awaited = coming

LEMMA ChainGrows ==
    ASSUME NEW S, NEW s \in Seq(S), NEW b, b \in S, NEW a, NEW c, Chain(a, s, c),
           NEW t, t = Append(s, b)
    PROVE  /\ ~ Mouse(b) => Chain(a, t, c)
           /\ Mouse(b) /\ b = c => Chain(a, t, After(b))
  <1>1. /\ Len(t) = Len(s) + 1 /\ Len(s) \in Nat /\ t[Len(s) + 1] = b
        /\ \A p \in 1..Len(s) : t[p] = s[p]
        /\ \A p \in 1..Len(t) : p \in 1..Len(s) \/ p = Len(s) + 1
        /\ \A p \in 1..Len(s) : p \in 1..Len(t)
        /\ Len(s) + 1 \in 1..Len(t)
    OBVIOUS
  <1>2. ASSUME NEW p \in 1..Len(s), Mouse(t[p]),
               \A q \in 1..Len(t) : q < p => ~ Mouse(t[q])
        PROVE  t[p] = a
    <2>1. \A q \in 1..Len(s) : q < p => ~ Mouse(s[q])
      BY <1>1, <1>2
    <2> QED BY <1>1, <1>2, <2>1 DEF Chain
  <1>3. ASSUME NEW p \in 1..Len(s), NEW q \in 1..Len(s), Mouse(t[p]), Mouse(t[q]), p < q,
               \A r \in 1..Len(t) : p < r /\ r < q => ~ Mouse(t[r])
        PROVE  t[q] = After(t[p])
    <2>1. \A r \in 1..Len(s) : p < r /\ r < q => ~ Mouse(s[r])
      BY <1>1, <1>3
    <2> QED BY <1>1, <1>3, <2>1 DEF Chain
  <1>4. ASSUME NEW p \in 1..Len(s), Mouse(t[p]),
               \A q \in 1..Len(s) : p < q => ~ Mouse(t[q])
        PROVE  c = After(t[p])
    <2>1. \A q \in 1..Len(s) : p < q => ~ Mouse(s[q])
      BY <1>1, <1>4
    <2> QED BY <1>1, <1>4, <2>1 DEF Chain
  <1>5. (\A p \in 1..Len(s) : ~ Mouse(t[p])) => a = c
    BY <1>1 DEF Chain
  <1>6. ASSUME ~ Mouse(b) PROVE Chain(a, t, c)
    <2>1. \A p \in 1..Len(t) : Mouse(t[p]) => p \in 1..Len(s)
      BY <1>1, <1>6
    <2>2. ASSUME NEW p \in 1..Len(t), Mouse(t[p]),
                 \A q \in 1..Len(t) : p < q => ~ Mouse(t[q])
          PROVE  c = After(t[p])
      BY <1>1, <1>4, <2>1, <2>2
    <2>3. (\A p \in 1..Len(t) : ~ Mouse(t[p])) => a = c
      BY <1>1, <1>5
    <2>4. ASSUME NEW p \in 1..Len(t), Mouse(t[p]),
                 \A q \in 1..Len(t) : q < p => ~ Mouse(t[q])
          PROVE  t[p] = a
      BY <1>2, <2>1, <2>4
    <2>5. ASSUME NEW p \in 1..Len(t), NEW q \in 1..Len(t), Mouse(t[p]), Mouse(t[q]), p < q,
                 \A r \in 1..Len(t) : p < r /\ r < q => ~ Mouse(t[r])
          PROVE  t[q] = After(t[p])
      BY <1>3, <2>1, <2>5
    <2> QED BY <2>2, <2>3, <2>4, <2>5 DEF Chain
  <1>7. ASSUME Mouse(b), b = c PROVE Chain(a, t, After(b))
    <2> DEFINE k == Len(s) + 1
    <2>1. t[k] = b /\ k \in 1..Len(t) /\ \A p \in 1..Len(t) : p # k => p \in 1..Len(s) /\ p < k
      BY <1>1
    <2>2. \A p \in 1..Len(t) : ~ (k < p)
      BY <1>1
    <2>3. \A p \in 1..Len(s) : p < k
      BY <1>1
    <2> HIDE DEF k
    <2>4. ASSUME NEW p \in 1..Len(t), Mouse(t[p]),
                 \A q \in 1..Len(t) : q < p => ~ Mouse(t[q])
          PROVE  t[p] = a
      <3>1. CASE p = k
        <4>1. \A q \in 1..Len(s) : ~ Mouse(t[q])
          BY <1>1, <2>3, <2>4, <3>1
        <4> QED BY <1>5, <1>7, <2>1, <3>1, <4>1
      <3> QED BY <1>2, <2>1, <2>4, <3>1
    <2>5. ASSUME NEW p \in 1..Len(t), NEW q \in 1..Len(t), Mouse(t[p]), Mouse(t[q]), p < q,
                 \A r \in 1..Len(t) : p < r /\ r < q => ~ Mouse(t[r])
          PROVE  t[q] = After(t[p])
      <3>0. p # k /\ p \in 1..Len(s)
        BY <2>1, <2>2, <2>5
      <3>1. CASE q = k
        <4>1. \A r \in 1..Len(s) : p < r => ~ Mouse(t[r])
          BY <1>1, <2>3, <2>5, <3>1
        <4> QED BY <1>4, <1>7, <2>1, <2>5, <3>0, <3>1, <4>1
      <3> QED BY <1>3, <2>1, <2>5, <3>0, <3>1
    <2>6. ASSUME NEW p \in 1..Len(t), Mouse(t[p]),
                 \A q \in 1..Len(t) : p < q => ~ Mouse(t[q])
          PROVE  After(b) = After(t[p])
      <3>1. p = k
        BY <1>7, <2>1, <2>6
      <3> QED BY <2>1, <3>1
    <2>7. ~ \A p \in 1..Len(t) : ~ Mouse(t[p])
      BY <1>7, <2>1
    <2> QED BY <2>4, <2>5, <2>6, <2>7 DEF Chain
  <1> QED BY <1>6, <1>7

LEMMA ChainShrinks ==
    ASSUME NEW S, NEW s \in Seq(S), s # <<>>, NEW a, NEW c, Chain(a, s, c),
           NEW t, t = Tail(s)
    PROVE  /\ ~ Mouse(Head(s)) => Chain(a, t, c)
           /\ Mouse(Head(s)) => Head(s) = a /\ Chain(After(a), t, c)
  <1>1. /\ Len(t) = Len(s) - 1 /\ Len(s) \in Nat \ {0} /\ Head(s) = s[1]
        /\ \A p \in 1..Len(t) : p + 1 \in 1..Len(s) /\ t[p] = s[p + 1] /\ p \in Int
        /\ \A p \in 1..Len(s) : p # 1 => p - 1 \in 1..Len(t) /\ s[p] = t[p - 1]
        /\ \A p \in 1..Len(s) : p \in Int /\ p >= 1
        /\ 1 \in 1..Len(s)
    OBVIOUS
  <1>2. ASSUME NEW p \in 1..Len(t), NEW q \in 1..Len(t),
               Mouse(t[p]), Mouse(t[q]), p < q,
               \A r \in 1..Len(t) : p < r /\ r < q => ~ Mouse(t[r])
        PROVE  t[q] = After(t[p])
    <2>1. ASSUME NEW r \in 1..Len(s), p + 1 < r, r < q + 1 PROVE ~ Mouse(s[r])
      <3>1. r # 1 /\ r - 1 \in 1..Len(t) /\ s[r] = t[r - 1] /\ p < r - 1 /\ r - 1 < q
        BY <1>1, <2>1
      <3> QED BY <1>2, <3>1
    <2> DEFINE P == p + 1
               Q == q + 1
    <2>2. P \in 1..Len(s) /\ Q \in 1..Len(s) /\ P < Q /\ s[P] = t[p] /\ s[Q] = t[q]
      BY <1>1, <1>2
    <2>3. \A r \in 1..Len(s) : P < r /\ r < Q => ~ Mouse(s[r])
      BY <2>1
    <2> HIDE DEF P, Q
    <2> QED BY <1>2, <2>2, <2>3 DEF Chain
  <1>3. ASSUME NEW p \in 1..Len(t), Mouse(t[p]),
               \A q \in 1..Len(t) : p < q => ~ Mouse(t[q])
        PROVE  c = After(t[p])
    <2>1. ASSUME NEW q \in 1..Len(s), p + 1 < q PROVE ~ Mouse(s[q])
      <3>1. q # 1 /\ q - 1 \in 1..Len(t) /\ s[q] = t[q - 1] /\ p < q - 1
        BY <1>1, <2>1
      <3> QED BY <1>3, <3>1
    <2> DEFINE P == p + 1
    <2>2. P \in 1..Len(s) /\ s[P] = t[p]
      BY <1>1
    <2>3. \A q \in 1..Len(s) : P < q => ~ Mouse(s[q])
      BY <2>1
    <2> HIDE DEF P
    <2> QED BY <1>3, <2>2, <2>3 DEF Chain
  <1>4. ASSUME ~ Mouse(Head(s)) PROVE Chain(a, t, c)
    <2>1. ASSUME NEW p \in 1..Len(t), Mouse(t[p]), \A q \in 1..Len(t) : q < p => ~ Mouse(t[q])
          PROVE  t[p] = a
      <3>1. ASSUME NEW q \in 1..Len(s), q < p + 1 PROVE ~ Mouse(s[q])
        <4>1. CASE q = 1
          BY <1>1, <1>4, <4>1
        <4>2. CASE q # 1
          <5>1. q - 1 \in 1..Len(t) /\ s[q] = t[q - 1] /\ q - 1 < p
            BY <1>1, <3>1, <4>2
          <5> QED BY <2>1, <5>1
        <4> QED BY <4>1, <4>2
      <3> DEFINE P == p + 1
      <3>2. P \in 1..Len(s) /\ s[P] = t[p]
        BY <1>1
      <3>3. \A q \in 1..Len(s) : q < P => ~ Mouse(s[q])
        BY <3>1
      <3> HIDE DEF P
      <3> QED BY <2>1, <3>2, <3>3 DEF Chain
    <2>2. ASSUME \A p \in 1..Len(t) : ~ Mouse(t[p]) PROVE a = c
      <3>1. \A p \in 1..Len(s) : ~ Mouse(s[p])
        BY <1>1, <1>4, <2>2
      <3> QED BY <3>1 DEF Chain
    <2> QED BY <1>2, <1>3, <2>1, <2>2 DEF Chain
  <1>5. ASSUME Mouse(Head(s)) PROVE Head(s) = a /\ Chain(After(a), t, c)
    <2>1. Mouse(s[1]) /\ s[1] = a
      <3>1. \A q \in 1..Len(s) : q < 1 => ~ Mouse(s[q])
        BY <1>1
      <3> QED BY <1>1, <1>5, <3>1 DEF Chain
    <2>2. ASSUME NEW p \in 1..Len(t), Mouse(t[p]), \A q \in 1..Len(t) : q < p => ~ Mouse(t[q])
          PROVE  t[p] = After(a)
      <3>1. ASSUME NEW q \in 1..Len(s), 1 < q, q < p + 1 PROVE ~ Mouse(s[q])
        <4>1. q - 1 \in 1..Len(t) /\ s[q] = t[q - 1] /\ q - 1 < p
          BY <1>1, <3>1
        <4> QED BY <2>2, <4>1
      <3> DEFINE P == p + 1
      <3>2. P \in 1..Len(s) /\ s[P] = t[p] /\ 1 < P
        BY <1>1
      <3>3. \A q \in 1..Len(s) : 1 < q /\ q < P => ~ Mouse(s[q])
        BY <3>1
      <3> HIDE DEF P
      <3> QED BY <1>1, <2>1, <2>2, <3>2, <3>3 DEF Chain
    <2>3. ASSUME \A p \in 1..Len(t) : ~ Mouse(t[p]) PROVE After(a) = c
      <3>1. ASSUME NEW q \in 1..Len(s), 1 < q PROVE ~ Mouse(s[q])
        <4>1. q - 1 \in 1..Len(t) /\ s[q] = t[q - 1]
          BY <1>1, <3>1
        <4> QED BY <2>3, <4>1
      <3>2. \A q \in 1..Len(s) : 1 < q => ~ Mouse(s[q])
        BY <3>1
      <3> QED BY <1>1, <2>1, <3>2 DEF Chain
    <2> QED BY <1>1, <1>2, <1>3, <2>1, <2>2, <2>3 DEF Chain
  <1> QED BY <1>4, <1>5
-----------------------------------------------------------------------------
\* What the mouse sends next, and what its driver takes the next byte for.
Coming == IF sent.n = 0 THEN Ack("mouse") ELSE Byte("mouse", sent.is, sent.n)

Awaited(is) == IF status = 0 THEN Ack("mouse") ELSE Byte("mouse", is, status)

Parities == {"even", "odd"}

OnePacket(data) == \E is \in Parities : \A n \in 1..3 : data[n] = Byte("mouse", is, n)

\* The driver, the bytes on their way and the mouse agree on where in which
\* packet they are.
PacketInv ==
    /\ status \in 0..3 /\ DOMAIN packet = 1..3
    /\ \E is \in Parities :
         /\ \A n \in 1..3 : n < status => packet[n] = Byte("mouse", is, n)
         /\ Chain(Awaited(is), port, Coming)
    /\ decoded # <<>> => OnePacket(decoded)

LEMMA AfterIs ==
    ASSUME NEW is \in Parities
    PROVE  /\ After(Ack("mouse")) = Byte("mouse", "even", 1)
           /\ \A n \in 1..2 : After(Byte("mouse", is, n)) = Byte("mouse", is, n + 1)
           /\ After(Byte("mouse", is, 3)) =
                Byte("mouse", IF is = "even" THEN "odd" ELSE "even", 1)
  BY DEF After, Ack, Byte, Parities

LEMMA PacketInit == Init => PacketInv
  <1> SUFFICES ASSUME Init PROVE PacketInv
    OBVIOUS
  <1>1. status = 0 /\ DOMAIN packet = 1..3 /\ decoded = <<>> /\ sent.n = 0 /\ port = <<>>
    BY DEF Init
  <1>2. Awaited("even") = Coming
    BY <1>1 DEF Awaited, Coming
  <1>3. Chain(Awaited("even"), port, Coming)
    BY <1>1, <1>2 DEF Chain
  <1> QED BY <1>1, <1>3 DEF PacketInv, Parities

\* The mouse or the keyboard sends a byte: the chain is longer by one of the
\* mouse's, or as it was.
LEMMA SendingKeepsPackets ==
    ASSUME ReadyInv, PacketInv, Acknowledge \/ Key \/ Move, port' # port
    PROVE  PacketInv'
  <1>1. UNCHANGED <<status, packet, decoded>>
    BY DEF Acknowledge, Key, Move, mouse
  <1>2. PICK b \in PortByte :
          /\ port' = Append(port, b)
          /\ ~ Mouse(b) => sent' = sent
          /\ Mouse(b) => b = Coming /\ Coming' = After(b)
    <2>1. CASE Acknowledge
      <3>1. PICK device \in owed :
              /\ port' = Append(port, Ack(device))
              /\ sent' = IF device = "mouse" THEN [sent EXCEPT !.n = 1] ELSE sent
        BY <2>1 DEF Acknowledge, Arrives
      <3>2. /\ device \in {"keyboard", "mouse"} /\ sent \in [is : {"even", "odd"}, n : 0..3]
            /\ device = "mouse" => sent.n = 0 /\ sent.is = "even"
        BY DEF ReadyInv, DeviceInv
      <3>3. Ack(device) \in PortByte /\ (Mouse(Ack(device)) <=> device = "mouse")
        BY <3>2 DEF Ack, Byte, PortByte, Mouse
      <3>4. ASSUME device = "mouse"
            PROVE  Ack(device) = Coming /\ Coming' = After(Ack(device))
        <4>1. sent'.n = 1 /\ sent'.is = "even" /\ sent.n = 0
          BY <3>1, <3>2, <3>4
        <4>2. Coming' = Byte("mouse", "even", 1) /\ Coming = Ack("mouse")
          BY <4>1 DEF Coming
        <4> QED BY <3>4, <4>2, AfterIs DEF Parities
      <3> QED BY <3>1, <3>3, <3>4
    <2>2. CASE Key
      <3>1. PICK k \in Keys, n \in 0..1 : Arrives(Byte("keyboard", k, n))
        BY <2>2 DEF Key
      <3> DEFINE b == Byte("keyboard", k, n)
      <3>2. b \in PortByte /\ ~ Mouse(b)
        BY DEF Byte, PortByte, Mouse
      <3>3. port' = Append(port, b) /\ sent' = sent
        BY <2>2, <3>1 DEF Key, Arrives, mouse
      <3> HIDE DEF b
      <3> QED BY <3>2, <3>3
    <2>3. CASE Move
      <3>1. sent \in [is : Parities, n : 1..3]
        BY <2>3 DEF ReadyInv, DeviceInv, Move, Parities
      <3> DEFINE b == Byte("mouse", sent.is, sent.n)
      <3>2. b \in PortByte /\ Mouse(b) /\ b = Coming
        BY <3>1 DEF Byte, PortByte, Mouse, Coming, Parities
      <3>3. port' = Append(port, b)
        BY <2>3 DEF Move, Arrives
      <3>4. Coming' = After(b)
        <4>1. /\ sent'.is = IF sent.n < 3 THEN sent.is
                            ELSE IF sent.is = "even" THEN "odd" ELSE "even"
              /\ sent'.n = (sent.n % 3) + 1
          BY <2>3 DEF Move
        <4>2. CASE sent.n \in 1..2
          <5>1. sent'.is = sent.is /\ sent'.n = sent.n + 1 /\ sent'.n # 0
            BY <4>1, <4>2
          <5> QED BY <3>1, <4>2, <5>1, AfterIs DEF Coming
        <4>3. CASE sent.n = 3
          <5>1. sent'.is = (IF sent.is = "even" THEN "odd" ELSE "even") /\ sent'.n = 1
            BY <4>1, <4>3
          <5> QED BY <3>1, <4>3, <5>1, AfterIs DEF Coming
        <4> QED BY <3>1, <4>2, <4>3
      <3> HIDE DEF b
      <3> QED BY <3>2, <3>3, <3>4
    <2> QED BY <2>1, <2>2, <2>3
  <1>3. PICK is \in Parities :
          /\ \A n \in 1..3 : n < status => packet[n] = Byte("mouse", is, n)
          /\ Chain(Awaited(is), port, Coming)
    BY DEF PacketInv
  <1>4. port \in Seq(PortByte)
    BY DEF ReadyInv, PortInv
  <1>5. Awaited(is)' = Awaited(is)
    BY <1>1 DEF Awaited
  <1>6. Chain(Awaited(is), port', Coming')
    <2>1. CASE Mouse(b)
      BY <1>2, <1>3, <1>4, <2>1, ChainGrows
    <2>2. CASE ~ Mouse(b)
      <3>1. Coming' = Coming
        BY <1>2, <2>2 DEF Coming
      <3> QED BY <1>2, <1>3, <1>4, <2>2, <3>1, ChainGrows
    <2> QED BY <2>1, <2>2
  <1> QED BY <1>1, <1>3, <1>5, <1>6 DEF PacketInv

\* A byte that is not the mouse's is taken, or nothing is.
LEMMA OthersKeepPackets ==
    ASSUME ReadyInv, PacketInv, UNCHANGED <<sent, status, packet, decoded>>,
           port' = port \/ (port # <<>> /\ port' = Tail(port) /\ ~ Mouse(Head(port)))
    PROVE  PacketInv'
  <1>1. PICK is \in Parities :
          /\ \A n \in 1..3 : n < status => packet[n] = Byte("mouse", is, n)
          /\ Chain(Awaited(is), port, Coming)
    BY DEF PacketInv
  <1>2. port \in Seq(PortByte)
    BY DEF ReadyInv, PortInv
  <1>3. Awaited(is)' = Awaited(is) /\ Coming' = Coming
    BY DEF Awaited, Coming
  <1>4. Chain(Awaited(is), port', Coming)
    BY <1>1, <1>2, ChainShrinks
  <1> QED BY <1>1, <1>3, <1>4 DEF PacketInv

LEMMA ClearingKeepsPackets == ReadyInv /\ PacketInv /\ ClearMouse => PacketInv'
  <1> SUFFICES ASSUME ReadyInv, ClearMouse PROVE PacketInv'
    OBVIOUS
  <1>1. /\ step = 10 /\ UNCHANGED <<sent, port>>
        /\ status' = 0 /\ packet' = <<Zero, Zero, Zero>> /\ decoded' = <<>>
    <2>1. step \in 1..20
      BY DEF ReadyInv, MainInv
    <2> QED BY <2>1, Places DEF ClearMouse, ps2
  <1>2. sent.n = 0 /\ \A p \in 1..Len(port) : ~ Mouse(port[p])
    BY <1>1 DEF ReadyInv, DeviceInv, PortInv, Mouse
  <1>3. Awaited("even")' = Ack("mouse") /\ Coming' = Ack("mouse")
    BY <1>1, <1>2 DEF Awaited, Coming
  <1>4. Chain(Ack("mouse"), port, Ack("mouse"))
    BY <1>2 DEF Chain
  <1>5. DOMAIN packet' = 1..3
    BY <1>1
  <1>6. Chain(Awaited("even"), port, Coming)'
    BY <1>1, <1>3, <1>4
  <1> QED BY <1>1, <1>5, <1>6 DEF PacketInv, Parities

\* The byte that the mouse's driver takes is the one it takes it for.
LEMMA DecodingKeepsPackets ==
    ASSUME ReadyInv, PacketInv, mouse_isr_handler
    PROVE  PacketInv'
  <1>1. /\ port # <<>> /\ port' = Tail(port) /\ sent' = sent /\ inb = Head(port)
        /\ Mouse(Head(port)) /\ ps2_mouse_decode(Head(port))
    <2>1. pc = "mouse_isr" /\ Taken /\ ps2_mouse_decode(inb) /\ sent' = sent
      BY DEF mouse_isr_handler
    <2> QED BY <2>1, BytesAreRight DEF BytesReachTheirDriver, Taken, inb, Mouse
  <1>2. PICK is \in Parities :
          /\ \A n \in 1..3 : n < status => packet[n] = Byte("mouse", is, n)
          /\ Chain(Awaited(is), port, Coming)
    BY DEF PacketInv
  <1>3. port \in Seq(PortByte) /\ status \in 0..3 /\ DOMAIN packet = 1..3
    BY DEF ReadyInv, PortInv, PacketInv
  <1>4. Head(port) = Awaited(is) /\ Chain(After(Awaited(is)), port', Coming)
    BY <1>1, <1>2, <1>3, ChainShrinks
  <1>5. Coming' = Coming
    BY <1>1 DEF Coming
  <1>6. CASE status = 0
    <2>1. Awaited(is) = Ack("mouse") /\ Head(port).is = "ack"
      BY <1>4, <1>6 DEF Awaited, Ack, Byte
    <2>2. status' = 1 /\ UNCHANGED <<packet, decoded>>
      BY <1>1, <1>6, <2>1 DEF ps2_mouse_decode
    <2>3. Awaited("even")' = After(Awaited(is))
      BY <2>1, <2>2, AfterIs DEF Awaited, Parities
    <2>4. Chain(Awaited("even"), port, Coming)'
      BY <1>4, <1>5, <2>3
    <2> QED BY <1>3, <2>2, <2>4 DEF PacketInv, Parities
  <1>7. CASE status # 0
    <2> DEFINE b == Byte("mouse", is, status)
    <2>1. Awaited(is) = b /\ Head(port) = b
      BY <1>4, <1>7 DEF Awaited
    <2>2. /\ packet' = [packet EXCEPT ![status] = b] /\ status' = (status % 3) + 1
          /\ decoded' = IF status = 3 THEN packet' ELSE decoded
      BY <1>1, <1>7, <2>1 DEF ps2_mouse_decode
    <2> HIDE DEF b
    <2>3. /\ DOMAIN packet' = 1..3 /\ packet'[status] = b
          /\ \A n \in 1..3 : n # status => packet'[n] = packet[n]
      BY <1>3, <1>7, <2>2
    <2>4. \A n \in 1..3 : n <= status => packet'[n] = Byte("mouse", is, n)
      BY <1>2, <1>3, <2>3 DEF b
    <2>5. CASE status \in 1..2
      <3>1. status' = status + 1 /\ decoded' = decoded
        BY <2>2, <2>5
      <3>2. Awaited(is)' = After(Awaited(is))
        BY <2>1, <2>5, <3>1, AfterIs DEF Awaited, b
      <3>3. Chain(Awaited(is), port, Coming)'
        BY <1>4, <1>5, <3>2
      <3>4. \A n \in 1..3 : n < status' => packet'[n] = Byte("mouse", is, n)
        BY <2>4, <2>5, <3>1
      <3> QED BY <2>3, <2>5, <3>1, <3>3, <3>4 DEF PacketInv
    <2>6. CASE status = 3
      <3>1. status' = 1 /\ decoded' = packet'
        BY <2>2, <2>6
      <3> DEFINE other == IF is = "even" THEN "odd" ELSE "even"
      <3>2. Awaited(other)' = After(Awaited(is)) /\ other \in Parities
        BY <2>1, <2>6, <3>1, AfterIs DEF Awaited, b, Parities
      <3>3. Chain(Awaited(other), port, Coming)'
        BY <1>4, <1>5, <3>2
      <3>4. OnePacket(decoded')
        BY <2>4, <2>6, <3>1 DEF OnePacket
      <3> QED BY <2>3, <3>1, <3>2, <3>3, <3>4 DEF PacketInv
    <2> QED BY <1>3, <1>7, <2>5, <2>6
  <1> QED BY <1>6, <1>7

LEMMA PacketHolds == Spec => []PacketInv
  <1>1. ReadyInv /\ PacketInv /\ [Next]_vars => PacketInv'
    <2> SUFFICES ASSUME ReadyInv, PacketInv, [Next]_vars PROVE PacketInv'
      OBVIOUS
    <2>1. CASE Acknowledge \/ Key \/ Move
      <3>1. CASE port' = port
        <4>1. Acknowledge \/ Move => \E b : port' = Append(port, b)
          BY DEF Acknowledge, Move, Arrives
        <4>2. port \in Seq(PortByte)
          BY DEF ReadyInv, PortInv
        <4>3. \A b : Append(port, b) # port
          BY <4>2
        <4>4. Key
          BY <2>1, <3>1, <4>1, <4>3
        <4>5. UNCHANGED <<sent, status, packet, decoded>>
          BY <4>4 DEF Key, mouse
        <4> QED BY <3>1, <4>5 DEF PacketInv, Coming, Awaited
      <3> QED BY <2>1, <3>1, SendingKeepsPackets
    <2>2. CASE ClearMouse
      BY <2>2, ClearingKeepsPackets
    <2>3. CASE mouse_isr_handler
      BY <2>3, DecodingKeepsPackets
    <2>4. CASE ReadLeds \/ keyboard_isr_handler
      <3>1. Taken /\ UNCHANGED <<sent, status, packet, decoded>>
        BY <2>4 DEF ReadLeds, keyboard_isr_handler, mouse
      <3>2. port # <<>> => ~ Mouse(Head(port))
        <4>1. CASE ReadLeds
          <5>1. step = 6
            BY <4>1, Places DEF ReadLeds, ReadyInv, MainInv
          <5>2. port # <<>> => Head(port) = port[1] /\ 1 \in 1..Len(port)
            BY DEF ReadyInv, PortInv
          <5> QED BY <5>1, <5>2 DEF ReadyInv, PortInv, Mouse
        <4>2. CASE keyboard_isr_handler
          BY <4>2, BytesAreRight DEF keyboard_isr_handler, BytesReachTheirDriver, inb, Mouse
        <4> QED BY <2>4, <4>1, <4>2
      <3>3. port' = port \/ (port # <<>> /\ port' = Tail(port) /\ ~ Mouse(Head(port)))
        BY <3>1, <3>2 DEF Taken
      <3> QED BY <3>1, <3>3, OthersKeepPackets
    <2>5. CASE \/ OCW1 \/ STI \/ set_isr_handler \/ MaskIn \/ MaskOut \/ SetLeds
               \/ KeyboardFlags \/ MouseIntr \/ MouseReporting \/ Printing
               \/ Interrupt \/ send_eoi \/ SendEoiSecondary \/ IRET \/ UNCHANGED vars
      <3>1. UNCHANGED <<sent, status, packet, decoded, port>>
        BY <2>5 DEF OCW1, STI, set_isr_handler, MaskIn, MaskOut, SetLeds, KeyboardFlags,
             MouseIntr, MouseReporting, Printing, Interrupt, send_eoi, SendEoiSecondary,
             IRET, vars, mouse, ps2
      <3> QED BY <3>1, OthersKeepPackets
    <2> QED BY <2>1, <2>2, <2>3, <2>4, <2>5 DEF Next, kernel_main, Handler
  <1> QED BY <1>1, PacketInit, ReadyHolds, PTL DEF Spec

\* What buttons and position are taken from is one packet of the mouse, from
\* its first byte to its last, however bytes are held back (mouse.c:13-55).
THEOREM PacketsAlwaysWhole == Spec => []PacketsWhole
  <1>1. PacketInv => PacketsWhole
    BY DEF PacketInv, PacketsWhole, OnePacket, Parities
  <1> QED BY <1>1, PacketHolds, PTL
-----------------------------------------------------------------------------
Shift(b) == b.from = "keyboard" /\ b.is \in ShiftKeys

Pressed(b) == Shift(b) /\ b.n = 1

FlagNames == {"shift", "ctrl", "caps", "num"}

NoShiftIn(s) == \A p \in 1..Len(s) : ~ Shift(s[p])

\* The keyboard says that a shift key is pressed, or its release was lost.
Holds(keys)      == lost \/ reported \cap keys # {}
StillHolds(keys) == lost' \/ reported' \cap keys # {}

\* The last that was heard of a shift key is what the keyboard says: the last of
\* the bytes on their way, or, when none is, the flag and the byte that a
\* spurious request of the keyboard's set-up would have read again.
ShiftInv ==
    /\ lost \in BOOLEAN
    /\ DOMAIN flags = FlagNames /\ flags.shift \in BOOLEAN
    /\ step <= 9 => ~ flags.shift
    /\ \A p \in 1..Len(port) :
         Pressed(port[p]) =>
            Holds({port[p].is}) \/ \E q \in 1..Len(port) : p < q /\ Shift(port[q])
    /\ NoShiftIn(port) => /\ flags.shift => Holds(ShiftKeys)
                          /\ Pressed(last) => Holds({last.is})

\* What scancode_to_ascii does to shift_pressed.
LEMMA FlagsShift ==
    ASSUME NEW f, DOMAIN f = FlagNames, f.shift \in BOOLEAN, NEW key, NEW make \in BOOLEAN
    PROVE  /\ DOMAIN Flags(f, key, make) = FlagNames
           /\ Flags(f, key, make).shift = IF key \in ShiftKeys THEN make ELSE f.shift
  <1>1. CASE key \in ShiftKeys
    <2>1. Flags(f, key, make) = [f EXCEPT !.shift = make]
      BY <1>1, Zenon DEF Flags, ShiftKeys
    <2> QED BY <1>1, <2>1 DEF FlagNames
  <1>2. CASE key \notin ShiftKeys
    <2>1. CASE key = "ctrl"
      <3>1. Flags(f, key, make) = [f EXCEPT !.ctrl = make]
        BY <1>2, <2>1, Zenon DEF Flags, ShiftKeys
      <3> QED BY <1>2, <3>1 DEF FlagNames
    <2>2. CASE key # "ctrl" /\ key = "caps" /\ make
      <3>1. Flags(f, key, make) = [f EXCEPT !.caps = ~ @]
        BY <1>2, <2>2, Zenon DEF Flags, ShiftKeys
      <3> QED BY <1>2, <3>1 DEF FlagNames
    <2>3. CASE key # "ctrl" /\ key # "caps" /\ key = "num" /\ make
      <3>1. Flags(f, key, make) = [f EXCEPT !.num = ~ @]
        BY <1>2, <2>3, Zenon DEF Flags, ShiftKeys
      <3> QED BY <1>2, <3>1 DEF FlagNames
    <2>4. CASE key # "ctrl" /\ ~ (key = "caps" /\ make) /\ ~ (key = "num" /\ make)
      <3>1. Flags(f, key, make) = f
        BY <1>2, <2>4, Zenon DEF Flags, ShiftKeys
      <3> QED BY <1>2, <3>1
    <2>5. "caps" # "num"
      OBVIOUS
    <2> QED BY <2>1, <2>2, <2>3, <2>4, <2>5
  <1> QED BY <1>1, <1>2

LEMMA ShiftInit == Init => ShiftInv
  <1> SUFFICES ASSUME Init PROVE ShiftInv
    OBVIOUS
  <1>1. /\ flags = [shift |-> FALSE, ctrl |-> FALSE, caps |-> FALSE, num |-> FALSE]
        /\ port = <<>> /\ last = Byte("keyboard", "other", 0)
    BY DEF Init
  <1>2. lost = FALSE /\ flags.shift = FALSE /\ DOMAIN flags = FlagNames
    BY <1>1 DEF Init, FlagNames
  <1>3. ~ Pressed(last) /\ \A p \in 1..Len(port) : FALSE
    BY <1>1 DEF Pressed, Byte
  <1> QED BY <1>2, <1>3 DEF ShiftInv

\* What a byte that arrives leaves true: a press that is heard last holds, and
\* what held before still does unless a shift key was heard of.
Heard(b) ==
    /\ Pressed(b) => StillHolds({b.is})
    /\ ~ Shift(b) => \A keys \in SUBSET ShiftKeys : Holds(keys) => StillHolds(keys)

LEMMA KeyIsHeard ==
    ASSUME NEW k \in Keys, NEW n \in 0..1, lost \in BOOLEAN,
           reported' = (IF n = 1 THEN reported \cup {k} ELSE reported \ {k}),
           lost' = (lost /\ ~ (k \in ShiftKeys /\ n = 0))
    PROVE  Heard(Byte("keyboard", k, n))
  <1>1. ASSUME n = 1 PROVE StillHolds({k})
    BY <1>1 DEF Holds, StillHolds
  <1>2. ASSUME k \notin ShiftKeys, NEW keys \in SUBSET ShiftKeys, Holds(keys)
        PROVE  StillHolds(keys)
    BY <1>2 DEF Holds, StillHolds
  <1> DEFINE b == Byte("keyboard", k, n)
  <1>3. b.is = k /\ b.n = n /\ b.from = "keyboard"
    BY DEF Byte
  <1> HIDE DEF b
  <1>4. Heard(b)
    BY <1>1, <1>2, <1>3 DEF Heard, Pressed, Shift
  <1> QED BY <1>4 DEF b

\* A byte that is lost was a release, and counted, or takes nothing away.
LEMMA LostKeyHolds ==
    ASSUME NEW k \in Keys, NEW n \in 0..1, lost \in BOOLEAN,
           reported' = (IF n = 1 THEN reported \cup {k} ELSE reported \ {k}),
           lost' = (lost \/ (k \in ShiftKeys /\ n = 0)),
           NEW keys \in SUBSET ShiftKeys, Holds(keys)
    PROVE  StillHolds(keys)
  <1>1. CASE k \in ShiftKeys /\ n = 0
    BY <1>1 DEF Holds, StillHolds
  <1>2. CASE ~ (k \in ShiftKeys /\ n = 0)
    <2>1. reported \cap keys \subseteq reported'
      BY <1>2
    <2> QED BY <2>1, <1>2 DEF Holds, StillHolds
  <1> QED BY <1>1, <1>2

LEMMA SendingKeepsShift ==
    ASSUME ReadyInv, ShiftInv, Acknowledge \/ Key \/ Move
    PROVE  ShiftInv'
  <1>1. UNCHANGED <<flags, step, last>> /\ port \in Seq(PortByte) /\ lost \in BOOLEAN
    BY DEF Acknowledge, Key, Move, keyboard, cpu, ReadyInv, PortInv, ShiftInv
  <1>2. /\ lost' \in BOOLEAN
        /\ \/ \E b : port' = Append(port, b) /\ Heard(b)
           \/ /\ port' = port
              /\ \A keys \in SUBSET ShiftKeys : Holds(keys) => StillHolds(keys)
    <2>1. CASE Acknowledge
      <3>1. PICK device \in owed :
              port' = Append(port, Ack(device)) /\ reported' = reported /\ lost' = lost
        BY <2>1 DEF Acknowledge, Arrives, keyboard
      <3>2. ~ Shift(Ack(device))
        BY DEF Ack, Byte, Shift, ShiftKeys
      <3> QED BY <1>1, <3>1, <3>2 DEF Heard, Holds, StillHolds, Pressed
    <2>2. CASE Key
      <3>1. PICK k \in Keys, n \in 0..1 :
              /\ reported' = IF n = 1 THEN reported \cup {k} ELSE reported \ {k}
              /\ \/ /\ port' = Append(port, Byte("keyboard", k, n))
                    /\ lost' = (lost /\ ~ (k \in ShiftKeys /\ n = 0))
                 \/ /\ port' = port
                    /\ lost' = (lost \/ (k \in ShiftKeys /\ n = 0))
        BY <2>2 DEF Key, Arrives
      <3>2. CASE lost' = (lost /\ ~ (k \in ShiftKeys /\ n = 0))
                 /\ port' = Append(port, Byte("keyboard", k, n))
        <4>1. Heard(Byte("keyboard", k, n))
          BY <1>1, <3>1, <3>2, KeyIsHeard
        <4>2. lost' \in BOOLEAN
          BY <1>1, <3>2
        <4> QED BY <3>2, <4>1, <4>2
      <3>3. CASE lost' = (lost \/ (k \in ShiftKeys /\ n = 0)) /\ port' = port
        <4>1. \A keys \in SUBSET ShiftKeys : Holds(keys) => StillHolds(keys)
          BY <1>1, <3>1, <3>3, LostKeyHolds
        <4>2. lost' \in BOOLEAN
          BY <1>1, <3>3
        <4> QED BY <3>3, <4>1, <4>2
      <3> QED BY <3>1, <3>2, <3>3
    <2>3. CASE Move
      <3>1. /\ port' = Append(port, Byte("mouse", sent.is, sent.n))
            /\ reported' = reported /\ lost' = lost
        BY <2>3 DEF Move, Arrives, keyboard
      <3>2. ~ Shift(Byte("mouse", sent.is, sent.n))
        BY DEF Byte, Shift
      <3> QED BY <1>1, <3>1, <3>2 DEF Heard, Holds, StillHolds, Pressed
    <2> QED BY <2>1, <2>2, <2>3
  <1>3. CASE /\ port' = port
             /\ \A keys \in SUBSET ShiftKeys : Holds(keys) => StillHolds(keys)
    <2>1. \A b : Pressed(b) => {b.is} \in SUBSET ShiftKeys
      BY DEF Pressed, Shift
    <2>2. \A b : Pressed(b) /\ Holds({b.is}) => StillHolds({b.is})
      BY <1>3, <2>1
    <2>3. Holds(ShiftKeys) => StillHolds(ShiftKeys)
      BY <1>3
    <2>4. ASSUME NEW p \in 1..Len(port), Pressed(port[p])
          PROVE  StillHolds({port[p].is}) \/ \E q \in 1..Len(port) : p < q /\ Shift(port[q])
      BY <1>1, <1>3, <2>2, <2>4 DEF ShiftInv
    <2>5. ASSUME NoShiftIn(port)
          PROVE  /\ flags.shift => StillHolds(ShiftKeys)
                 /\ Pressed(last) => StillHolds({last.is})
      BY <1>1, <2>2, <2>3, <2>5 DEF ShiftInv
    <2> QED BY <1>1, <1>2, <1>3, <2>4, <2>5 DEF ShiftInv, Holds, StillHolds
  <1>4. ASSUME NEW b, port' = Append(port, b), Heard(b) PROVE ShiftInv'
    <2> DEFINE k == Len(port) + 1
    <2>1. /\ \A p \in 1..Len(port) : port'[p] = port[p] /\ p \in 1..Len(port') /\ p < k
          /\ port'[k] = b /\ k \in 1..Len(port')
          /\ \A p \in 1..Len(port') : p # k => p \in 1..Len(port)
      BY <1>1, <1>4
    <2> HIDE DEF k
    <2>2. \A c : Pressed(c) /\ ~ Shift(b) /\ Holds({c.is}) => StillHolds({c.is})
      <3>1. \A c : Pressed(c) => {c.is} \in SUBSET ShiftKeys
        BY DEF Pressed, Shift
      <3> QED BY <1>4, <3>1 DEF Heard
    <2>3. ASSUME NEW p \in 1..Len(port'), Pressed(port'[p])
          PROVE  StillHolds({port'[p].is}) \/ \E q \in 1..Len(port') : p < q /\ Shift(port'[q])
      <3>1. CASE p = k
        BY <1>4, <2>1, <2>3, <3>1 DEF Heard
      <3>2. CASE p # k /\ Shift(b)
        BY <2>1, <3>2
      <3>3. CASE p # k /\ ~ Shift(b)
        <4>1. p \in 1..Len(port) /\ port'[p] = port[p] /\ Pressed(port[p])
          BY <2>1, <2>3, <3>3
        <4>2. CASE Holds({port[p].is})
          BY <2>2, <3>3, <4>1, <4>2
        <4>3. CASE \E q \in 1..Len(port) : p < q /\ Shift(port[q])
          BY <2>1, <4>3
        <4> QED BY <4>1, <4>2, <4>3 DEF ShiftInv
      <3> QED BY <3>1, <3>2, <3>3
    <2>4. ASSUME NoShiftIn(port')
          PROVE  /\ flags.shift => StillHolds(ShiftKeys)
                 /\ Pressed(last) => StillHolds({last.is})
      <3>1. NoShiftIn(port) /\ ~ Shift(b)
        BY <2>1, <2>4 DEF NoShiftIn
      <3>2. Holds(ShiftKeys) => StillHolds(ShiftKeys)
        BY <1>4, <3>1 DEF Heard
      <3> QED BY <2>2, <3>1, <3>2 DEF ShiftInv
    <2> QED BY <1>1, <1>2, <2>3, <2>4 DEF ShiftInv, Holds, StillHolds
  <1> QED BY <1>2, <1>3, <1>4

\* A byte is read; the flag is as it was or what the byte says.
LEMMA ReadingKeepsShift ==
    ASSUME ReadyInv, ShiftInv, Taken, reported' = reported, lost' = lost,
           DOMAIN flags' = FlagNames,
           flags'.shift = (IF Shift(inb) /\ step >= 10 THEN inb.n = 1 ELSE flags.shift),
           step \in 1..20, step' \in 1..20, step' <= 9 => step <= 9
    PROVE  ShiftInv'
  <1>1. port \in Seq(PortByte)
    BY DEF ReadyInv, PortInv
  <1>5. lost' \in BOOLEAN /\ \A keys : StillHolds(keys) <=> Holds(keys)
    BY DEF Holds, StillHolds, ShiftInv
  <1>6. \A k \in ShiftKeys : Holds({k}) => Holds(ShiftKeys)
    BY DEF Holds
  <1>2. flags'.shift \in BOOLEAN /\ (step' <= 9 => ~ flags'.shift)
    <2>1. flags.shift \in BOOLEAN /\ (step <= 9 => ~ flags.shift)
      BY DEF ShiftInv
    <2>2. CASE Shift(inb) /\ step >= 10
      <3>1. ~ (step' <= 9)
        BY <2>2
      <3>2. flags'.shift = (inb.n = 1)
        BY <2>2
      <3> QED BY <3>1, <3>2, Zenon
    <2>3. CASE ~ (Shift(inb) /\ step >= 10)
      <3>1. flags'.shift = flags.shift
        BY <2>3
      <3> QED BY <2>1, <3>1
    <2> QED BY <2>2, <2>3
  <1>3. CASE port = <<>>
    <2>1. port' = port /\ last' = last /\ inb = last
      BY <1>3 DEF Taken, inb
    <2>2. NoShiftIn(port)
      BY <1>3 DEF NoShiftIn
    <2>3. /\ flags.shift => Holds(ShiftKeys)
          /\ Pressed(last) => Holds({last.is})
      BY <2>2 DEF ShiftInv
    <2>4. flags'.shift => Holds(ShiftKeys)
      BY <1>6, <2>1, <2>3 DEF Pressed, Shift
    <2>5. port' = <<>> /\ \A p \in 1..Len(port') : FALSE
      BY <1>3, <2>1
    <2> QED BY <1>5, <1>2, <2>1, <2>3, <2>4, <2>5 DEF ShiftInv, Holds
  <1>4. CASE port # <<>>
    <2>1. port' = Tail(port) /\ last' = Head(port) /\ inb = Head(port)
      BY <1>4 DEF Taken, inb
    <2>2. /\ Head(port) = port[1] /\ 1 \in 1..Len(port)
          /\ \A p \in 1..Len(port') : /\ p + 1 \in 1..Len(port) /\ port'[p] = port[p + 1]
                                      /\ p \in Int
          /\ \A p \in 1..Len(port) : /\ p \in Int
                                     /\ 1 < p => /\ p - 1 \in 1..Len(port')
                                                 /\ port'[p - 1] = port[p]
      BY <1>1, <1>4, <2>1
    <2>3. ASSUME NEW p \in 1..Len(port'), Pressed(port'[p])
          PROVE  StillHolds({port'[p].is}) \/ \E q \in 1..Len(port') : p < q /\ Shift(port'[q])
      <3>1. p + 1 \in 1..Len(port) /\ port'[p] = port[p + 1]
        BY <2>2
      <3>2. CASE Holds({port[p + 1].is})
        BY <1>5, <3>1, <3>2
      <3>3. ASSUME NEW q \in 1..Len(port), p + 1 < q, Shift(port[q])
            PROVE  \E r \in 1..Len(port') : p < r /\ Shift(port'[r])
        <4>1. q - 1 \in 1..Len(port') /\ port'[q - 1] = port[q] /\ p < q - 1
          BY <2>2, <3>3
        <4> QED BY <3>3, <4>1
      <3>4. Holds({port[p + 1].is}) \/ \E q \in 1..Len(port) : p + 1 < q /\ Shift(port[q])
        BY <2>3, <3>1 DEF ShiftInv
      <3> QED BY <3>2, <3>3, <3>4
    <2>4. ASSUME NoShiftIn(port')
          PROVE  /\ flags'.shift => Holds(ShiftKeys)
                 /\ Pressed(last') => Holds({last'.is})
      <3>1. \A q \in 1..Len(port) : 1 < q => ~ Shift(port[q])
        BY <2>2, <2>4 DEF NoShiftIn
      <3>2. Pressed(Head(port)) => Holds({Head(port).is})
        BY <2>2, <3>1 DEF ShiftInv
      <3>3. CASE Shift(Head(port)) /\ step >= 10
        BY <1>6, <2>1, <3>2, <3>3 DEF Pressed, Shift
      <3>4. CASE Shift(Head(port)) /\ step <= 9
        BY <2>1, <3>2, <3>4 DEF ShiftInv
      <3>5. CASE ~ Shift(Head(port))
        <4>1. NoShiftIn(port)
          <5>1. \A q \in 1..Len(port) : q = 1 \/ 1 < q
            BY <2>2
          <5> QED BY <2>2, <3>1, <3>5, <5>1 DEF NoShiftIn
        <4> QED BY <2>1, <3>5, <4>1 DEF ShiftInv, Pressed
      <3> QED BY <3>3, <3>4, <3>5
    <2> QED BY <1>5, <1>2, <2>3, <2>4 DEF ShiftInv, Holds
  <1> QED BY <1>3, <1>4

LEMMA ShiftHolds == Spec => []ShiftInv
  <1>1. ReadyInv /\ ShiftInv /\ [Next]_vars => ShiftInv'
    <2> SUFFICES ASSUME ReadyInv, ShiftInv, [Next]_vars PROVE ShiftInv'
      OBVIOUS
    <2>0. step \in 1..20
      BY DEF ReadyInv, MainInv
    <2>1. CASE Acknowledge \/ Key \/ Move
      BY <2>1, SendingKeepsShift
    <2>2. CASE ReadLeds
      <3>1. Taken /\ reported' = reported /\ lost' = lost /\ flags' = flags /\ step = 6 /\ step' = 7
        BY <2>0, <2>2, Places DEF ReadLeds, keyboard
      <3>2. DOMAIN flags = FlagNames
        BY DEF ShiftInv
      <3> QED BY <3>1, <3>2, ReadingKeepsShift
    <2>3. CASE keyboard_isr_handler
      <3>1. Taken /\ reported' = reported /\ lost' = lost /\ step' = step /\ pc = "keyboard_isr"
            /\ inb.from = "keyboard" /\ flags' = Flags(flags, inb.is, inb.n = 1)
        BY <2>3, BytesAreRight DEF keyboard_isr_handler, BytesReachTheirDriver
      <3>2. step >= 10
        BY <3>1 DEF ReadyInv, ServiceInv, Serving
      <3>3. /\ DOMAIN flags' = FlagNames
            /\ flags'.shift = IF inb.is \in ShiftKeys THEN inb.n = 1 ELSE flags.shift
        <4> DEFINE make == inb.n = 1
        <4>1. make \in BOOLEAN /\ flags' = Flags(flags, inb.is, make)
          BY <3>1
        <4>2. DOMAIN flags = FlagNames /\ flags.shift \in BOOLEAN
          BY DEF ShiftInv
        <4> HIDE DEF make
        <4>3. /\ DOMAIN flags' = FlagNames
              /\ flags'.shift = IF inb.is \in ShiftKeys THEN make ELSE flags.shift
          BY <4>1, <4>2, FlagsShift
        <4> QED BY <4>3 DEF make
      <3> QED BY <2>0, <3>1, <3>2, <3>3, ReadingKeepsShift DEF Shift
    <2>4. CASE KeyboardFlags
      <3>1. PICK num, caps :
              flags' = [shift |-> FALSE, ctrl |-> FALSE, caps |-> caps, num |-> num]
        BY <2>4 DEF KeyboardFlags
      <3>2. DOMAIN flags' = FlagNames /\ flags'.shift = FALSE
        BY <3>1 DEF FlagNames
      <3>3. UNCHANGED <<reported, lost, port, last>>
        BY <2>4 DEF KeyboardFlags, ps2
      <3> QED BY <3>2, <3>3 DEF ShiftInv, Holds, StillHolds
    <2>5. CASE \/ OCW1 \/ STI \/ set_isr_handler \/ MaskIn \/ MaskOut \/ SetLeds
               \/ ClearMouse \/ MouseIntr \/ MouseReporting
      <3>1. UNCHANGED <<flags, reported, lost, port, last>>
        BY <2>5 DEF OCW1, STI, set_isr_handler, MaskIn, MaskOut, SetLeds, ClearMouse,
             MouseIntr, MouseReporting, keyboard, ps2
      <3>2. step' = step + 1
        BY <2>5 DEF OCW1, STI, set_isr_handler, MaskIn, MaskOut, SetLeds, ClearMouse,
             MouseIntr, MouseReporting, Doing
      <3>3. step' <= 9 => step <= 9
        BY <2>0, <3>2
      <3> QED BY <3>1, <3>3 DEF ShiftInv, Holds, StillHolds
    <2>6. CASE \/ mouse_isr_handler \/ Printing \/ Interrupt
               \/ send_eoi \/ SendEoiSecondary \/ IRET \/ UNCHANGED vars
      <3>1. UNCHANGED <<flags, reported, lost, step>>
        BY <2>6 DEF mouse_isr_handler, Printing, Interrupt, send_eoi, SendEoiSecondary,
             IRET, vars, keyboard, cpu
      <3>2. CASE mouse_isr_handler
        <4>1. Taken /\ ~ Shift(inb)
          BY <3>2, BytesAreRight DEF mouse_isr_handler, BytesReachTheirDriver, Shift
        <4>2. DOMAIN flags = FlagNames
          BY DEF ShiftInv
        <4> QED BY <2>0, <3>1, <4>1, <4>2, ReadingKeepsShift
      <3>3. CASE ~ mouse_isr_handler
        <4>1. UNCHANGED <<port, last>>
          BY <2>6, <3>3 DEF Printing, Interrupt, send_eoi, SendEoiSecondary, IRET, vars, ps2
        <4> QED BY <3>1, <4>1 DEF ShiftInv, Holds, StillHolds
      <3> QED BY <3>2, <3>3
    <2> QED BY <2>1, <2>2, <2>3, <2>4, <2>5, <2>6 DEF Next, kernel_main, Handler
  <1> QED BY <1>1, ShiftInit, ReadyHolds, PTL DEF Spec

\* Once every byte of the keyboard was handled shift is on only while the last
\* code of a shift key was that of a press or the loss of a release was not made
\* good, whatever was sent while the drivers were set up (keyboard.c:114-146,
\* 217-224).
THEOREM ShiftNeverSticks == Spec => []NoStuckShift
  <1>1. ShiftInv => NoStuckShift
    BY DEF ShiftInv, NoStuckShift, NoShiftIn, Shift, Holds
  <1> QED BY <1>1, ShiftHolds, PTL
=============================================================================
