------------------------------ MODULE Terminal ------------------------------
(***************************************************************************)
(* The console: threads that write to it and read from it (the stdin and   *)
(* stdout cases of the read and write system calls, and the kernel's own   *)
(* printf()), the console lock (lib/kernel/console.c), the interrupt       *)
(* queues between threads and handlers (devices/intq.c), the serial port   *)
(* (devices/serial.c), the input buffer (devices/input.c) and the keyboard *)
(* (devices/kbd.c).                                                        *)
(*                                                                         *)
(* What runs with interrupts off is one step, up to the point where it     *)
(* blocks.  A queue of INTQ_BUFSIZE slots holds one byte less.  Interrupt  *)
(* handlers never wait, so of each queue's two waiters only one is ever    *)
(* set: not_empty of the input buffer, not_full of the transmit queue.     *)
(*                                                                         *)
(* The console lock is taken by a thread that does not have it yet.  One   *)
(* that has it is a process whose buffer cannot be read in the middle of a *)
(* write(): it prints that it exits, one level deeper, and never releases  *)
(* the outer one, nor _lock_for_file.  Interrupt handlers and a panic      *)
(* print without the lock.                                                 *)
(***************************************************************************)
EXTENDS Integers, Sequences, SequencesExt

CONSTANTS
  Writer,        \* threads that write to the console
  Reader,        \* threads that read from it
  Main,          \* the writer that runs main()
  INTQ_BUFSIZE,
  LineLen,       \* bytes in a line, what is written between two uses of the lock
  MaxEvents,     \* bound: lines written, keys pressed, bytes received, stray interrupts
  Keys,          \* the keys that are pressed
  NULL

Thread == Writer \cup Reader

VARIABLES
  file_lock,     \* holder of _lock_for_file
  console_lock,  \* holder of console_lock
  console_lock_depth,
  mode,          \* of the serial port
  ier,           \* the serial port's interrupt enable register
  queue,         \* the bytes in the queues "in" (input's buffer) and "out" (txq)
  qlock,         \* holders of the queues' locks
  waiter,        \* threads blocked in the queues' wait()
  modifiers,     \* the shift, ctrl and alt keys that are down
  caps_lock,
  at,            \* where each thread is
  doing,         \* the call it is in: "read", "write", "printf" or "exit"
  left,          \* how many bytes of its line are still to be written
  thre,          \* hardware: the transmitter can take a byte
  rbr,           \* hardware: the byte received, or NULL
  wire,          \* the bytes sent by the serial port so far
  screen,        \* the bytes shown on the display so far
  accepted,      \* the bytes put into the input buffer so far
  got,           \* the bytes that readers took from it so far
  events,        \* how many of these there were
  stopped        \* why the machine is no longer running, or NULL

lockVars == <<file_lock, console_lock, console_lock_depth>>
queueVars == <<queue, qlock, waiter>>
serialVars == <<mode, ier, thre, rbr>>
keyVars == <<modifiers, caps_lock>>
threadVars == <<at, doing, left>>
outcome == <<wire, screen, accepted, got>>
vars == <<lockVars, queueVars, serialVars, keyVars, threadVars, outcome, events, stopped>>

Q(t) == IF doing[t] = "read" THEN "in" ELSE "out"

intq_empty(q) == queue[q] = <<>>

intq_full(q) == Len(queue[q]) = INTQ_BUFSIZE - 1

Init ==
  /\ file_lock = NULL /\ console_lock = NULL /\ console_lock_depth = 0
  /\ mode = "UNINIT" /\ ier = [xmit |-> FALSE, recv |-> FALSE]
  /\ queue = [q \in {"in", "out"} |-> <<>>]
  /\ qlock = [q \in {"in", "out"} |-> NULL]
  /\ waiter = [q \in {"in", "out"} |-> NULL]
  /\ modifiers = {} /\ caps_lock = FALSE
  /\ at = [t \in Thread |-> "run"]
  /\ doing = [t \in Thread |-> NULL]
  /\ left = [t \in Thread |-> 0]
  /\ thre = TRUE /\ rbr = NULL
  /\ wire = <<>> /\ screen = <<>> /\ accepted = <<>> /\ got = <<>>
  /\ events = 0 /\ stopped = NULL

At(t, a) == stopped = NULL /\ at[t] = a

Goto(t, a) == at' = [at EXCEPT ![t] = a]

\* The NTH byte of the line that T is writing: its own, or that it exits.
Byte(t, n) == <<t, IF doing[t] = "exit" THEN "exit" ELSE "line", n>>

\* The NTH byte of a message of KIND that is printed without the console lock.
\* Such a message is longer than a queue.
LooseByte(kind, n) == <<NULL, kind, n>>
LooseLen == INTQ_BUFSIZE

\* What serial_putc() does with such a message, from no thread or with interrupts
\* off: it polls, once the transmit queue is full or before there is one.
PrintLoose(kind) ==
  LET put(s, n) ==
        LET b == LooseByte(kind, n)
        IN  IF mode # "QUEUE" THEN [s EXCEPT !.sent = Append(@, b)]
            ELSE IF Len(s.out) < INTQ_BUFSIZE - 1 THEN [s EXCEPT !.out = Append(@, b)]
            ELSE [sent |-> Append(s.sent, Head(s.out)), out |-> Append(Tail(s.out), b)]
  IN  FoldLeft(put, [sent |-> wire, out |-> queue["out"]], [n \in 1..LooseLen |-> n])
-----------------------------------------------------------------------------
(***************************************************************************)
(* The serial port's registers and the input buffer.                       *)
(***************************************************************************)

\* Mutant of write_ier(): the transmit interrupt is enabled too early to see
\* the byte that was just queued.
write_ier_early(next) ==
  ier' = [xmit |-> ~intq_empty("out"), recv |-> Len(next["in"]) < INTQ_BUFSIZE - 1]

\* write_ier(), once the queues hold NEXT.
write_ier(next) ==
  ier' = [xmit |-> next["out"] # <<>>, recv |-> Len(next["in"]) < INTQ_BUFSIZE - 1]

serial_notify(next) == IF mode = "QUEUE" THEN write_ier(next) ELSE UNCHANGED ier

\* signal() on queue Q: the thread that waits, if any, can run again.
signal(q) ==
  IF waiter[q] = NULL THEN UNCHANGED <<at, waiter>>
  ELSE /\ Goto(waiter[q], "woken")
       /\ waiter' = [waiter EXCEPT ![q] = NULL]

\* input_putc(), from an interrupt handler that found room.
input_putc(byte) ==
  /\ queue' = [queue EXCEPT !["in"] = Append(@, byte)]
  /\ accepted' = Append(accepted, byte)
  /\ signal("in")
  /\ serial_notify(queue')

\* serial_init_queue(), from main().
serial_init_queue ==
  /\ At(Main, "run") /\ mode # "QUEUE"
  /\ mode' = "QUEUE"
  /\ write_ier(queue)
  /\ UNCHANGED <<lockVars, queueVars, thre, rbr, keyVars, threadVars, outcome, events,
                 stopped>>

\* serial_interrupt(): receive while there is room, transmit while the port is
\* ready.  The port has no FIFO: it holds one byte each way.
serial_interrupt ==
  LET receive == ~intq_full("in") /\ rbr # NULL
      transmit == ~intq_empty("out") /\ thre
      next == [in |-> IF receive THEN Append(queue["in"], rbr) ELSE queue["in"],
               out |-> IF transmit THEN Tail(queue["out"]) ELSE queue["out"]]
      woken == (IF receive THEN {waiter["in"]} ELSE {})
               \cup (IF transmit THEN {waiter["out"]} ELSE {})
  IN  /\ stopped = NULL /\ mode = "QUEUE"
      /\ (ier.xmit /\ thre) \/ (ier.recv /\ rbr # NULL)
      /\ queue' = next
      /\ accepted' = IF receive THEN Append(accepted, rbr) ELSE accepted
      /\ rbr' = IF receive THEN NULL ELSE rbr
      /\ wire' = IF transmit THEN Append(wire, Head(queue["out"])) ELSE wire
      /\ thre' = (thre /\ ~transmit)
      /\ at' = [t \in Thread |-> IF t \in woken THEN "woken" ELSE at[t]]
      /\ waiter' = [q \in {"in", "out"} |-> IF waiter[q] \in woken THEN NULL ELSE waiter[q]]
      /\ write_ier(next)
      /\ UNCHANGED <<lockVars, qlock, mode, keyVars, doing, left, screen, got, events,
                     stopped>>

\* The port has sent a byte, or received one.
port_sent ==
  /\ stopped = NULL /\ ~thre /\ thre' = TRUE
  /\ UNCHANGED <<lockVars, queueVars, mode, ier, rbr, keyVars, threadVars, outcome, events,
                 stopped>>

\* What a terminal at the other end sends: a carriage return.
ReceivedByte == 13

port_received ==
  /\ stopped = NULL /\ rbr = NULL /\ events < MaxEvents
  /\ rbr' = ReceivedByte /\ events' = events + 1
  /\ UNCHANGED <<lockVars, queueVars, mode, ier, thre, keyVars, threadVars, outcome, stopped>>

\* unexpected_interrupt(): a message from an interrupt handler.  A thread that
\* waits for room in the queue is woken by each byte that is taken out of it.
unexpected_interrupt ==
  LET end == PrintLoose("stray")
  IN  /\ stopped = NULL /\ events < MaxEvents /\ events' = events + 1
      /\ wire' = end.sent
      /\ thre' = (thre /\ end.sent = wire)
      /\ queue' = [queue EXCEPT !["out"] = end.out]
      /\ IF mode = "QUEUE" /\ end.sent # wire THEN signal("out") ELSE UNCHANGED <<at, waiter>>
      /\ IF mode = "QUEUE" THEN write_ier(queue') ELSE UNCHANGED ier
      /\ mode' = IF mode = "QUEUE" THEN mode ELSE "POLL"
      /\ screen' = screen \o [n \in 1..LooseLen |-> LooseByte("stray", n)]
      /\ UNCHANGED <<lockVars, qlock, rbr, keyVars, doing, left, accepted, got, stopped>>
-----------------------------------------------------------------------------
(***************************************************************************)
(* The keyboard.  A key is a modifier, Caps Lock, or has a CHAR and a      *)
(* SHIFTED character (the same for those of invariant_keymap).             *)
(***************************************************************************)

Down(kind) == \E k \in modifiers : k.modifier = kind

\* The byte for an ordinary key: Ctrl overrides Shift and Caps Lock, Alt sets
\* the high bit.
Character(k) ==
  LET c == IF Down("shift") THEN k.shifted ELSE k.char
      plain == IF Down("ctrl") /\ c >= 64 /\ c < 96 THEN c - 64
               ELSE IF Down("shift") = caps_lock /\ c >= 65 /\ c <= 90 THEN c + 32
               ELSE c
  IN  IF Down("alt") THEN plain + 128 ELSE plain

\* keyboard_interrupt().  A character that finds the buffer full is dropped;
\* Ctrl+Alt+Del reboots.
keyboard_interrupt(k, release) ==
  /\ stopped = NULL /\ events < MaxEvents /\ events' = events + 1
  /\ CASE k.modifier = "caps" ->
            /\ caps_lock' = IF release THEN caps_lock ELSE ~caps_lock
            /\ UNCHANGED <<modifiers, queueVars, ier, at, accepted, stopped>>
       [] k.modifier \in {"shift", "ctrl", "alt"} ->
            /\ modifiers' = IF release THEN modifiers \ {k} ELSE modifiers \cup {k}
            /\ UNCHANGED <<caps_lock, queueVars, ier, at, accepted, stopped>>
       [] OTHER ->
            /\ stopped' = IF ~release /\ k.char = 127 /\ Down("ctrl") /\ Down("alt")
                           THEN "reboot" ELSE NULL
            /\ IF release \/ stopped' # NULL \/ intq_full("in")
               THEN UNCHANGED <<queue, waiter, ier, at, accepted>>
               ELSE input_putc(Character(k))
            /\ UNCHANGED <<qlock, keyVars>>
  /\ UNCHANGED <<lockVars, mode, thre, rbr, doing, left, wire, screen, got>>
-----------------------------------------------------------------------------
(***************************************************************************)
(* Threads.                                                                *)
(***************************************************************************)

\* A thread calls write() or read(), or the kernel prints something.
Call(t, what) ==
  /\ At(t, "run")
  /\ IF what = "read" THEN t \in Reader /\ UNCHANGED events
     ELSE t \in Writer /\ events < MaxEvents /\ events' = events + 1
  /\ mode = "QUEUE" \/ (t = Main /\ what = "printf")
  /\ doing' = [doing EXCEPT ![t] = what]
  /\ left' = [left EXCEPT ![t] = LineLen]
  /\ Goto(t, IF what = "printf" THEN "acquire_console" ELSE "acquire_file")
  /\ UNCHANGED <<lockVars, queueVars, serialVars, keyVars, outcome, stopped>>

acquire_file(t) ==
  /\ At(t, "acquire_file") /\ file_lock = NULL
  /\ file_lock' = t
  /\ Goto(t, IF doing[t] = "read" THEN "getc" ELSE "acquire_console")
  /\ UNCHANGED <<console_lock, console_lock_depth, queueVars, serialVars, keyVars, doing,
                 left, outcome, events, stopped>>

\* T goes on at LABEL with N bytes of its line to do, of which the first is in the
\* program's buffer (N > 0 in a read or write), where a page fault may end the
\* process: syscall_exit (-1).
Touch(t, n, label) ==
  \/ /\ left' = [left EXCEPT ![t] = n]
     /\ Goto(t, label)
     /\ UNCHANGED doing
  \/ /\ doing[t] = "read" \/ (doing[t] = "write" /\ n > 0)
     /\ doing' = [doing EXCEPT ![t] = "exit"]
     /\ left' = [left EXCEPT ![t] = LineLen]
     /\ Goto(t, "acquire_console")

\* Mutant of acquire_console(): nobody waits for the lock.
acquire_console_free(t) ==
  /\ At(t, "acquire_console")
  /\ console_lock' = t
  /\ Touch(t, left[t], "putc")
  /\ UNCHANGED <<file_lock, console_lock_depth, queueVars, serialVars, keyVars, outcome,
                 events, stopped>>

\* acquire_console() of a thread.
acquire_console(t) ==
  /\ At(t, "acquire_console") /\ console_lock \in {NULL, t}
  /\ console_lock' = t
  /\ console_lock_depth' = IF console_lock = t THEN console_lock_depth + 1
                           ELSE console_lock_depth
  /\ Touch(t, left[t], "putc")
  /\ UNCHANGED <<file_lock, queueVars, serialVars, keyVars, outcome, events, stopped>>

\* serial_putc() of the next byte, with room for it or in polling mode.
serial_putc(t) ==
  LET byte == Byte(t, LineLen + 1 - left[t])
  IN  /\ At(t, "putc") /\ left[t] > 0
      /\ \/ /\ mode # "QUEUE"
            /\ mode' = "POLL" /\ wire' = Append(wire, byte) /\ thre' = FALSE
            /\ UNCHANGED <<queue, ier>>
         \/ /\ mode = "QUEUE" /\ ~intq_full("out")
            /\ queue' = [queue EXCEPT !["out"] = Append(@, byte)]
            /\ write_ier(queue')
            /\ UNCHANGED <<mode, wire, thre>>
      /\ Goto(t, "vga")
      /\ UNCHANGED <<lockVars, qlock, waiter, rbr, keyVars, doing, left, screen, accepted,
                     got, events, stopped>>

\* The rest of putchar_have_lock(): vga_putc().
vga_putc(t) ==
  /\ At(t, "vga")
  /\ screen' = Append(screen, Byte(t, LineLen + 1 - left[t]))
  /\ Touch(t, left[t] - 1, "putc")
  /\ UNCHANGED <<lockVars, queueVars, serialVars, keyVars, wire, accepted, got, events,
                 stopped>>

\* input_getc() finds a key; read() asks for as many as it was told to.
input_getc(t) ==
  /\ At(t, "getc") /\ ~intq_empty("in")
  /\ queue' = [queue EXCEPT !["in"] = Tail(@)]
  /\ got' = Append(got, Head(queue["in"]))
  /\ serial_notify(queue')
  /\ Touch(t, left[t] - 1, IF left[t] = 1 THEN "release_file" ELSE "getc")
  /\ UNCHANGED <<lockVars, qlock, waiter, mode, thre, rbr, keyVars, wire, screen, accepted,
                 events, stopped>>

\* wait(): the queue must still be as it was found before the lock was taken.
wait(t) ==
  /\ stopped' = IF (IF Q(t) = "in" THEN intq_empty("in") ELSE intq_full("out"))
                THEN NULL ELSE "assertion"
  /\ waiter' = [waiter EXCEPT ![Q(t)] = t]
  /\ Goto(t, "blocked")

\* The loops of intq_getc() and intq_putc() on a queue that is empty or full:
\* the queue's lock is free, or the thread has to wait for that first.
intq_wait(t) ==
  /\ \/ At(t, "getc") /\ intq_empty("in")
     \/ At(t, "putc") /\ left[t] > 0 /\ mode = "QUEUE" /\ intq_full("out")
     \/ At(t, "qlock") /\ qlock[Q(t)] = NULL
  /\ IF qlock[Q(t)] = NULL
     THEN /\ qlock' = [qlock EXCEPT ![Q(t)] = t]
          /\ wait(t)
     ELSE Goto(t, "qlock") /\ UNCHANGED <<qlock, waiter, stopped>>
  /\ UNCHANGED <<lockVars, queue, serialVars, keyVars, doing, left, outcome, events>>

\* After wait(): the queue's lock is released and the loop tests again.
intq_resume(t) ==
  /\ At(t, "woken")
  /\ qlock' = [qlock EXCEPT ![Q(t)] = NULL]
  /\ Goto(t, IF doing[t] = "read" THEN "getc" ELSE "putc")
  /\ UNCHANGED <<lockVars, queue, waiter, serialVars, keyVars, doing, left, outcome, events,
                 stopped>>

release_console(t) ==
  /\ At(t, "putc") /\ left[t] = 0
  /\ IF console_lock_depth > 0
     THEN console_lock_depth' = console_lock_depth - 1 /\ UNCHANGED console_lock
     ELSE console_lock' = NULL /\ UNCHANGED console_lock_depth
  /\ Goto(t, CASE doing[t] = "write" -> "release_file"
               [] doing[t] = "exit" -> "exited"
               [] OTHER -> "run")
  /\ UNCHANGED <<file_lock, queueVars, serialVars, keyVars, doing, left, outcome, events,
                 stopped>>

release_file(t) ==
  /\ At(t, "release_file")
  /\ file_lock' = NULL
  /\ Goto(t, "run")
  /\ UNCHANGED <<console_lock, console_lock_depth, queueVars, serialVars, keyVars, doing,
                 left, outcome, events, stopped>>

\* The running thread panics: with interrupts off and the console lock ignored
\* it prints its message and powers off after serial_flush().
debug_panic(t) ==
  LET end == PrintLoose("panic")
  IN  /\ mode = "QUEUE" /\ stopped = NULL /\ at[t] \in {"run", "putc", "vga", "acquire_console"}
      /\ stopped' = "panic"
      /\ wire' = end.sent \o end.out
      /\ queue' = [queue EXCEPT !["out"] = <<>>]
      /\ screen' = screen \o [n \in 1..LooseLen |-> LooseByte("panic", n)]
      /\ UNCHANGED <<lockVars, qlock, waiter, serialVars, keyVars, threadVars, accepted, got,
                     events>>
-----------------------------------------------------------------------------
Step(t) ==
  \/ acquire_file(t) \/ acquire_console(t) \/ serial_putc(t) \/ vga_putc(t)
  \/ input_getc(t) \/ intq_wait(t) \/ intq_resume(t) \/ release_console(t) \/ release_file(t)

Next ==
  \/ serial_init_queue \/ serial_interrupt \/ port_sent \/ port_received \/ unexpected_interrupt
  \/ \E k \in Keys, release \in BOOLEAN : keyboard_interrupt(k, release)
  \/ \E t \in Thread :
       Step(t) \/ debug_panic(t) \/ \E what \in {"read", "write", "printf"} : Call(t, what)

Spec == Init /\ [][Next]_vars
-----------------------------------------------------------------------------
\* The bytes of a sequence that were printed with the console lock.
Locked(s) == SelectSeq(s, LAMBDA b : b[2] \in {"line", "exit"})

\* S is made of whole lines, and of the beginning of one at the end.  A line is
\* cut off only by the message that its writer exits.
WholeLines(s) ==
  \A i \in 1..Len(s) :
    LET b == s[i]
        before == s[i - 1]
    IN  IF b[3] > 1 THEN i > 1 /\ before = <<b[1], b[2], b[3] - 1>>
        ELSE i > 1 => before[3] = LineLen \/ (b[2] = "exit" /\ before[1] = b[1])

\* No message that is printed without the lock is cut off or interrupted.
WholeMessages(s) ==
  \A i \in 1..Len(s) : s[i][2] \in {"stray", "panic"} =>
    \/ s[i][3] = LooseLen
    \/ i < Len(s) /\ s[i + 1] = LooseByte(s[i][2], s[i][3] + 1)

\* The lines of different threads are not mixed, on the serial line nor on the
\* display, although handlers print in the middle of them and a process may end
\* in the middle of one; no byte is lost, repeated or overtaken between
\* serial_putc() and the port; all of it, and the whole message of a panic, is out
\* when the machine stops.
OutputInOrder ==
  LET sent == wire \o queue["out"]
  IN  /\ WholeLines(Locked(sent)) /\ WholeLines(Locked(screen))
      /\ WholeMessages(sent) /\ WholeMessages(screen)
      /\ Len(sent) - Len(screen) \in {0, 1}
      /\ stopped = "panic" => queue["out"] = <<>> /\ Last(wire) = LooseByte("panic", LooseLen)

\* What readers get is what was put into the input buffer, in that order, and
\* the assertion of wait() holds: because readers come one at a time, the queue
\* cannot have changed between the test of the loop and the wait.
InputInOrder == accepted = got \o queue["in"] /\ stopped # "assertion"

\* Nobody waits for what will not come: a thread in wait() is the queue's waiter,
\* the queue is still as it found it, and the interrupt that will change that is
\* enabled; the queues' own locks are never waited for, because readers come one
\* at a time and so do writers; who waits for _lock_for_file or the console lock
\* waits for a thread that is on its way to release it, or for a process that was
\* ended by a page fault in the middle of its call, and then for ever.
PrintingGoesOn ==
  \A t \in Thread : stopped = NULL =>
    /\ at[t] = "blocked" =>
         /\ waiter[Q(t)] = t /\ qlock[Q(t)] = t
         /\ IF Q(t) = "in" THEN intq_empty("in") /\ ier.recv ELSE intq_full("out") /\ ier.xmit
    /\ at[t] # "qlock"
    /\ (at[t] = "acquire_console" /\ console_lock \notin {NULL, t}) =>
         \/ at[console_lock] \in {"putc", "vga", "blocked", "woken"}
         \/ doing[console_lock] = "exit"
    /\ (at[t] = "acquire_file" /\ file_lock # NULL) =>
         \/ at[file_lock] \in {"getc", "acquire_console", "putc", "vga", "blocked", "woken",
                               "release_file"}
         \/ doing[file_lock] = "exit"
=============================================================================
