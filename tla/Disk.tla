-------------------------------- MODULE Disk --------------------------------
(***************************************************************************)
(* The IDE driver (devices/ide.c): one channel with its lock, its          *)
(* completion semaphore and its interrupt handler, and the disks on it.    *)
(* The two channels of a PC share nothing but the handler, which looks up  *)
(* its channel by the interrupt's number.                                  *)
(*                                                                         *)
(* Under the channel's lock the driver talks to the hardware register by   *)
(* register; a step ends where it waits (for the lock, for the status      *)
(* register, for the interrupt) or where the hardware may move meanwhile.  *)
(* The hardware is external: it answers a command within the time that the *)
(* polling loops allow, and may interrupt when nobody asked.  A disk that  *)
(* refuses a command answers without DRQ, which is also what               *)
(* wait_while_busy() returns when it gives up.                             *)
(***************************************************************************)
EXTENDS Integers, FiniteSets

CONSTANTS
  Thread,    \* threads that do I/O
  Booter,    \* the one of them that runs ide_init()
  Device,    \* subset of {0, 1}: dev_no of the disks of the channel
  Sector,
  Value,     \* contents of a sector
  MaxStray,  \* bound: interrupts that no command caused
  MaxRefuse, \* bound: commands that the hardware refuses
  NULL

VARIABLES
  lock,                \* holder of c->lock
  expecting_interrupt,
  completion_wait,     \* value of the semaphore
  is_ata,              \* the devices that turned out to be disks
  identified,          \* those that identify_ata_device() is done with
  step,                \* where each thread is
  request,             \* the operation it is in
  data,                \* its buffer, once filled
  selected,            \* hardware: the device selected last
  lba,                 \* hardware: the sector selected last
  phase,               \* hardware: what each device is doing
  buffer,              \* hardware: the data register's contents
  medium,              \* hardware: the sectors
  irq,                 \* hardware: an interrupt is pending
  strays, refused, halted

driverVars == <<lock, expecting_interrupt, completion_wait, is_ata, identified>>
threadVars == <<step, request, data>>
hardwareVars == <<selected, lba, phase, buffer, medium, irq>>
vars == <<driverVars, threadVars, hardwareVars, strays, refused, halted>>

Request == [op : {"identify"}, dev : Device]
           \cup [op : {"read"}, dev : Device, sec : Sector]
           \cup [op : {"write"}, dev : Device, sec : Sector, val : Value]

Step == {"boot", "run", "acquire", "idle", "select", "issue", "sema_down",
         "input", "output", "release"}

\* BSY while a command is carried out, DRQ while data can be moved.
Phase == {"idle", "busy_in", "drq_in", "busy_out", "drq_out", "busy_write"}
Busy == {"busy_in", "busy_out", "busy_write"}

Init ==
  /\ lock = NULL /\ expecting_interrupt = FALSE /\ completion_wait = 0
  /\ is_ata = {} /\ identified = {}
  /\ step = [t \in Thread |-> IF t = Booter THEN "boot" ELSE "run"]
  /\ request = [t \in Thread |-> NULL]
  /\ data = [t \in Thread |-> NULL]
  /\ selected = 0 /\ lba = NULL
  /\ phase = [d \in Device |-> "idle"]
  /\ buffer = [d \in Device |-> NULL]
  /\ medium \in [Device -> [Sector -> Value]]
  /\ irq = FALSE /\ strays = 0 /\ refused = 0 /\ halted = FALSE

At(t, s) == ~halted /\ step[t] = s

Goto(t, s) == step' = [step EXCEPT ![t] = s]

Finish(t) ==
  /\ request' = [request EXCEPT ![t] = NULL]
  /\ data' = [data EXCEPT ![t] = NULL]
-----------------------------------------------------------------------------
(***************************************************************************)
(* Detection.                                                              *)
(***************************************************************************)

\* check_device_type(): ERROR is the error register (1, 0x81 or another value),
\* READY is DRDY without BSY, SIGNATURE whether the LBA registers hold a disk's.
\* Returns is_ata, and whether there may be a slave.
check_device_type(d, error, ready, signature) ==
  IF (error # 1 /\ (error # 129 \/ d = 1)) \/ ~ready
  THEN [ata |-> FALSE, slave |-> error # 129]
  ELSE [ata |-> signature, slave |-> TRUE]

\* ide_init() after reset_channel(), whatever the devices put in the registers:
\* the slave is looked at only if the master says there may be one.
ide_init ==
  /\ At(Booter, "boot")
  /\ \E error \in [{0, 1} -> {0, 1, 129}], ready, signature \in [{0, 1} -> BOOLEAN] :
       LET check(d) == check_device_type(d, error[d], ready[d], signature[d])
       IN  /\ is_ata' = {d \in Device : check(d).ata /\ (d = 1 => check(0).slave)}
           /\ selected' = IF check(0).slave THEN 1 ELSE 0
  /\ Goto(Booter, "run")
  /\ UNCHANGED <<lock, expecting_interrupt, completion_wait, identified, request, data, lba,
                 phase, buffer, medium, irq, strays, refused, halted>>

\* identify_ata_device(), disk by disk.  Only the booting thread is there, and
\* it does without the lock.
identify_ata_device(d) ==
  /\ At(Booter, "run")
  /\ d \in is_ata \ identified /\ \A b \in is_ata \ identified : d <= b
  /\ request' = [request EXCEPT ![Booter] = [op |-> "identify", dev |-> d]]
  /\ Goto(Booter, "idle")
  /\ UNCHANGED <<driverVars, data, hardwareVars, strays, refused, halted>>
-----------------------------------------------------------------------------
(***************************************************************************)
(* Reading and writing.                                                    *)
(***************************************************************************)

\* ide_read() and ide_write() are called; before ide_init() is done only by the
\* booting thread, which reads the partition table of each disk it identifies.
Call(t, r) ==
  /\ At(t, "run") /\ r.op # "identify" /\ r.dev \in is_ata \cap identified
  /\ t # Booter => is_ata \subseteq identified
  /\ request' = [request EXCEPT ![t] = r]
  /\ Goto(t, "acquire")
  /\ UNCHANGED <<driverVars, data, hardwareVars, strays, refused, halted>>

lock_acquire(t) ==
  /\ At(t, "acquire") /\ lock = NULL
  /\ lock' = t
  /\ Goto(t, "idle")
  /\ UNCHANGED <<expecting_interrupt, completion_wait, is_ata, identified, request, data,
                 hardwareVars, strays, refused, halted>>

\* wait_until_idle(), for whatever device was selected last.  Reading the
\* status register clears a pending interrupt.
wait_until_idle(t) ==
  /\ At(t, "idle") /\ phase[selected] = "idle"
  /\ irq' = FALSE
  /\ Goto(t, "select")
  /\ UNCHANGED <<driverVars, request, data, selected, lba, phase, buffer, medium,
                 strays, refused, halted>>

\* Mutant of select_sector(): the device is not selected.
select_sector_only(t) ==
  /\ At(t, "select") /\ phase[request[t].dev] = "idle"
  /\ lba' = IF request[t].op = "identify" THEN lba ELSE request[t].sec
  /\ irq' = FALSE
  /\ Goto(t, "issue")
  /\ UNCHANGED <<driverVars, request, data, selected, phase, buffer, medium,
                 strays, refused, halted>>

\* The rest of select_device_wait(), and select_sector()'s registers.
select_sector(t) ==
  /\ At(t, "select") /\ phase[request[t].dev] = "idle"
  /\ selected' = request[t].dev
  /\ lba' = IF request[t].op = "identify" THEN lba ELSE request[t].sec
  /\ irq' = FALSE
  /\ Goto(t, "issue")
  /\ UNCHANGED <<driverVars, request, data, phase, buffer, medium, strays, refused, halted>>

issue_pio_command(t) ==
  /\ At(t, "issue")
  /\ expecting_interrupt' = TRUE
  /\ phase' = [phase EXCEPT ![selected] =
                 IF request[t].op = "write" THEN "busy_out" ELSE "busy_in"]
  /\ Goto(t, IF request[t].op = "write" THEN "output" ELSE "sema_down")
  /\ UNCHANGED <<lock, completion_wait, is_ata, identified, request, data, selected, lba,
                 buffer, medium, irq, strays, refused, halted>>

sema_down(t) ==
  /\ At(t, "sema_down") /\ completion_wait > 0
  /\ completion_wait' = completion_wait - 1
  /\ Goto(t, IF request[t].op = "write" THEN "release" ELSE "input")
  /\ UNCHANGED <<lock, expecting_interrupt, is_ata, identified, request, data, hardwareVars,
                 strays, refused, halted>>

\* The end of ide_read(): wait_while_busy(), then the transfer; without DRQ the
\* kernel stops.
input_sector(t) ==
  /\ At(t, "input") /\ request[t].op = "read" /\ phase[selected] \notin Busy
  /\ IF phase[selected] = "drq_in"
     THEN /\ data' = [data EXCEPT ![t] = buffer[selected]]
          /\ phase' = [phase EXCEPT ![selected] = "idle"]
          /\ Goto(t, "release")
          /\ UNCHANGED halted
     ELSE halted' = TRUE /\ UNCHANGED <<data, phase, step>>
  /\ UNCHANGED <<driverVars, request, selected, lba, buffer, medium, irq, strays, refused>>

\* The end of identify_ata_device(): a device that refuses the command, or whose
\* capacity is beyond 1 GB, is not used.
identify_done(t) ==
  /\ At(t, "input") /\ request[t].op = "identify" /\ phase[selected] \notin Busy
  /\ \E small \in BOOLEAN :
       is_ata' = IF phase[selected] = "drq_in" /\ small THEN is_ata
                 ELSE is_ata \ {request[t].dev}
  /\ identified' = identified \cup {request[t].dev}
  /\ phase' = [phase EXCEPT ![selected] = "idle"]
  /\ Finish(t)
  /\ Goto(t, "run")
  /\ UNCHANGED <<lock, expecting_interrupt, completion_wait, selected, lba, buffer, medium,
                 irq, strays, refused, halted>>

\* ide_write(): wait_while_busy(), then output_sector().
output_sector(t) ==
  /\ At(t, "output") /\ phase[selected] \notin Busy
  /\ IF phase[selected] = "drq_out"
     THEN /\ buffer' = [buffer EXCEPT ![selected] = request[t].val]
          /\ phase' = [phase EXCEPT ![selected] = "busy_write"]
          /\ data' = [data EXCEPT ![t] = request[t].val]
          /\ Goto(t, "sema_down")
          /\ UNCHANGED halted
     ELSE halted' = TRUE /\ UNCHANGED <<data, phase, step, buffer>>
  /\ UNCHANGED <<driverVars, request, selected, lba, medium, irq, strays, refused>>

lock_release(t) ==
  /\ At(t, "release")
  /\ lock' = NULL
  /\ Finish(t)
  /\ Goto(t, "run")
  /\ UNCHANGED <<expecting_interrupt, completion_wait, is_ata, identified, hardwareVars,
                 strays, refused, halted>>
-----------------------------------------------------------------------------
(***************************************************************************)
(* The hardware, and its interrupt.                                        *)
(***************************************************************************)

\* Device D gets on with its command.  It interrupts when data is there to be
\* read and when written data has reached the medium.
device_step(d) ==
  /\ ~halted
  /\ \/ /\ phase[d] = "busy_in"
        /\ phase' = [phase EXCEPT ![d] = "drq_in"]
        /\ buffer' = [buffer EXCEPT ![d] = IF lba = NULL THEN NULL ELSE medium[d][lba]]
        /\ irq' = TRUE
        /\ UNCHANGED medium
     \/ /\ phase[d] = "busy_out"
        /\ phase' = [phase EXCEPT ![d] = "drq_out"]
        /\ UNCHANGED <<buffer, medium, irq>>
     \/ /\ phase[d] = "busy_write"
        /\ phase' = [phase EXCEPT ![d] = "idle"]
        /\ medium' = [medium EXCEPT ![d][lba] = buffer[d]]
        /\ irq' = TRUE
        /\ UNCHANGED buffer
  /\ UNCHANGED <<driverVars, threadVars, selected, lba, strays, refused, halted>>

\* Device D answers a command with an error.
device_refuses(d) ==
  /\ ~halted /\ refused < MaxRefuse
  /\ phase[d] \in {"busy_in", "busy_out"}
  /\ phase' = [phase EXCEPT ![d] = "idle"]
  /\ irq' = TRUE
  /\ refused' = refused + 1
  /\ UNCHANGED <<driverVars, threadVars, selected, lba, buffer, medium, strays, halted>>

\* An interrupt that no command caused.
stray_interrupt ==
  /\ ~halted /\ strays < MaxStray
  /\ irq' = TRUE /\ strays' = strays + 1
  /\ UNCHANGED <<driverVars, threadVars, selected, lba, phase, buffer, medium, refused, halted>>

interrupt_handler ==
  /\ ~halted /\ irq
  /\ irq' = FALSE
  /\ completion_wait' = IF expecting_interrupt THEN completion_wait + 1 ELSE completion_wait
  /\ UNCHANGED <<lock, expecting_interrupt, is_ata, identified, threadVars, selected, lba,
                 phase, buffer, medium, strays, refused, halted>>
-----------------------------------------------------------------------------
Driver(t) ==
  \/ lock_acquire(t) \/ wait_until_idle(t) \/ select_sector(t) \/ issue_pio_command(t)
  \/ sema_down(t) \/ input_sector(t) \/ output_sector(t) \/ identify_done(t)
  \/ lock_release(t)

Next ==
  \/ ide_init \/ interrupt_handler \/ stray_interrupt
  \/ \E d \in Device : identify_ata_device(d) \/ device_step(d) \/ device_refuses(d)
  \/ \E t \in Thread : Driver(t) \/ \E r \in Request : Call(t, r)

Spec == Init /\ [][Next]_vars
-----------------------------------------------------------------------------
\* What the sectors hold once the transfer under way is on the medium.
Stored ==
  [d \in Device |-> [s \in Sector |->
     IF phase[d] = "busy_write" /\ lba = s THEN buffer[d] ELSE medium[d][s]]]

Visible(t) == request[t] # NULL /\ request[t].op # "identify"

S == INSTANCE Sectors WITH
       store <- Stored,
       call <- [t \in Thread |-> IF Visible(t) THEN request[t] ELSE NULL],
       answer <- [t \in Thread |-> IF Visible(t) THEN data[t] ELSE NULL]

\* ide_read() and ide_write() are atomic: whatever the interleaving of threads,
\* transfers and interrupts, stray ones included, a read returns what the last
\* write to that sector of that device left there.
ImplementsSectors == S!Spec

\* Nobody waits for what will not come.  A thread in sema_down() has been woken,
\* or the handler is about to run and expects the interrupt, or the disk is still
\* at work and will interrupt: polling, which clears interrupts too, never took
\* the one it needs.  The loops that poll find a disk that gets ready, and the
\* channel's lock is held by a thread that is on its way to release it.
RequestsAreServed ==
  \A t \in Thread : ~halted =>
    CASE step[t] = "acquire" -> lock = NULL \/ step[lock] \notin {"boot", "run", "acquire"}
      [] step[t] = "idle" -> phase[selected] \in Busy \cup {"idle"}
      [] step[t] = "select" -> phase[request[t].dev] \in Busy \cup {"idle"}
      [] step[t] = "sema_down" ->
           \/ completion_wait > 0
           \/ expecting_interrupt /\ (irq \/ phase[selected] \in Busy)
      [] OTHER -> TRUE
=============================================================================
