------------------------------- MODULE Block --------------------------------
(***************************************************************************)
(* Block devices: the registry (devices/block.c), the partitions found on  *)
(* the disks (devices/partition.c) and the roles that main() gives to      *)
(* them (locate_block_devices() in threads/init.c).  All of it happens in  *)
(* the booting thread.  A disk is its size and the partition table in its  *)
(* sector 0; Modulus stands for the 2^32 values of block_sector_t.         *)
(***************************************************************************)
EXTENDS Integers, Sequences, SequencesExt

CONSTANTS
  DiskSize,   \* size in sectors of each disk, in probe order
  Entries,    \* what an entry of a partition table may hold
  TableLen,   \* entries in a partition table
  Modulus,    \* number of values of a sector number
  MaxDepth,   \* bound: nested calls that the kernel stack has room for
  NULL

VARIABLES
  tables,        \* the partition table of each disk
  all_blocks,    \* the block devices, in probe order
  block_by_role, \* the device with each role, as an index of all_blocks
  booted,        \* which of its steps the booting thread has done
  access,        \* the last sector read or written, and for which role
  failure        \* why the kernel panicked, or NULL

vars == <<tables, all_blocks, block_by_role, booted, access, failure>>

Role == {"filesys", "scratch", "swap"}
Extended == {"0x05", "0x0f", "0x85", "0xc5"}

Table == [signature : BOOLEAN, partitions : [1..TableLen -> Entries]]

Init ==
  /\ tables = <<>> /\ all_blocks = <<>>
  /\ block_by_role = [r \in Role |-> NULL]
  /\ booted = "probe" /\ access = NULL /\ failure = NULL

\* The type of block device for a partition type.
BlockType(type) ==
  CASE type = "0x20" -> "kernel" [] type = "0x21" -> "filesys"
    [] type = "0x22" -> "scratch" [] type = "0x23" -> "swap" [] OTHER -> "foreign"

\* What read_partition_table() reports when it calls itself too often.
TooDeep == [type |-> NULL, start |-> 0, size |-> 0]

\* read_partition_table(): the partitions it passes to found_partition(), in
\* order.  It reads sector 0 whatever SECTOR is.
RECURSIVE read_partition_table(_, _, _, _, _)
read_partition_table(table, size, sector, primary, depth) ==
  LET entry(e) ==
        IF e.size = 0 \/ e.type = "0x00" THEN <<>>
        ELSE IF e.type \in Extended
        THEN read_partition_table(table, size,
               IF sector = 0 THEN e.offset ELSE (e.offset + primary) % Modulus,
               IF sector = 0 THEN e.offset ELSE primary, depth + 1)
        ELSE <<[type |-> e.type, start |-> (e.offset + sector) % Modulus, size |-> e.size]>>
  IN  IF depth > MaxDepth THEN <<TooDeep>>
      ELSE IF sector >= size \/ ~table.signature THEN <<>>
      ELSE FlattenSeq([i \in 1..TableLen |-> entry(table.partitions[i])])

\* Mutant of found_partition(): the end of the partition may wrap around.
found_partition_wraps(p, size) ==
  p.start < size /\ (p.start + p.size) % Modulus <= size

\* found_partition(): whether the partition is registered.
found_partition(p, size) ==
  LET end == (p.start + p.size) % Modulus
  IN  p.start < size /\ end >= p.start /\ end <= size

\* The end of identify_ata_device(): the disk is registered and, in
\* partition_scan(), what is found on it.  NR counts all the partitions.
partition_scan(disk, table) ==
  LET size == DiskSize[disk]
      found == read_partition_table(table, size, 0, 0, 0)
      block(nr) == [disk |-> disk, nr |-> nr, type |-> BlockType(found[nr].type),
                    start |-> found[nr].start, size |-> found[nr].size]
      blocks == [nr \in 1..Len(found) |-> block(nr)]
      raw == [disk |-> disk, nr |-> 0, type |-> "raw", start |-> 0, size |-> size]
  IN  /\ tables' = Append(tables, table)
      /\ IF TooDeep \in Range(found)
         THEN failure' = "stack" /\ UNCHANGED all_blocks
         ELSE /\ all_blocks' = all_blocks \o <<raw>> \o
                               SelectSeq(blocks, LAMBDA b : found_partition(b, size))
              /\ UNCHANGED failure

ide_init ==
  /\ failure = NULL /\ booted = "probe" /\ Len(tables) < Len(DiskSize)
  /\ \E table \in Table : partition_scan(Len(tables) + 1, table)
  /\ UNCHANGED <<block_by_role, booted, access>>

\* The index of the device with a name, or 0.
block_get_by_name(name) ==
  SelectInSeq(all_blocks, LAMBDA b : b.disk = name.disk /\ b.nr = name.nr)

\* The loop over block_first() and block_next(): the first device for role R, or 0.
block_of_type(r) == SelectInSeq(all_blocks, LAMBDA b : b.type = r)

\* locate_block_device() for every role; NAME is what the command line says.
locate_block_devices(name) ==
  LET chosen(r) == IF name[r] = NULL THEN block_of_type(r) ELSE block_get_by_name(name[r])
  IN  /\ failure = NULL /\ booted = "probe" /\ Len(tables) = Len(DiskSize)
      /\ booted' = "run"
      /\ failure' = IF \E r \in Role : name[r] # NULL /\ chosen(r) = 0
                    THEN "no such device" ELSE NULL
      /\ block_by_role' = [r \in Role |-> IF chosen(r) = 0 THEN NULL ELSE chosen(r)]
      /\ UNCHANGED <<tables, all_blocks, access>>

\* The command line names a device for at most one role here: the whole of the
\* last disk, or its first partition.
Name == {[disk |-> Len(DiskSize), nr |-> n] : n \in 0..1} \cup {NULL}
Names == {name \in [Role -> Name] : Cardinality({r \in Role : name[r] # NULL}) <= 1}

\* block_read() and block_write() of SECTOR of a device that has a role.  For a
\* partition partition_read() and partition_write() call them again for the disk,
\* which is never of a type that writes refuse.
block_io(role, sector, write) ==
  LET b == all_blocks[block_by_role[role]]
      real == (b.start + sector) % Modulus
  IN  /\ failure = NULL /\ booted = "run" /\ block_by_role[role] # NULL
      /\ failure' = CASE sector >= b.size -> "past end of device"
                      [] write /\ b.type = "foreign" -> "foreign"
                      [] b.nr # 0 /\ real >= DiskSize[b.disk] -> "past end of disk"
                      [] OTHER -> NULL
      /\ access' = IF failure' # NULL THEN access
                    ELSE [role |-> role, disk |-> b.disk, sector |-> real]
      /\ UNCHANGED <<tables, all_blocks, block_by_role, booted>>

Next ==
  \/ ide_init
  \/ \E name \in Names : locate_block_devices(name)
  \/ \E role \in Role, sector \in 0..Modulus - 1, write \in BOOLEAN :
       block_io(role, sector, write)

Spec == Init /\ [][Next]_vars
-----------------------------------------------------------------------------
\* Sectors of disk D that block device B covers.
Covers(b, d) == {s \in 0..DiskSize[d] - 1 : b.disk = d /\ b.start <= s /\ s < b.start + b.size}

\* I/O to a device that has a role reaches the sectors of that device only: no
\* partition extends past its disk, whatever the table says and however its
\* sums wrap around, so that no sector a partition has is refused by its disk.
IOStaysInside ==
  /\ failure # "past end of disk"
  /\ access # NULL =>
       access.sector \in Covers(all_blocks[block_by_role[access.role]], access.disk)
  /\ \A b \in Range(all_blocks) : Cardinality(Covers(b, b.disk)) = b.size
=============================================================================
