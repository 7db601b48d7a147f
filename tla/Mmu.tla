--------------------------------- MODULE Mmu ---------------------------------
(***************************************************************************)
(* The memory of the simulated machine and its address translation:        *)
(* machine/translate.cc.  There is no TLB (USE_TLB is not defined).        *)
(*                                                                         *)
(* A page table is a sequence of entries; the bit `use' of an entry is     *)
(* left out, nothing reads it.  The memory is a function from physical     *)
(* addresses to bytes.                                                     *)
(***************************************************************************)
EXTENDS Mips, BitMap

CONSTANTS
    PageSize,       \* bytes in a page, SectorSize in the code
    NumPhysPages    \* page frames

ASSUME MemoryAssumption == PageSize \in Nat \ {0} /\ PageSize % 4 = 0 /\ NumPhysPages \in Nat

Bytes == 0 .. 2^ByteBits - 1
Frames == Bits(NumPhysPages)
PhysicalAddresses == 0 .. PageSize * NumPhysPages - 1
Entries == [physicalPage : Frames, valid : BOOLEAN, readOnly : BOOLEAN, dirty : BOOLEAN]

\* Machine::Translate of an access of size bytes at addr.  pageTableSize is the
\* machine's, table what its pageTable points to.
Translate(table, pageTableSize, addr, size, writing) ==
    LET vpn == addr \div PageSize
        entry == table[vpn + 1]
    IN  CASE addr % size # 0 -> "AddressError"
          [] vpn >= pageTableSize -> "AddressError"
          [] ~entry.valid -> "PageFault"
          [] entry.readOnly /\ writing -> "ReadOnly"
          [] entry.physicalPage >= NumPhysPages -> "BusError"
          [] OTHER -> "No"

\* The physical address of addr.
Physical(table, addr) ==
    table[addr \div PageSize + 1].physicalPage * PageSize + (addr % PageSize)

\* The k-th byte of a value in memory: the lowest comes first.
ByteOf(value, k) == (value \div 2^(ByteBits * k)) % 2^ByteBits

\* What Machine::ReadMem finds at a physical address.
ReadMem(memory, p, size) ==
    LET byte(k) == IF k < size THEN memory[p + k] * 2^(ByteBits * k) ELSE 0
    IN  byte(0) + byte(1) + byte(2) + byte(3)

\* The memory after Machine::WriteMem.
WriteMem(memory, p, size, value) ==
    [q \in DOMAIN memory |->
        IF q \in p .. p + size - 1 THEN ByteOf(value, q - p) ELSE memory[q]]

\* The page table after a write at addr.
Dirtied(table, addr) == [table EXCEPT ![addr \div PageSize + 1].dirty = TRUE]

\* The entries the loops of AddrSpace and do_Sbrk make for the frames that n
\* calls of GetEmptyFrame return.
EmptyFrames(map, n) ==
    SetToSortSeq({f \in Frames \ map : Cardinality({g \in Frames \ map : g < f}) < n}, <)
NewEntries(frames) ==
    [k \in DOMAIN frames |->
        [physicalPage |-> frames[k], valid |-> TRUE, readOnly |-> FALSE, dirty |-> FALSE]]

\* (Mutant of Cleared: GetEmptyFrame does not clear the frame.)
NotCleared(memory, frames) == memory

\* The memory with these frames cleared.
Cleared(memory, frames) ==
    [q \in DOMAIN memory |-> IF \E k \in DOMAIN frames : frames[k] = q \div PageSize
                             THEN 0 ELSE memory[q]]
==============================================================================
