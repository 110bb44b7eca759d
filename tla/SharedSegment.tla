---------------------------- MODULE SharedSegment ---------------------------
(***************************************************************************)
(* The segment that the simulator and QEMU share, as far as its layout     *)
(* goes: the tunnel header, the position of QuetzSharedData, and the       *)
(* native RAM inside it (quetz_ipc_types.h).                               *)
(*                                                                         *)
(* The simulator parses the guest regions of its configuration, creates    *)
(* the segment, places the regions in it and starts QEMU.  QEMU's client   *)
(* maps the segment at another address, checks what it finds, and hands    *)
(* out pointers into it.  Addresses are integers; a process maps the       *)
(* segment at a multiple of HostPage.                                      *)
(***************************************************************************)
EXTENDS Integers, Sequences, FiniteSets

CONSTANTS
    HostPage,      \* 4096
    RegionBytes,   \* QUETZ_NATIVE_REGION_BYTES
    MaxRegions,    \* QUETZ_MAX_NATIVE_REGIONS
    GuestTop,      \* 2^32
    HeaderBytes,   \* sizeof(QuetzInternalSharedData)
    SharedOff,     \* where the tunnel puts QuetzSharedData in the segment
    StorageOff,    \* offsetof(QuetzSharedData, native_ram_storage)
    Setups         \* configurations, mapping addresses and headers

StorageBytes == (MaxRegions + 1) * RegionBytes - 1
SharedBytes == StorageOff + StorageBytes + 1    \* the magic comes last
SegmentBytes == SharedOff + SharedBytes

ASSUME SegmentAssumption ==
    /\ {HostPage, RegionBytes, MaxRegions, GuestTop, HeaderBytes, StorageOff} \subseteq Nat \ {0}
    /\ RegionBytes % HostPage = 0 /\ GuestTop % HostPage = 0
    /\ SharedOff \in Nat /\ SharedOff >= HeaderBytes
    /\ \A s \in Setups :
         /\ s.list \in Seq(Nat \X Nat) /\ s.header \in [mapSize : Nat, off : Nat, file : Nat]
         /\ {s.sst, s.qemu} \subseteq Nat /\ s.sst % HostPage = 0 /\ s.qemu % HostPage = 0

VARIABLES
    setup,     \* the configuration, the two mapping addresses, what QEMU reads
    stage,     \* "new", "spawned", "attached"; "fatal" or "rejected"
    table      \* native_regions: base, size and offset

segVars == <<setup, stage, table>>

SegInit == setup \in Setups /\ stage = "new" /\ table = << >>

Up(n, to) == ((n + to - 1) \div to) * to

\* parseNativeRegions; a list of pairs of a base and a size is refused or is
\* the table.  Its order of checks does not matter: each one throws.
ParseRefuses(list) ==
    \E i \in DOMAIN list :
        LET base == list[i][1]
            size == list[i][2]
        IN  \/ size = 0 \/ size > RegionBytes \/ size % HostPage # 0 \/ base % HostPage # 0
            \/ base >= GuestTop \/ size > GuestTop - base
            \/ \E j \in 1..i - 1 : base < list[j][1] + list[j][2] /\ list[j][1] < base + size
            \/ i > MaxRegions

\* Faulty variant: every process aligns the storage in its own view.
BackingRealigned(at, i) == Up(at + StorageOff, RegionBytes) + (i - 1) * RegionBytes

\* quetz_native_ram: where region i begins, for a process that has
\* QuetzSharedData at address `at'.
Backing(at, i) == at + table[i].offset

\* Faulty variant: the storage is used from its first page, and the regions
\* are a page apart.
PlaceTight(list, at) ==
    [i \in DOMAIN list |-> [base |-> list[i][1], size |-> list[i][2],
        offset |-> Up(at + StorageOff, HostPage) - at + (i - 1) * HostPage]]

\* quetz_configure_native_regions, before it checks the result.
Place(list, at) ==
    [i \in DOMAIN list |-> [base |-> list[i][1], size |-> list[i][2],
        offset |-> Up(at + StorageOff, RegionBytes) - at + (i - 1) * RegionBytes]]

\* quetz_native_regions_valid
RegionsValid(t, at) ==
    /\ Len(t) <= MaxRegions
    /\ \A i \in DOMAIN t :
          /\ t[i].size # 0 /\ t[i].size <= RegionBytes
          /\ t[i].base % HostPage = 0 /\ t[i].size % HostPage = 0 /\ t[i].base + t[i].size <= GuestTop
          /\ t[i].offset >= StorageOff /\ t[i].offset <= StorageOff + StorageBytes - t[i].size
          /\ (at + t[i].offset) % HostPage = 0
          /\ \A j \in 1..i - 1 :
                /\ ~(t[i].base < t[j].base + t[j].size /\ t[j].base < t[i].base + t[i].size)
                /\ ~(t[i].offset < t[j].offset + t[j].size /\ t[j].offset < t[i].offset + t[i].size)

\* The simulator's configuration, initialize of the tunnel, and spawn.
Spawn ==
    LET at == setup.sst + SharedOff
    IN  /\ stage = "new"
        /\ IF ParseRefuses(setup.list) \/ ~RegionsValid(Place(setup.list, at), at)
             THEN stage' = "fatal" /\ UNCHANGED table
             ELSE stage' = "spawned" /\ table' = Place(setup.list, at)
        /\ UNCHANGED setup

\* map_shmem: the header against the size of the file.
HeaderFits(h) ==
    /\ h.mapSize >= HeaderBytes /\ h.mapSize <= h.file
    /\ h.off <= h.mapSize
    /\ SharedBytes <= h.mapSize - h.off

\* The magic is found only at the end of a QuetzSharedData where there is one.
MagicFound(h) == h.off = SharedOff

\* quetz_ipc_attach.  What it reads of the header is setup.header.
AttachClient ==
    LET h == setup.header
    IN  /\ stage = "spawned"
        /\ stage' = IF HeaderFits(h) /\ MagicFound(h) /\ RegionsValid(table, setup.qemu + h.off)
                    THEN "attached" ELSE "rejected"
        /\ UNCHANGED <<setup, table>>

SegNext == Spawn \/ AttachClient

SegSpec == SegInit /\ [][SegNext]_segVars

-----------------------------------------------------------------------------
\* serviceWindowCache: where the simulator finds a guest byte.  Positions are
\* relative to the segment, so that the two processes can be compared.
SstByte(i, a) == Backing(setup.sst + SharedOff, i) + (a - table[i].base) - setup.sst

\* quetz_ipc_native_ram: the pointer QEMU gets for the region with this base
\* and size, and the byte of it that is the guest's.
QemuByte(i, a) ==
    LET k == CHOOSE k \in DOMAIN table : /\ table[k].base = table[i].base /\ table[k].size = table[i].size
                                         /\ \A l \in 1..k - 1 : table[l].base # table[i].base
    IN  Backing(setup.qemu + setup.header.off, k) + (a - table[i].base) - setup.qemu

GuestBytes(i) == table[i].base..table[i].base + table[i].size - 1

\* Wherever the two processes map the segment, a guest byte of a native region
\* is one byte of the segment for both, no two guest bytes share one, none is
\* outside the storage, and each region begins on a page (as mapping it into a
\* guest needs).
OneView ==
    stage = "attached" =>
        /\ \A i \in DOMAIN table :
              /\ (setup.qemu + SharedOff + table[i].offset) % HostPage = 0
              /\ \A a \in GuestBytes(i) :
                    /\ QemuByte(i, a) = SstByte(i, a)
                    /\ SstByte(i, a) \in SharedOff + StorageOff..SharedOff + StorageOff + StorageBytes - 1
        /\ Cardinality(UNION {{SstByte(i, a) : a \in GuestBytes(i)} : i \in DOMAIN table}) =
           Cardinality(UNION {GuestBytes(i) : i \in DOMAIN table})

\* A configuration that parses is placed and is attached to, with any alignment
\* of the storage; QEMU attaches only if the whole of QuetzSharedData lies in
\* what it maps and in the file, at the place where the simulator put it.
AttachesExactly ==
    /\ stage = "fatal" => ParseRefuses(setup.list)
    /\ stage = "rejected" => setup.header # [mapSize |-> SegmentBytes, off |-> SharedOff, file |-> SegmentBytes]
    /\ stage = "attached" =>
          /\ setup.header.off = SharedOff
          /\ SharedOff + SharedBytes <= setup.header.mapSize
          /\ setup.header.mapSize <= setup.header.file
=============================================================================
