-------------------------------- MODULE Arena --------------------------------
(***************************************************************************)
(* The memory of a memtable (util/arena.cc, arena.h): pieces are cut from  *)
(* blocks and freed all at once.                                           *)
(*                                                                         *)
(* new char[] (external) returns memory that is aligned, so an address is  *)
(* a block and an offset in it.                                            *)
(***************************************************************************)
EXTENDS Naturals, Sequences, FiniteSets

CONSTANTS ArenaBlockSize,          \* kBlockSize
          Align,                   \* the alignment of a pointer
          PieceSizes, MaxPieces    \* bounds: sizes asked for; how many are

ASSUME ArenaAssumption == Align \in Nat \ {0} /\ ArenaBlockSize % Align = 0 /\ PieceSizes \subseteq Nat \ {0}

VARIABLES
  arena_blocks,                    \* the sizes of blocks_
  alloc_ptr, alloc_bytes_remaining,
  memory_usage,
  pieces                           \* what was allocated: where, how much, aligned or not

arenaVars == <<arena_blocks, alloc_ptr, alloc_bytes_remaining, memory_usage, pieces>>

Address(block, offset) == [block |-> block, offset |-> offset]
Piece(at, bytes, aligned) == [at |-> at, bytes |-> bytes, aligned |-> aligned]

AllocateNewBlock(bytes) ==
  /\ arena_blocks' = Append(arena_blocks, bytes)
  /\ memory_usage' = memory_usage + bytes + Align
NewBlock == Address(Len(arena_blocks) + 1, 0)

(* Cut from what is left of the current block, after the slop.             *)
FromBlock(bytes, slop, aligned) ==
  /\ pieces' = pieces \cup {Piece(Address(alloc_ptr.block, alloc_ptr.offset + slop), bytes, aligned)}
  /\ alloc_ptr' = [alloc_ptr EXCEPT !.offset = @ + bytes + slop]
  /\ alloc_bytes_remaining' = alloc_bytes_remaining - (bytes + slop)
  /\ UNCHANGED <<arena_blocks, memory_usage>>

(* A large piece has its own block; for another one the rest of the block  *)
(* is given up.                                                            *)
AllocateFallback(bytes, aligned) ==
  /\ pieces' = pieces \cup {Piece(NewBlock, bytes, aligned)}
  /\ IF bytes > ArenaBlockSize \div 4
     THEN AllocateNewBlock(bytes) /\ UNCHANGED <<alloc_ptr, alloc_bytes_remaining>>
     ELSE /\ AllocateNewBlock(ArenaBlockSize)
          /\ alloc_ptr' = [NewBlock EXCEPT !.offset = bytes]
          /\ alloc_bytes_remaining' = ArenaBlockSize - bytes

Allocate(bytes) ==
  IF bytes <= alloc_bytes_remaining THEN FromBlock(bytes, 0, FALSE)
  ELSE AllocateFallback(bytes, FALSE)

Slop == (Align - (alloc_ptr.offset % Align)) % Align

(* Mutant: the slop is not counted when looking for room.                  *)
NeededBytesOnly(bytes) == bytes

Needed(bytes) == bytes + Slop

AllocateAligned(bytes) ==
  IF Needed(bytes) <= alloc_bytes_remaining THEN FromBlock(bytes, Slop, TRUE)
  ELSE AllocateFallback(bytes, TRUE)

ArenaInit ==
  /\ arena_blocks = << >> /\ alloc_ptr = Address(0, 0) /\ alloc_bytes_remaining = 0
  /\ memory_usage = 0 /\ pieces = {}

ArenaNext ==
  /\ Cardinality(pieces) < MaxPieces
  /\ \E bytes \in PieceSizes : Allocate(bytes) \/ AllocateAligned(bytes)

-----------------------------------------------------------------------------
(* Pieces lie within their blocks, do not overlap, and start where they    *)
(* were asked to, in whatever order aligned and other pieces, small and    *)
(* large ones are allocated.                                               *)
PiecesApart ==
  \A p \in pieces :
    /\ p.at.offset + p.bytes <= arena_blocks[p.at.block]
    /\ p.aligned => p.at.offset % Align = 0
    /\ \A q \in pieces \ {p} :
         p.at.block = q.at.block => \/ p.at.offset + p.bytes <= q.at.offset
                                    \/ q.at.offset + q.bytes <= p.at.offset

=============================================================================
