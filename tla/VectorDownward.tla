--------------------------- MODULE VectorDownward ---------------------------
(* The memory of a FlatBufferBuilder (flatbuffers/vector_downward.h with   *)
(* its allocator).  One block of reserved bytes holds two stacks: what has *)
(* been serialized, from the end of the block down to cur, and the scratch *)
(* pad, from its beginning up to scratch.  When they would meet the block  *)
(* is replaced by a larger one and both are copied to its two ends.        *)
(*                                                                         *)
(* A vector_downward is the record v.  Addresses count from buf_; block is *)
(* the name of the block it owns, 0 for a null buf_, and heap holds the    *)
(* names of the blocks allocated and not yet freed.                        *)
EXTENDS Scalars

NewVector(initial_size, buffer_minalign) ==
  [initial_size |-> initial_size, buffer_minalign |-> buffer_minalign,
   block |-> 0, heap |-> {}, mem |-> << >>,
   reserved |-> 0, size |-> 0, cur |-> 0, scratch |-> 0]

(* A name for a new block. *)
Fresh(heap) == CHOOSE n \in 1 .. 3 : n \notin heap

Aligned(n, alignment) == n + PaddingBytes(n, alignment)

(* Mutated form: all is copied to the front, as std::realloc would. *)
MovedToFront(v, reserved) ==
  [a \in 0 .. (reserved - 1) |-> IF a < v.reserved THEN v.mem[a] ELSE Junk]

(* What reallocate_downward copies: size bytes from the back of the old    *)
(* block, and those below scratch from its front.                          *)
Moved(v, reserved) ==
  [a \in 0 .. (reserved - 1) |->
     IF v.block = 0 THEN Junk
     ELSE IF a < v.scratch THEN v.mem[a]
     ELSE IF a >= reserved - v.size THEN v.mem[a - (reserved - v.reserved)]
     ELSE Junk]

reallocate(v, len) ==
  LET grown    == v.reserved + Larger(len, IF v.reserved > 0 THEN v.reserved \div 2
                                                             ELSE v.initial_size)
      reserved == Aligned(grown, v.buffer_minalign)
      block    == Fresh(v.heap)
  IN [v EXCEPT !.reserved = reserved,
               !.mem      = Moved(v, reserved),
               !.block    = block,
               !.heap     = (@ \ {v.block}) \union {block},
               !.cur      = reserved - v.size]

(* Mutated form: a block that would be filled to the last byte is enough   *)
(* for one byte more.                                                      *)
ensure_space_off_by_one(v, len) ==
  IF len > v.cur - v.scratch + 1 THEN reallocate(v, len) ELSE v

ensure_space(v, len) ==
  IF len > v.cur - v.scratch THEN reallocate(v, len) ELSE v

make_space(v, len) ==
  IF len = 0 THEN v
  ELSE [ensure_space(v, len) EXCEPT !.cur = @ - len, !.size = @ + len]

Put(v, p, bytes) == [v EXCEPT !.mem = Copied(@, p, bytes)]
PutAtCur(v, bytes) == Put(v, v.cur, bytes)
push(v, bytes) == PutAtCur(make_space(v, Len(bytes)), bytes)

fill(v, zero_pad_bytes) == push(v, [i \in 1..zero_pad_bytes |-> 0])

PutAtScratch(v, bytes) == [Put(v, v.scratch, bytes) EXCEPT !.scratch = @ + Len(bytes)]
scratch_push_small(v, bytes) == PutAtScratch(ensure_space(v, Len(bytes)), bytes)

pop(v, bytes_to_remove) ==
  [v EXCEPT !.cur = @ + bytes_to_remove, !.size = @ - bytes_to_remove]
scratch_pop(v, bytes_to_remove) == [v EXCEPT !.scratch = @ - bytes_to_remove]

clear_scratch(v) == [v EXCEPT !.scratch = 0]

(* The block stays; what was in it will not be read again. *)
clear(v) ==
  [v EXCEPT !.cur      = IF v.block # 0 THEN v.reserved ELSE 0,
            !.reserved = IF v.block # 0 THEN @ ELSE 0,
            !.mem      = [a \in DOMAIN @ |-> Junk],
            !.size     = 0,
            !.scratch  = 0]

clear_buffer(v) == [v EXCEPT !.heap = @ \ {v.block}, !.block = 0, !.mem = << >>]
reset(v) == clear(clear_buffer(v))

(* The block goes to a DetachedBuffer, which frees it in the end. *)
release(v) == [vector   |-> clear([v EXCEPT !.block = 0, !.mem = << >>]),
               detached |-> v.block]
Destroyed(v, detached) == [v EXCEPT !.heap = @ \ {detached}]

(* The address of what lies offset bytes before the end. *)
data_at(v, offset) == v.reserved - offset

(* What has been serialized, with its first byte at address 0. *)
Serialized(v) == [a \in 0 .. (v.size - 1) |-> v.mem[v.cur + a]]
=============================================================================
