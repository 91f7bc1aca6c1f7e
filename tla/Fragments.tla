----------------------------- MODULE Fragments -----------------------------
(***************************************************************************)
(* How a display payload is cut into bulk transfers.  The repository holds *)
(* three versions of the same arithmetic: the Rust library (lib.rs), the C *)
(* library (t6proto.c) and the loop of the kernel driver (trigger6_drv.c). *)
(* Rust and C compute with 32-bit unsigned integers, of which Modulus is   *)
(* the number of values; the kernel uses size_t, which these lengths never *)
(* fill.                                                                   *)
(***************************************************************************)
EXTENDS Naturals

CONSTANT Modulus        \* the number of values of a u32

ASSUME ModulusAssumption == Modulus \in Nat \ {0}

Fragment == [offset : Nat, size : Nat, more : BOOLEAN]

-----------------------------------------------------------------------------
(* Rust.  u32::div_ceil does not overflow; the product and the sum wrap in
   a release build.                                                         *)
fragment_count(payload_length, max_packet_size) ==
    IF payload_length = 0 \/ max_packet_size = 0
    THEN 0
    ELSE payload_length \div max_packet_size
           + (IF payload_length % max_packet_size > 0 THEN 1 ELSE 0)

fragment_offset(max_packet_size, index) == (max_packet_size * index) % Modulus

fragment_size(payload_length, max_packet_size, index) ==
    LET offset    == fragment_offset(max_packet_size, index)
        remaining == payload_length - offset
    IN  IF max_packet_size = 0 \/ offset >= payload_length THEN 0
        ELSE IF remaining < max_packet_size THEN remaining
        ELSE max_packet_size

fragments(payload_length, max_packet_size) ==
    [index \in 0 .. fragment_count(payload_length, max_packet_size) - 1 |->
        LET offset == fragment_offset(max_packet_size, index)
            size   == fragment_size(payload_length, max_packet_size, index)
        IN  [offset |-> offset, size |-> size,
             more   |-> (offset + size) % Modulus < payload_length]]

-----------------------------------------------------------------------------
(* C.  The same offset and size; the count rounds up with a sum that wraps,
   and a fragment of no bytes has no successor.                             *)
t6_fragment_count(payload_length, max_packet_size) ==
    IF payload_length = 0 \/ max_packet_size = 0
    THEN 0
    ELSE ((payload_length + max_packet_size - 1) % Modulus)
             \div max_packet_size

t6_fragments(payload_length, max_packet_size) ==
    [index \in 0 .. t6_fragment_count(payload_length, max_packet_size) - 1 |->
        LET offset == fragment_offset(max_packet_size, index)
            size   == fragment_size(payload_length, max_packet_size, index)
        IN  [offset |-> offset, size |-> size,
             more   |-> /\ size # 0
                        /\ (offset + size) % Modulus < payload_length]]

-----------------------------------------------------------------------------
(* Kernel: trigger6_pipe_update.                                            *)
blocks(buf_size, transfer_length) ==
    (buf_size + transfer_length - 1) \div transfer_length

(* A mutant: the last block is copied whole, past the end of the buffer.    *)
EndUnclamped(buf_size, transfer_length, i) == (i + 1) * transfer_length

block_end(buf_size, transfer_length, i) ==
    IF (i + 1) * transfer_length < buf_size
    THEN (i + 1) * transfer_length
    ELSE buf_size

kernel_fragments(buf_size, transfer_length) ==
    [i \in 0 .. blocks(buf_size, transfer_length) - 1 |->
        [offset |-> i * transfer_length,
         size   |-> block_end(buf_size, transfer_length, i)
                        - i * transfer_length,
         more   |-> i + 1 < blocks(buf_size, transfer_length)]]

=============================================================================
