---------------------------- MODULE BulkTransfer ----------------------------
(***************************************************************************)
(* A display payload on its way over the bulk endpoint: the sender writes, *)
(* for each fragment, a command and then the bytes; the other side puts    *)
(* the bytes together again.  The senders are send_chunks_with_context and *)
(* its relatives in user space, which give the payload up at the first     *)
(* failed write, and trigger6_pipe_update in the kernel, which goes on     *)
(* with the next write.  The receiver is the reassembler the repository    *)
(* has, tools/t6_reassemble_video.py, reading the packets of the endpoint. *)
(*                                                                         *)
(* A byte is known by where it comes from: <<number of payload, offset>>.  *)
(***************************************************************************)
EXTENDS Fragments, Sequences

CONSTANTS
    Payloads,       \* the payloads: records of dest and total
    MaxSends,       \* how many payloads a behaviour sends, by kind of sender
    MaxPacket,      \* max_packet_size, TRIGGER6_MAX_TRANSFER_LENGTH
    CommandSize,    \* the bytes of a bulk command
    Senders         \* the kinds of sender considered, among AllSenders

AllSenders == {"userspace",     \* gives up at the first failed write
               "timeouts",      \* the same, and writes may be cut short unnoticed
               "kernel"}        \* passes over failed writes

ASSUME BulkAssumption ==
    /\ Payloads \subseteq [dest : Nat, total : Nat \ {0}]
    /\ Senders \subseteq AllSenders /\ MaxSends \in [AllSenders -> Nat]
    /\ MaxPacket \in Nat \ {0}
    /\ CommandSize \in Nat \ {0}
    /\ \A p \in Payloads : p.total < Modulus

VARIABLES
    flavour,        \* the kind of sender; never changes
    sent,           \* the payloads begun so far, in order
    index,          \* the fragment being written
    phase,          \* the write that is next: "none", "command" or "data"
    failed,         \* whether a write of the current payload has failed
    verdicts,       \* what the sender made of each payload: "ok" or "error"
    pending_command, assemblies, complete, malformed

sender   == <<sent, index, phase, failed, verdicts>>
receiver == <<pending_command, assemblies, complete, malformed>>
vars     == <<flavour, sender, receiver>>

KeepGoing   == flavour = "kernel"
ShortWrites == flavour = "timeouts"

None    == [kind |-> "none"]
Unread  == [kind |-> "unread"]      \* payload bytes taken for a command
Hole    == <<0, 0>>                 \* a byte that was never received

payload == sent[Len(sent)]

chunks == IF KeepGoing THEN kernel_fragments(payload.total, MaxPacket)
                       ELSE fragments(payload.total, MaxPacket)

(* BulkDmaHeader::display and to_bytes, and struct trigger6_bulk_command: five
   words and a byte of flags, the rest of the command being zero.           *)
SIGNATURE_DISPLAY == 0
PACKET_FLAG_NONE  == 0
PACKET_FLAG_CONTINUE_TO_SEND == 1

to_bytes(total, dest, chunk) ==
    <<SIGNATURE_DISPLAY, total, dest, chunk.size, chunk.offset,
      IF chunk.more THEN PACKET_FLAG_CONTINUE_TO_SEND ELSE PACKET_FLAG_NONE>>

(* parse_bulk_command, on the other side.                                   *)
parse_bulk_command(words) ==
    [kind |-> "command", total_len |-> words[2], dest |-> words[3],
     fragment_len |-> words[4], fragment_offset |-> words[5],
     more_fragments |-> words[6]]

Command == parse_bulk_command(to_bytes(payload.total, payload.dest, chunks[index]))

-----------------------------------------------------------------------------
(* The receiver.                                                            *)

Key(c)   == [dest |-> c.dest, total |-> c.total_len]
Fresh(c) == [o \in 0 .. c.total_len - 1 |-> Hole]
Received(a) == \A o \in DOMAIN a : a[o] # Hole

(* A mutant: bytes are added to whatever assembly is open for the key.      *)
OpenKept(c) == IF Key(c) \in DOMAIN assemblies
               THEN assemblies[Key(c)] ELSE Fresh(c)

(* The assembly a fragment goes to: a new one for the first fragment.       *)
Assembly(c) == IF Key(c) \notin DOMAIN assemblies \/ c.fragment_offset = 0
               THEN Fresh(c) ELSE assemblies[Key(c)]

(* Assembly.add: bytes [from, from + length) of the current payload.        *)
Added(a, c, from, length) ==
    [o \in DOMAIN a |->
        IF o \in c.fragment_offset .. c.fragment_offset + length - 1
        THEN <<Len(sent), from + o - c.fragment_offset>>
        ELSE a[o]]

Put(key, a)  == [k \in DOMAIN assemblies \cup {key} |->
                    IF k = key THEN a ELSE assemblies[k]]
Without(key) == [k \in DOMAIN assemblies \ {key} |-> assemblies[k]]

(* A packet of the size of a command is read as one, whatever it is.        *)
ReceiveCommand(c) ==
    /\ pending_command' = c
    /\ UNCHANGED <<assemblies, complete, malformed>>

ReceiveFragment(c, from, length) ==
    LET a == Assembly(c)
        b == Added(a, c, from, length)
    IN  /\ pending_command' = None
        /\ IF c.fragment_offset + length > c.total_len
           THEN /\ malformed' = malformed + 1
                /\ assemblies' = Put(Key(c), a)
                /\ UNCHANGED complete
           ELSE /\ UNCHANGED malformed
                /\ IF c.more_fragments = 0 \/ Received(b)
                   THEN /\ complete' = Append(complete, b)
                        /\ assemblies' = Without(Key(c))
                   ELSE /\ assemblies' = Put(Key(c), b)
                        /\ UNCHANGED complete

ReceiveBytes(from, length) ==
    \/ /\ length = CommandSize
       /\ ReceiveCommand(Unread)
    \/ /\ length # CommandSize /\ pending_command = None
       /\ UNCHANGED receiver
    \/ /\ length # CommandSize /\ pending_command = Unread
       /\ pending_command' = None      \* the garbled lengths do not fit
       /\ malformed' = malformed + 1   \* the bytes that follow
       /\ UNCHANGED <<assemblies, complete>>
    \/ /\ length # CommandSize /\ pending_command \notin {None, Unread}
       /\ ReceiveFragment(pending_command, from, length)

-----------------------------------------------------------------------------
(* The sender.                                                              *)

Init ==
    /\ flavour \in Senders
    /\ sent = <<>> /\ index = 0 /\ phase = "none" /\ failed = FALSE
    /\ verdicts = <<>>
    /\ pending_command = None /\ assemblies = <<>>
    /\ complete = <<>> /\ malformed = 0

(* A payload is handed over and cut into chunks.                            *)
Begin ==
    /\ phase = "none"
    /\ Len(sent) < MaxSends[flavour]
    /\ \E p \in Payloads : sent' = Append(sent, p)
    /\ index' = 0 /\ phase' = "command" /\ failed' = FALSE
    /\ UNCHANGED <<verdicts, receiver>>

(* A mutant: a failed command does not end the transfer.                    *)
PassOver ==
    /\ phase' = IF phase = "command" THEN "data" ELSE "none"
    /\ verdicts' = IF phase = "command" THEN verdicts
                                        ELSE Append(verdicts, "error")
    /\ UNCHANGED <<sent, index, failed>>

GiveUp ==
    /\ phase' = "none"
    /\ verdicts' = Append(verdicts, "error")
    /\ UNCHANGED <<sent, index, failed>>

(* After a write of this fragment's bytes: the next fragment, or the end.   *)
Advance(f) ==
    /\ failed' = f
    /\ UNCHANGED sent
    /\ IF index + 1 \in DOMAIN chunks
       THEN /\ index' = index + 1 /\ phase' = "command"
            /\ UNCHANGED verdicts
       ELSE /\ phase' = "none" /\ UNCHANGED index
            /\ verdicts' = Append(verdicts, IF f THEN "error" ELSE "ok")

WriteCommand ==
    /\ phase = "command"
    /\ phase' = "data"
    /\ UNCHANGED <<sent, index, failed, verdicts>>
    /\ ReceiveCommand(Command)

(* A failed write may or may not have reached the wire.                     *)
CommandFails ==
    /\ phase = "command"
    /\ ReceiveCommand(Command) \/ UNCHANGED receiver
    /\ IF KeepGoing
       THEN /\ phase' = "data" /\ failed' = TRUE
            /\ UNCHANGED <<sent, index, verdicts>>
       ELSE GiveUp

WriteData ==
    /\ phase = "data"
    /\ ReceiveBytes(chunks[index].offset, chunks[index].size)
    /\ Advance(failed)

(* write_bulk returns the number of bytes that went out before the timeout;
   no caller compares it with the length.  A write stops between two USB
   packets of 1024 bytes, never at the length of a command.                 *)
ShortData ==
    /\ ShortWrites
    /\ phase = "data"
    /\ \E n \in (1 .. chunks[index].size - 1) \ {CommandSize} :
          ReceiveBytes(chunks[index].offset, n)
    /\ Advance(failed)

DataFails ==
    /\ phase = "data"
    /\ \/ ReceiveBytes(chunks[index].offset, chunks[index].size)
       \/ UNCHANGED receiver
    /\ IF KeepGoing THEN Advance(TRUE) ELSE GiveUp

Next ==
    /\ \/ Begin \/ WriteCommand \/ CommandFails
       \/ WriteData \/ ShortData \/ DataFails
    /\ UNCHANGED flavour

Spec == Init /\ [][Next]_vars

-----------------------------------------------------------------------------
(* Assembly a is exactly payload number n.                                  *)
IsPayload(a, n) ==
    /\ DOMAIN a = 0 .. sent[n].total - 1
    /\ \A o \in DOMAIN a : a[o] = <<n, o>>

(* What the reassembler lists as a complete transfer is one payload, every
   byte of it in its place: no hole, no byte of another payload, even after
   a failed write left a transfer unfinished under the same key.            *)
CompletedAreWhole ==
    flavour = "userspace" =>
    \A k \in DOMAIN complete : \E n \in DOMAIN sent : IsPayload(complete[k], n)

(* A payload the sender reports as sent is listed, and listed once: the flag
   that ends a transfer is raised by its last fragment and by no other.  In
   the kernel this is promised to a frame none of whose writes failed,
   whatever the frames before it left behind.                               *)
SentArrivesOnce ==
    flavour # "timeouts" =>
    \A n \in DOMAIN verdicts :
        verdicts[n] = "ok" =>
            \E k \in DOMAIN complete :
                /\ IsPayload(complete[k], n)
                /\ \A j \in DOMAIN complete :
                      IsPayload(complete[j], n) => j = k

(* Even when a write that timed out is taken for a whole one, a listed
   transfer never mixes two payloads, and its bytes are in their places.    *)
NoMixing ==
    flavour = "timeouts" =>
    \A k \in DOMAIN complete : \E n \in DOMAIN sent :
        \A o \in DOMAIN complete[k] : complete[k][o] \in {Hole, <<n, o>>}

=============================================================================
