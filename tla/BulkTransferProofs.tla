------------------------- MODULE BulkTransferProofs -------------------------
(***************************************************************************)
(* What holds of the cutting and the reassembly of payloads for every      *)
(* length, packet size and number of payloads; and, at the end, of the     *)
(* Linux driver that sends such payloads (Trigger6Driver).                 *)
(***************************************************************************)
EXTENDS BulkTransfer, Trigger6Driver, SequenceTheorems, WellFoundedInduction, TLAPS

-----------------------------------------------------------------------------
(* Arithmetic.                                                              *)

LEMMA Division ==
    ASSUME NEW a \in Nat, NEW b \in Nat \ {0}
    PROVE  /\ a \div b \in Nat /\ a % b \in 0 .. b - 1
           /\ a = b * (a \div b) + (a % b)
  OBVIOUS

LEMMA Monotone ==
    ASSUME NEW b \in Nat, NEW i \in Nat, NEW j \in Nat, i <= j
    PROVE  b * i <= b * j
  <1>1. PICK k \in Nat : j = i + k  BY SMT
  <1>2. b * j = b * i + b * k  BY <1>1, SMT
  <1>3. b * k \in Nat /\ b * i \in Nat  BY <1>1, SMT
  <1> QED BY <1>2, <1>3, SMT

(* A payload is cut into as many fragments as it takes.                     *)
LEMMA CountBounds ==
    ASSUME NEW len \in Nat \ {0}, NEW max \in Nat \ {0}
    PROVE  LET n == fragment_count(len, max) IN
           /\ n \in Nat \ {0}
           /\ max * (n - 1) < len
           /\ len <= max * n
  <1> DEFINE q == len \div max
             r == len % max
             n == fragment_count(len, max)
  <1>1. q \in Nat /\ r \in 0 .. max - 1 /\ len = max * q + r
    BY Division
  <1>2. n = q + (IF r > 0 THEN 1 ELSE 0)
    BY DEF fragment_count
  <1> HIDE DEF q, r, n
  <1>3. CASE r > 0
    <2>1. n = q + 1 /\ max * n = max * q + max  BY <1>1, <1>2, <1>3, SMT
    <2>2. max * q \in Nat /\ n - 1 = q  BY <1>1, <2>1, SMT
    <2>3. max * (n - 1) = max * q  BY <2>2
    <2> QED BY <1>1, <1>3, <2>1, <2>2, <2>3, SMT DEF n
  <1>4. CASE ~(r > 0)
    <2>1. n = q /\ r = 0 /\ len = max * n /\ max * n \in Nat
      BY <1>1, <1>2, <1>4, SMT
    <2>2. n # 0  BY <2>1, SMT
    <2>3. max * (n - 1) = max * n - max  BY <1>1, <2>1, <2>2, SMT
    <2> QED BY <1>1, <2>1, <2>2, <2>3, SMT DEF n
  <1> QED BY <1>3, <1>4

(* The fragments of a payload, for every length a u32 can hold and every
   packet size: they are not empty, fit a packet, follow one another without
   gap or overlap from the first byte to the last, and only the last one
   says that there are no more.                                             *)
THEOREM FragmentsCover ==
    ASSUME NEW len \in Nat \ {0}, NEW max \in Nat \ {0}, len < Modulus
    PROVE  LET n == fragment_count(len, max)
               f == fragments(len, max)
           IN  /\ n \in Nat \ {0}
               /\ DOMAIN f = 0 .. n - 1
               /\ \A i \in 0 .. n - 1 :
                     /\ f[i].offset = max * i
                     /\ f[i].offset \in Nat
                     /\ f[i].size \in 1 .. max
                     /\ f[i].offset + f[i].size <= len
                     /\ f[i].more = (i < n - 1)
                     /\ f[i].more => f[i + 1].offset = f[i].offset + f[i].size
                     /\ ~f[i].more => f[i].offset + f[i].size = len
  <1> DEFINE n == fragment_count(len, max)
             f == fragments(len, max)
  <1>1. n \in Nat \ {0} /\ max * (n - 1) < len /\ len <= max * n
    BY CountBounds
  <1>2. DOMAIN f = 0 .. n - 1
    BY DEF fragments
  <1>3. ASSUME NEW i \in 0 .. n - 1
        PROVE  /\ f[i].offset = max * i
               /\ f[i].offset \in Nat
               /\ f[i].size \in 1 .. max
               /\ f[i].offset + f[i].size <= len
               /\ f[i].more = (i < n - 1)
               /\ f[i].more => f[i + 1].offset = f[i].offset + f[i].size
               /\ ~f[i].more => f[i].offset + f[i].size = len
    <2> DEFINE o == fragment_offset(max, i)
               s == fragment_size(len, max, i)
    <2>1. /\ f[i].offset = o /\ f[i].size = s
          /\ f[i].more = ((o + s) % Modulus < len)
      BY DEF fragments
    <2> HIDE DEF n
    <2>2. max * i <= max * (n - 1) /\ max * i \in Nat
      <3>1. i \in Nat /\ n - 1 \in Nat /\ i <= n - 1  BY <1>1, SMT
      <3>2. max * i \in Nat  BY <3>1, SMT
      <3> QED BY <3>1, <3>2, Monotone
    <2>3. max * i < len /\ max * (n - 1) \in Nat
      BY <1>1, <2>2, SMT
    <2>4. o = max * i
      BY <2>2, <2>3, ModulusAssumption, SMT DEF fragment_offset
    <2>5. s = IF len - o < max THEN len - o ELSE max
      BY <2>2, <2>3, <2>4 DEF fragment_size
    <2>6. s \in 1 .. max /\ o \in Nat /\ o + s <= len
      BY <2>2, <2>3, <2>4, <2>5, SMT
    <2>7. (o + s) % Modulus = o + s
      BY <2>6, ModulusAssumption, SMT
    <2>8. CASE i < n - 1
      <3>1. i + 1 \in 0 .. n - 1 /\ i + 1 \in Nat  BY <1>1, <2>8, SMT
      <3>2. max * (i + 1) <= max * (n - 1) /\ max * (i + 1) \in Nat
        <4>1. i + 1 <= n - 1 /\ n - 1 \in Nat  BY <1>1, <3>1, SMT
        <4>2. max * (i + 1) \in Nat  BY <3>1, SMT
        <4> QED BY <3>1, <4>1, <4>2, Monotone
      <3>3. max * (i + 1) = max * i + max  BY <1>1, SMT
      <3>4. max * (i + 1) < len  BY <1>1, <2>3, <3>2, SMT
      <3>5. s = max  BY <2>2, <2>4, <2>5, <3>3, <3>4, SMT
      <3>6. o + s < len  BY <2>4, <3>3, <3>4, <3>5
      <3>7. f[i + 1].offset = fragment_offset(max, i + 1)
        BY <3>1, <1>2 DEF fragments, n
      <3>8. fragment_offset(max, i + 1) = max * (i + 1)
        BY <3>2, <3>4, ModulusAssumption, SMT DEF fragment_offset
      <3> HIDE DEF o, s, f
      <3> QED BY <2>1, <2>2, <2>4, <2>6, <2>7, <2>8, <3>3, <3>5, <3>6, <3>7, <3>8
    <2>9. CASE ~(i < n - 1)
      <3>1. i = n - 1 /\ i + 1 = n  BY <1>1, <2>9, SMT
      <3>2. max * n = max * i + max  BY <1>1, <3>1, SMT
      <3>3. o + s = len  BY <1>1, <2>2, <2>3, <2>4, <2>5, <3>2, SMT
      <3>4. ~((o + s) % Modulus < len)  BY <2>7, <3>3, SMT
      <3>5. f[i].more = FALSE /\ (i < n - 1) = FALSE
        <4>1. f[i].more = ((o + s) % Modulus < len)  BY <2>1
        <4> HIDE DEF o, s, f
        <4>2. ((o + s) % Modulus < len) = FALSE  BY <3>4
        <4>3. f[i].more = FALSE  BY <4>1, <4>2, Zenon
        <4>4. (i < n - 1) = FALSE  BY <2>9
        <4> QED BY <4>3, <4>4, Zenon
      <3> HIDE DEF o, s, f
      <3>6. f[i].offset + f[i].size = len  BY <2>1, <3>3
      <3>7. f[i].offset = max * i /\ f[i].offset \in Nat /\ f[i].size \in 1 .. max
        BY <2>1, <2>2, <2>4, <2>6
      <3>8. f[i].offset + f[i].size <= len  BY <3>6, SMT
      <3> QED BY <3>5, <3>6, <3>7, <3>8
    <2> QED BY <2>8, <2>9
  <1> QED BY <1>1, <1>2, <1>3

(* The C library and the kernel driver cut a payload exactly as the Rust
   library does, as long as the rounding of the count stays within a u32.   *)
THEOREM FlavoursAgree ==
    ASSUME NEW len \in Nat \ {0}, NEW max \in Nat \ {0}, len + max <= Modulus
    PROVE  /\ t6_fragments(len, max) = fragments(len, max)
           /\ kernel_fragments(len, max) = fragments(len, max)
  <1> DEFINE n == fragment_count(len, max)
             f == fragments(len, max)
  <1>1. len < Modulus  BY ModulusAssumption, SMT
  <1>2. n \in Nat \ {0} /\ max * (n - 1) < len /\ len <= max * n
    BY CountBounds
  <1>3. (len + max - 1) \div max = n
    <2> HIDE DEF n
    <2> DEFINE s == len + max - 1
               q == s \div max
    <2>0. s \in Nat  BY SMT
    <2>1. s \in Nat /\ q \in Nat /\ s % max \in 0 .. max - 1
          /\ s = max * q + (s % max)
      <3> HIDE DEF s
      <3> QED BY <2>0, Division
    <2>2. max * (n - 1) = max * n - max /\ max * n \in Nat /\ max * q \in Nat
      BY <1>2, <2>1, SMT
    <2>3. max * q + max > s /\ max * q <= s
      <3> HIDE DEF s, q
      <3> QED BY <2>1, <2>2, SMT
    <2>4. max * n <= s /\ s < max * n + max
      BY <1>2, <2>2, SMT
    <2> HIDE DEF q
    <2>5. CASE q < n
      <3>1. max * (q + 1) = max * q + max  BY <2>1, SMT
      <3>2. q + 1 \in Nat /\ q + 1 <= n  BY <1>2, <2>1, <2>5, SMT
      <3>3. max * (q + 1) <= max * n  BY <1>2, <3>2, Monotone
      <3> QED BY <2>1, <2>2, <2>3, <2>4, <3>1, <3>3, SMT
    <2>6. CASE n < q
      <3>1. max * (n + 1) = max * n + max  BY <1>2, SMT
      <3>2. n + 1 \in Nat /\ n + 1 <= q  BY <1>2, <2>1, <2>6, SMT
      <3>3. max * (n + 1) <= max * q  BY <2>1, <3>2, Monotone
      <3> QED BY <2>1, <2>2, <2>3, <2>4, <3>1, <3>3, SMT
    <2>7. q = n  BY <1>2, <2>1, <2>5, <2>6, SMT
    <2> QED BY <2>7 DEF q
  <1>4. blocks(len, max) = n
    BY <1>3 DEF blocks
  <1>5. t6_fragment_count(len, max) = n
    <2>1. len + max - 1 \in 0 .. Modulus - 1  BY ModulusAssumption, SMT
    <2>2. (len + max - 1) % Modulus = len + max - 1
      BY <2>1, ModulusAssumption, SMT
    <2> QED BY <1>3, <2>2 DEF t6_fragment_count
  <1>6. \A i \in 0 .. n - 1 :
           /\ f[i].offset = max * i /\ f[i].offset \in Nat
           /\ f[i].size \in 1 .. max /\ f[i].offset + f[i].size <= len
           /\ f[i].more = (i < n - 1)
           /\ f[i].more => f[i + 1].offset = f[i].offset + f[i].size
           /\ ~f[i].more => f[i].offset + f[i].size = len
    BY <1>1, FragmentsCover
  <1>7. f = [i \in 0 .. n - 1 |->
               [offset |-> fragment_offset(max, i),
                size   |-> fragment_size(len, max, i),
                more   |-> (fragment_offset(max, i) + fragment_size(len, max, i))
                              % Modulus < len]]
    BY DEF fragments
  <1>8. t6_fragments(len, max) = f
    <2>1. \A i \in 0 .. n - 1 : fragment_size(len, max, i) # 0
      <3> SUFFICES ASSUME NEW i \in 0 .. n - 1
                   PROVE  fragment_size(len, max, i) # 0
        OBVIOUS
      <3>1. f[i].size = fragment_size(len, max, i)  BY <1>7
      <3> QED BY <1>6, <3>1, SMT
    <2> DEFINE m(i) == (fragment_offset(max, i) + fragment_size(len, max, i))
                          % Modulus < len
               g == [i \in 0 .. n - 1 |->
                       [offset |-> fragment_offset(max, i),
                        size   |-> fragment_size(len, max, i),
                        more   |-> fragment_size(len, max, i) # 0 /\ m(i)]]
    <2>2. t6_fragments(len, max) = g
      BY <1>5 DEF t6_fragments
    <2>3. ASSUME NEW i \in 0 .. n - 1 PROVE g[i] = f[i]
      <3>1. (fragment_size(len, max, i) # 0 /\ m(i)) = m(i)
        BY <2>1
      <3> HIDE DEF n, m
      <3>2. g[i] = [offset |-> fragment_offset(max, i),
                    size   |-> fragment_size(len, max, i),
                    more   |-> fragment_size(len, max, i) # 0 /\ m(i)]
        OBVIOUS
      <3>3. f[i] = [offset |-> fragment_offset(max, i),
                    size   |-> fragment_size(len, max, i), more |-> m(i)]
        BY <1>7 DEF m
      <3> QED BY <3>1, <3>2, <3>3, Zenon
    <2>4. f = [i \in 0 .. n - 1 |-> f[i]] /\ g = [i \in 0 .. n - 1 |-> g[i]]
      BY <1>7
    <2> HIDE DEF f, g, n
    <2> QED BY <2>2, <2>3, <2>4, Zenon
  <1>9. kernel_fragments(len, max) = f
    <2> HIDE DEF n, f
    <2>1. ASSUME NEW i \in 0 .. n - 1
          PROVE  /\ i * max = f[i].offset
                 /\ block_end(len, max, i) - i * max = f[i].size
                 /\ (i + 1 < n) = f[i].more
      <3>1. i * max = max * i /\ max * i \in Nat  BY <1>2, SMT
      <3>2. (i + 1) * max = max * i + max  BY <1>2, SMT
      <3>3. f[i].offset = i * max /\ f[i].offset \in Nat  BY <1>6, <3>1
      <3>4. (i + 1 < n) = (i < n - 1)  BY <1>2, SMT
      <3>5. (i + 1 < n) = f[i].more  BY <1>6, <3>4
      <3>6. CASE f[i].more
        <4>1. f[i + 1].offset = max * (i + 1) /\ f[i+1].size \in 1 .. max
              /\ f[i + 1].offset + f[i + 1].size <= len
          <5>0. i + 1 < n  BY <3>5, <3>6, Zenon
          <5>1. i + 1 \in 0 .. n - 1  BY <1>2, <5>0, SMT
          <5> QED BY <1>6, <5>1
        <4>2. max * (i + 1) = max * i + max  BY <1>2, SMT
        <4>3. f[i].size = max
          BY <1>6, <3>1, <3>3, <3>6, <4>1, <4>2, SMT
        <4>4. (i + 1) * max < len
          BY <3>1, <3>2, <4>1, <4>2, SMT
        <4>5. block_end(len, max, i) = max * i + max
          BY <3>2, <4>4 DEF block_end
        <4>6. block_end(len, max, i) - i * max = max
          BY <3>1, <4>5, SMT
        <4> QED BY <3>3, <3>5, <4>3, <4>6
      <3>7. CASE ~f[i].more
        <4>1. f[i].offset + f[i].size = len /\ f[i].size \in 1 .. max
          BY <1>6, <3>7
        <4>2. ~((i + 1) * max < len)
          BY <3>1, <3>2, <3>3, <4>1, SMT
        <4>3. block_end(len, max, i) = len
          BY <4>2 DEF block_end
        <4>4. block_end(len, max, i) - i * max = f[i].size
          BY <3>1, <3>3, <4>1, <4>3, SMT
        <4> QED BY <3>3, <3>5, <4>4
      <3> QED BY <3>6, <3>7
    <2>2. kernel_fragments(len, max)
            = [i \in 0 .. n - 1 |-> [offset |-> f[i].offset,
                                    size |-> f[i].size, more |-> f[i].more]]
      BY <1>4, <2>1, Zenon DEF kernel_fragments
    <2>3. f = [i \in 0 .. n - 1 |-> [offset |-> f[i].offset,
                                    size |-> f[i].size, more |-> f[i].more]]
      BY <1>7
    <2> QED BY <2>2, <2>3
  <1> QED BY <1>8, <1>9

-----------------------------------------------------------------------------
(* The reassembly of what user space sends.                                 *)

(* No fragment has the length of a command.                                 *)
NoCommandTail ==
    \A p \in Payloads :
        LET f == fragments(p.total, MaxPacket)
        IN  \A i \in DOMAIN f : f[i].size # CommandSize

(* The sender is user space's and every write it believes in was whole.     *)
UserSpace == flavour = "userspace" /\ NoCommandTail

(* The assembly of payload m after its first k bytes.                       *)
Prefix(m, total, k) == [o \in 0 .. total - 1 |-> IF o < k THEN <<m, o>> ELSE Hole]

Assemblies == {Prefix(m, t, t) : m \in Nat, t \in Nat \ {0}}

Types ==
    /\ sent \in Seq(Payloads) /\ index \in Nat
    /\ phase \in {"none", "command", "data"}
    /\ phase # "none" => Len(sent) > 0 /\ index \in DOMAIN chunks
    /\ complete \in Seq(Assemblies)
    /\ verdicts \in Seq({"ok", "error"})
    /\ Len(verdicts) = IF phase = "none" THEN Len(sent) ELSE Len(sent) - 1

(* What has been written of the current payload is what has been put
   together of it, and the command on the other side is the current one.    *)
InStep ==
    /\ phase = "data" => pending_command = Command
    /\ phase # "none" /\ index > 0 =>
          LET key == [dest |-> payload.dest, total |-> payload.total] IN
          /\ key \in DOMAIN assemblies
          /\ assemblies[key] = Prefix(Len(sent), payload.total,
                                      chunks[index].offset)

(* Every listed transfer is one payload, of which it is the only one.       *)
Listed ==
    /\ \A k \in DOMAIN complete : \E m \in DOMAIN sent : IsPayload(complete[k], m)
    /\ \A j, k \in DOMAIN complete : \A m \in DOMAIN sent :
          IsPayload(complete[j], m) /\ IsPayload(complete[k], m) => j = k
    /\ phase # "none" =>
          \A k \in DOMAIN complete : ~IsPayload(complete[k], Len(sent))
    /\ \A m \in DOMAIN verdicts : verdicts[m] = "ok" =>
          \E k \in DOMAIN complete : IsPayload(complete[k], m)

BulkInv == Types /\ InStep /\ Listed

-----------------------------------------------------------------------------
(* The payload being written, and its fragments.                            *)
LEMMA Current ==
    ASSUME UserSpace, Types, phase # "none"
    PROVE  /\ payload \in Payloads
           /\ payload.dest \in Nat /\ payload.total \in Nat \ {0}
           /\ payload.total < Modulus
           /\ chunks = fragments(payload.total, MaxPacket)
           /\ \A i \in DOMAIN chunks :
                 /\ i \in Nat
                 /\ chunks[i].offset \in Nat /\ chunks[i].size \in Nat \ {0}
                 /\ chunks[i].offset = 0 <=> i = 0
                 /\ chunks[i].size # CommandSize
                 /\ chunks[i].offset + chunks[i].size <= payload.total
                 /\ chunks[i].more \in BOOLEAN
                 /\ chunks[i].more <=> i + 1 \in DOMAIN chunks
                 /\ chunks[i].more =>
                       chunks[i + 1].offset = chunks[i].offset + chunks[i].size
                 /\ ~chunks[i].more =>
                       chunks[i].offset + chunks[i].size = payload.total
  <1>1. payload \in Payloads
    BY DEF Types, payload
  <1>2. /\ payload.dest \in Nat /\ payload.total \in Nat \ {0}
        /\ payload.total < Modulus
    BY <1>1, BulkAssumption
  <1>3. chunks = fragments(payload.total, MaxPacket)
    BY DEF chunks, UserSpace, KeepGoing
  <1> DEFINE len == payload.total
             f   == fragments(len, MaxPacket)
             n   == fragment_count(len, MaxPacket)
  <1>4. MaxPacket \in Nat \ {0}  BY BulkAssumption
  <1>5. n \in Nat \ {0} /\ DOMAIN f = 0 .. n - 1
        /\ \A i \in 0 .. n - 1 :
              /\ f[i].offset = MaxPacket * i /\ f[i].offset \in Nat
              /\ f[i].size \in 1 .. MaxPacket
              /\ f[i].offset + f[i].size <= len
              /\ f[i].more = (i < n - 1)
              /\ f[i].more => f[i + 1].offset = f[i].offset + f[i].size
              /\ ~f[i].more => f[i].offset + f[i].size = len
    <2> HIDE DEF len
    <2>1. len \in Nat \ {0} /\ len < Modulus  BY <1>2 DEF len
    <2> QED BY <1>4, <2>1, FragmentsCover
  <1>6. \A i \in DOMAIN f : f[i].size # CommandSize
    BY <1>1 DEF UserSpace, NoCommandTail
  <1>7. ASSUME NEW i \in DOMAIN f
        PROVE  /\ i \in Nat /\ f[i].size \in Nat \ {0}
               /\ f[i].offset = 0 <=> i = 0
               /\ f[i].more \in BOOLEAN /\ (f[i].more <=> i + 1 \in DOMAIN f)
    <2> HIDE DEF len, f, n
    <2>1. i \in 0 .. n - 1 /\ i \in Nat  BY <1>5
    <2>2. f[i].offset = MaxPacket * i /\ f[i].size \in 1 .. MaxPacket  BY <1>5, <2>1
    <2>3. MaxPacket * i = 0 <=> i = 0  BY <1>4, <2>1, SMT
    <2>4. f[i].more = (i < n - 1)  BY <1>5, <2>1
    <2>5. i < n - 1 <=> i + 1 \in DOMAIN f  BY <1>5, <2>1, SMT
    <2>6. (i < n - 1) \in BOOLEAN  OBVIOUS
    <2>7. f[i].more \in BOOLEAN  BY <2>4, <2>6, Zenon
    <2>8. f[i].more <=> i + 1 \in DOMAIN f  BY <2>4, <2>5, Zenon
    <2> QED BY <1>4, <2>1, <2>2, <2>3, <2>7, <2>8
  <1> HIDE DEF f, n
  <1> QED BY <1>1, <1>2, <1>3, <1>5, <1>6, <1>7 DEF f

(* The bytes of a fragment, received after its command, extend the assembly
   by just that fragment, and the last fragment completes it.               *)
LEMMA FragmentReceived ==
    ASSUME UserSpace, Types, InStep, phase = "data",
           ReceiveBytes(chunks[index].offset, chunks[index].size)
    PROVE  LET key == [dest |-> payload.dest, total |-> payload.total] IN
           /\ pending_command' = None
           /\ IF index + 1 \in DOMAIN chunks
              THEN /\ complete' = complete
                   /\ key \in DOMAIN assemblies'
                   /\ assemblies'[key] = Prefix(Len(sent), payload.total,
                                                chunks[index + 1].offset)
              ELSE complete' = Append(complete, Prefix(Len(sent), payload.total,
                                                       payload.total))
  <1> DEFINE off == chunks[index].offset
             siz == chunks[index].size
             tot == payload.total
             m   == Len(sent)
             key == [dest |-> payload.dest, total |-> tot]
             c   == Command
             a   == Assembly(c)
             b   == Added(a, c, off, siz)
  <1>0. index \in DOMAIN chunks /\ m \in Nat \ {0}
    BY DEF Types
  <1>1. /\ tot \in Nat \ {0} /\ off \in Nat /\ siz \in Nat \ {0}
        /\ off = 0 <=> index = 0
        /\ siz # CommandSize /\ off + siz <= tot
        /\ chunks[index].more \in BOOLEAN
        /\ chunks[index].more <=> index + 1 \in DOMAIN chunks
        /\ chunks[index].more => chunks[index + 1].offset = off + siz
        /\ ~chunks[index].more => off + siz = tot
    BY <1>0, Current
  <1>2. /\ c.kind = "command" /\ c.dest = payload.dest /\ c.total_len = tot
        /\ c.fragment_offset = off /\ (c.more_fragments = 0 <=> ~chunks[index].more)
        /\ Key(c) = key
    BY <1>1 DEF Command, parse_bulk_command, to_bytes, Key, PACKET_FLAG_NONE,
                PACKET_FLAG_CONTINUE_TO_SEND
  <1>3. pending_command = c /\ c # None /\ c # Unread
    BY <1>2 DEF InStep, None, Unread
  <1>4. ReceiveFragment(c, off, siz)
    BY <1>1, <1>3 DEF ReceiveBytes
  <1>5. a = Prefix(m, tot, off)
    <2>1. CASE off = 0
      <3>1. a = Fresh(c)  BY <1>2, <2>1 DEF Assembly
      <3>2. Fresh(c) = [o \in 0 .. tot - 1 |-> Hole]  BY <1>2 DEF Fresh
      <3>3. \A o \in 0 .. tot - 1 : ~(o < 0)  BY <1>1, SMT
      <3> QED BY <2>1, <3>1, <3>2, <3>3 DEF Prefix
    <2>2. CASE off # 0
      <3>1. index > 0  BY <1>1, <2>2 DEF Types
      <3>2. key \in DOMAIN assemblies /\ assemblies[key] = Prefix(m, tot, off)
        BY <3>1 DEF InStep
      <3> QED BY <1>2, <2>2, <3>2 DEF Assembly
    <2> QED BY <2>1, <2>2
  <1>6. b = Prefix(m, tot, off + siz)
    <2> HIDE DEF off, siz, tot, m, c, a
    <2>1. DOMAIN a = 0 .. tot - 1
          /\ \A o \in 0 .. tot - 1 : a[o] = IF o < off THEN <<m, o>> ELSE Hole
      BY <1>5 DEF Prefix
    <2>2. b = [o \in 0 .. tot - 1 |-> IF o \in off .. off + siz - 1
                                      THEN <<m, off + o - off>> ELSE a[o]]
      BY <1>2, <2>1 DEF Added, m
    <2>3. \A o \in 0 .. tot - 1 :
             (IF o \in off .. off + siz - 1 THEN <<m, off + o - off>> ELSE a[o])
               = (IF o < off + siz THEN <<m, o>> ELSE Hole)
      <3> TAKE o \in 0 .. tot - 1
      <3>1. CASE o < off
        BY <1>1, <2>1, <3>1, SMT
      <3>2. CASE o >= off /\ o < off + siz
        <4>1. off + o - off = o /\ o \in off .. off + siz - 1  BY <1>1, <3>2, SMT
        <4> QED BY <3>2, <4>1
      <3>3. CASE o >= off + siz
        BY <1>1, <2>1, <3>3, SMT
      <3> QED BY <1>1, <3>1, <3>2, <3>3, SMT
    <2> HIDE DEF b
    <2> QED BY <2>2, <2>3 DEF Prefix
  <1>7. Received(b) <=> off + siz = tot
    <2> HIDE DEF off, siz, tot, m, c, a, b
    <2>1. DOMAIN b = 0 .. tot - 1
          /\ \A o \in 0 .. tot - 1 : b[o] = IF o < off + siz THEN <<m, o>> ELSE Hole
      BY <1>6 DEF Prefix
    <2>2. \A o : <<m, o>> # Hole  BY <1>0 DEF Hole, m
    <2>3. CASE off + siz = tot
      BY <1>1, <2>1, <2>2, <2>3 DEF Received
    <2>4. CASE off + siz # tot
      <3>1. tot - 1 \in 0 .. tot - 1 /\ ~(tot - 1 < off + siz)  BY <1>1, <2>4, SMT
      <3> QED BY <2>1, <2>4, <3>1 DEF Received
    <2> QED BY <2>3, <2>4
  <1>8. /\ pending_command' = None
        /\ IF ~chunks[index].more \/ off + siz = tot
           THEN complete' = Append(complete, b)
           ELSE complete' = complete /\ assemblies' = Put(key, b)
    <2>1. ~(c.fragment_offset + siz > c.total_len)  BY <1>1, <1>2
    <2> HIDE DEF off, siz, tot, m, key, c
    <2> QED BY <1>2, <1>4, <1>7, <2>1 DEF ReceiveFragment
  <1> HIDE DEF off, siz, tot, m, key, c, a, b
  <1>9. CASE index + 1 \in DOMAIN chunks
    <2>1. chunks[index].more /\ chunks[index + 1].offset = off + siz
      BY <1>1, <1>9
    <2>2. off + siz < tot
      <3>1. index + 1 \in Nat /\ chunks[index + 1].size \in Nat \ {0}
            /\ chunks[index + 1].offset + chunks[index + 1].size <= tot
        BY <1>9, Current DEF tot
      <3> QED BY <1>1, <2>1, <3>1, SMT
    <2>3. complete' = complete /\ assemblies' = Put(key, b)
      BY <1>1, <1>8, <2>1, <2>2, SMT
    <2>4. key \in DOMAIN assemblies' /\ assemblies'[key] = b
      BY <2>3 DEF Put
    <2> QED BY <1>6, <1>8, <1>9, <2>1, <2>3, <2>4 DEF key, tot, m
  <1>10. CASE index + 1 \notin DOMAIN chunks
    <2>1. off + siz = tot  BY <1>1, <1>10
    <2>2. complete' = Append(complete, b)  BY <1>8, <2>1
    <2> QED BY <1>6, <1>8, <1>10, <2>1, <2>2 DEF tot, m
  <1> QED BY <1>9, <1>10

(* A transfer is the payload of one number only.                            *)
LEMMA OneOwner ==
    ASSUME Types, NEW j \in DOMAIN sent, NEW l \in Nat, NEW a,
           IsPayload(a, j), DOMAIN a = 0 .. sent[j].total - 1,
           \A o \in DOMAIN a : a[o] = <<l, o>>
    PROVE  l = j
  <1>1. sent[j] \in Payloads  BY DEF Types
  <1>2. sent[j].total \in Nat \ {0}  BY <1>1, BulkAssumption
  <1>3. 0 \in DOMAIN a  BY <1>2
  <1>4. a[0] = <<j, 0>> /\ a[0] = <<l, 0>>  BY <1>3 DEF IsPayload
  <1> QED BY <1>4

LEMMA InvInit == Init => BulkInv
  BY DEF Init, BulkInv, Types, InStep, Listed, IsPayload

LEMMA InvBegin ==
    ASSUME UserSpace, BulkInv, Begin, UNCHANGED flavour PROVE BulkInv'
  <1>1. PICK p \in Payloads : sent' = Append(sent, p)  BY DEF Begin
  <1>2. /\ sent \in Seq(Payloads) /\ sent' \in Seq(Payloads)
        /\ Len(sent') = Len(sent) + 1 /\ Len(sent) \in Nat
        /\ sent'[Len(sent')] = p
        /\ DOMAIN sent = 1 .. Len(sent) /\ DOMAIN sent' = 1 .. Len(sent) + 1
        /\ \A m \in DOMAIN sent : sent'[m] = sent[m]
    BY <1>1 DEF BulkInv, Types
  <1>3. /\ phase = "none" /\ phase' = "command" /\ index' = 0
        /\ verdicts' = verdicts /\ complete' = complete
    BY DEF Begin, receiver
  <1>4. 0 \in DOMAIN chunks'
    <2>1. payload' = p  BY <1>2 DEF payload
    <2>2. p.total \in Nat \ {0} /\ p.total < Modulus /\ MaxPacket \in Nat \ {0}
      BY BulkAssumption
    <2>3. chunks' = fragments(p.total, MaxPacket)  BY <2>1 DEF chunks, UserSpace, KeepGoing
    <2>4. fragment_count(p.total, MaxPacket) \in Nat \ {0}  BY <2>2, CountBounds
    <2>5. DOMAIN fragments(p.total, MaxPacket)
            = 0 .. fragment_count(p.total, MaxPacket) - 1
      BY DEF fragments
    <2> QED BY <2>3, <2>4, <2>5
  <1>5. Types'
    BY <1>2, <1>3, <1>4 DEF BulkInv, Types
  <1>6. InStep'
    BY <1>3 DEF InStep
  <1>7. ASSUME NEW m \in DOMAIN sent, NEW a PROVE IsPayload(a, m)' <=> IsPayload(a, m)
    BY <1>2 DEF IsPayload
  <1>8. \A k \in DOMAIN complete : ~IsPayload(complete[k], Len(sent))'
    <2> SUFFICES ASSUME NEW k \in DOMAIN complete,
                        IsPayload(complete[k], Len(sent))'
                 PROVE  FALSE
      BY <1>3
    <2>1. PICK m \in DOMAIN sent : IsPayload(complete[k], m)
      BY DEF BulkInv, Listed
    <2>2. \A o \in DOMAIN complete[k] : complete[k][o] = <<Len(sent'), o>>
      BY <1>3 DEF IsPayload
    <2>3. Len(sent') \in Nat  BY <1>2
    <2>4. DOMAIN complete[k] = 0 .. sent[m].total - 1  BY <2>1 DEF IsPayload
    <2>5. Len(sent') = m  BY <2>1, <2>2, <2>3, <2>4, OneOwner DEF BulkInv
    <2> QED BY <1>2, <2>5
  <1>9. Listed'
    <2>1. DOMAIN sent \subseteq DOMAIN sent'  BY <1>2
    <2>2. \A k \in DOMAIN complete : \E m \in DOMAIN sent : IsPayload(complete[k], m)
      BY DEF BulkInv, Listed
    <2>3. DOMAIN verdicts \subseteq DOMAIN sent
      BY <1>2, <1>3 DEF BulkInv, Types
    <2>4. ASSUME NEW m \in DOMAIN sent', m \notin DOMAIN sent PROVE m = Len(sent')
      BY <1>2, <2>4
    <2>5. (\A k \in DOMAIN complete : \E m \in DOMAIN sent : IsPayload(complete[k], m))'
      BY <1>3, <1>7, <2>1, <2>2
    <2>6. (\A j, k \in DOMAIN complete : \A m \in DOMAIN sent :
             IsPayload(complete[j], m) /\ IsPayload(complete[k], m) => j = k)'
      <3> SUFFICES ASSUME NEW j \in DOMAIN complete, NEW k \in DOMAIN complete,
                          NEW m \in DOMAIN sent',
                          IsPayload(complete[j], m)', IsPayload(complete[k], m)'
                   PROVE  j = k
        BY <1>3
      <3>1. m \in DOMAIN sent  BY <1>3, <1>8, <2>4
      <3>2. IsPayload(complete[j], m) /\ IsPayload(complete[k], m)
        BY <1>3, <1>7, <3>1
      <3> QED BY <3>1, <3>2 DEF BulkInv, Listed
    <2>7. (\A m \in DOMAIN verdicts : verdicts[m] = "ok" =>
             \E k \in DOMAIN complete : IsPayload(complete[k], m))'
      BY <1>3, <1>7, <2>3 DEF BulkInv, Listed
    <2> QED BY <1>3, <1>8, <2>5, <2>6, <2>7 DEF Listed
  <1> QED BY <1>5, <1>6, <1>9 DEF BulkInv

LEMMA InvWriteCommand ==
    ASSUME UserSpace, BulkInv, WriteCommand, UNCHANGED flavour PROVE BulkInv'
  <1>1. /\ phase = "command" /\ phase' = "data" /\ UNCHANGED <<sent, index, verdicts>>
        /\ pending_command' = Command /\ UNCHANGED <<assemblies, complete>>
    BY DEF WriteCommand, ReceiveCommand
  <1>2. payload' = payload /\ chunks' = chunks
    BY <1>1 DEF payload, chunks, KeepGoing
  <1>3. Command' = Command  BY <1>1, <1>2 DEF Command
  <1>4. Types'  BY <1>1, <1>2 DEF BulkInv, Types
  <1>5. InStep'  BY <1>1, <1>2, <1>3 DEF BulkInv, InStep
  <1>6. Listed'  BY <1>1 DEF BulkInv, Listed, IsPayload
  <1> QED BY <1>4, <1>5, <1>6 DEF BulkInv

(* A transfer that is given up, whatever was received of it last, leaves at
   most its own payload behind.                                             *)
LEMMA Ended ==
    ASSUME UserSpace, BulkInv, UNCHANGED flavour, phase # "none", phase' = "none",
           sent' = sent, index' = index, NEW v \in {"ok", "error"},
           verdicts' = Append(verdicts, v),
           \/ complete' = complete /\ v = "error"
           \/ complete' = Append(complete, Prefix(Len(sent), payload.total,
                                                  payload.total))
    PROVE  BulkInv'
  <1> DEFINE w == Prefix(Len(sent), payload.total, payload.total)
  <1>1. /\ Len(sent) \in Nat \ {0} /\ Len(sent) \in DOMAIN sent
        /\ payload = sent[Len(sent)] /\ payload.total \in Nat \ {0}
        /\ complete \in Seq(Assemblies) /\ verdicts \in Seq({"ok", "error"})
        /\ Len(verdicts) = Len(sent) - 1
    BY Current DEF BulkInv, Types, payload
  <1>2. w \in Assemblies  BY <1>1 DEF Assemblies
  <1>3. IsPayload(w, Len(sent))  BY <1>1 DEF IsPayload, Prefix
  <1> HIDE DEF w
  <1>4. /\ verdicts' \in Seq({"ok", "error"}) /\ Len(verdicts') = Len(sent)
        /\ DOMAIN verdicts' = DOMAIN verdicts \cup {Len(sent)}
        /\ verdicts'[Len(sent)] = v
        /\ \A m \in DOMAIN verdicts : verdicts'[m] = verdicts[m]
    BY <1>1
  <1>5. complete' \in Seq(Assemblies)
    <2>1. complete' = complete \/ complete' = Append(complete, w)  BY DEF w
    <2> QED BY <1>1, <1>2, <2>1
  <1>6. Types'  BY <1>4, <1>5 DEF BulkInv, Types
  <1>7. InStep'  BY DEF InStep
  <1>8. \A a, m : IsPayload(a, m)' <=> IsPayload(a, m)  BY DEF IsPayload
  <1>9. CASE complete' = complete /\ v = "error"
    <2>1. Listed'
      BY <1>4, <1>8, <1>9 DEF BulkInv, Listed
    <2> QED BY <1>6, <1>7, <2>1 DEF BulkInv
  <1>10. CASE complete' = Append(complete, w)
    <2> DEFINE e == Len(complete) + 1
    <2>1. /\ DOMAIN complete' = DOMAIN complete \cup {e}
          /\ e \notin DOMAIN complete /\ complete'[e] = w
          /\ \A k \in DOMAIN complete : complete'[k] = complete[k]
      BY <1>1, <1>2, <1>10
    <2> HIDE DEF e
    <2>2. \A k \in DOMAIN complete : ~IsPayload(complete[k], Len(sent))
      BY DEF BulkInv, Listed
    <2>3. ASSUME NEW m \in DOMAIN sent, IsPayload(w, m) PROVE m = Len(sent)
      <3>1. DOMAIN w = 0 .. sent[m].total - 1
            /\ \A o \in DOMAIN w : w[o] = <<Len(sent), o>>
        BY <1>3, <2>3 DEF IsPayload
      <3> QED BY <1>1, <2>3, <3>1, OneOwner DEF BulkInv
    <2>4. (\A k \in DOMAIN complete : \E m \in DOMAIN sent : IsPayload(complete[k], m))'
      <3> SUFFICES ASSUME NEW k \in DOMAIN complete'
                   PROVE  \E m \in DOMAIN sent : IsPayload(complete'[k], m)
        BY <1>8
      <3>1. CASE k = e  BY <1>1, <1>3, <2>1, <3>1
      <3>2. CASE k \in DOMAIN complete  BY <2>1, <3>2 DEF BulkInv, Listed
      <3> QED BY <2>1, <3>1, <3>2
    <2>5. (\A j, k \in DOMAIN complete : \A m \in DOMAIN sent :
             IsPayload(complete[j], m) /\ IsPayload(complete[k], m) => j = k)'
      <3> SUFFICES ASSUME NEW j \in DOMAIN complete', NEW k \in DOMAIN complete',
                          NEW m \in DOMAIN sent,
                          IsPayload(complete'[j], m), IsPayload(complete'[k], m)
                   PROVE  j = k
        BY <1>8
      <3>1. CASE j = e \/ k = e
        <4>1. m = Len(sent)  BY <2>1, <2>3, <3>1
        <4> QED BY <2>1, <2>2, <4>1
      <3>2. CASE j # e /\ k # e
        <4>1. j \in DOMAIN complete /\ k \in DOMAIN complete  BY <2>1, <3>2
        <4>2. IsPayload(complete[j], m) /\ IsPayload(complete[k], m)  BY <2>1, <4>1
        <4> QED BY <4>1, <4>2 DEF BulkInv, Listed
      <3> QED BY <3>1, <3>2
    <2>6. (\A m \in DOMAIN verdicts : verdicts[m] = "ok" =>
             \E k \in DOMAIN complete : IsPayload(complete[k], m))'
      <3> SUFFICES ASSUME NEW m \in DOMAIN verdicts', verdicts'[m] = "ok"
                   PROVE  \E k \in DOMAIN complete' : IsPayload(complete'[k], m)
        BY <1>8
      <3>1. CASE m = Len(sent)  BY <1>3, <2>1, <3>1
      <3>2. CASE m # Len(sent)
        <4>1. m \in DOMAIN verdicts /\ verdicts[m] = "ok"  BY <1>4, <3>2
        <4>2. PICK k \in DOMAIN complete : IsPayload(complete[k], m)
          BY <4>1 DEF BulkInv, Listed
        <4> QED BY <2>1, <4>2
      <3> QED BY <3>1, <3>2
    <2>7. Listed'  BY <2>4, <2>5, <2>6 DEF Listed
    <2> QED BY <1>6, <1>7, <2>7 DEF BulkInv
  <1> QED BY <1>9, <1>10 DEF w

LEMMA InvCommandFails ==
    ASSUME UserSpace, BulkInv, CommandFails, UNCHANGED flavour PROVE BulkInv'
  <1>1. /\ phase # "none" /\ phase' = "none" /\ sent' = sent /\ index' = index
        /\ verdicts' = Append(verdicts, "error") /\ complete' = complete
    BY DEF CommandFails, GiveUp, UserSpace, KeepGoing, ReceiveCommand, receiver
  <1> QED BY <1>1, Ended

LEMMA InvDataFails ==
    ASSUME UserSpace, BulkInv, DataFails, UNCHANGED flavour PROVE BulkInv'
  <1>1. /\ phase = "data" /\ phase' = "none" /\ sent' = sent /\ index' = index
        /\ verdicts' = Append(verdicts, "error")
        /\ \/ ReceiveBytes(chunks[index].offset, chunks[index].size)
           \/ complete' = complete
    BY DEF DataFails, GiveUp, UserSpace, KeepGoing, receiver
  <1>2. \/ complete' = complete
        \/ complete' = Append(complete, Prefix(Len(sent), payload.total,
                                               payload.total))
    BY <1>1, FragmentReceived DEF BulkInv
  <1> QED BY <1>1, <1>2, Ended

LEMMA InvWriteData ==
    ASSUME UserSpace, BulkInv, WriteData, UNCHANGED flavour PROVE BulkInv'
  <1> DEFINE key == [dest |-> payload.dest, total |-> payload.total]
  <1>1. /\ phase = "data" /\ sent' = sent
        /\ ReceiveBytes(chunks[index].offset, chunks[index].size)
        /\ Advance(failed)
    BY DEF WriteData, Advance
  <1>2. IF index + 1 \in DOMAIN chunks
        THEN /\ complete' = complete
             /\ key \in DOMAIN assemblies'
             /\ assemblies'[key] = Prefix(Len(sent), payload.total,
                                          chunks[index + 1].offset)
        ELSE complete' = Append(complete, Prefix(Len(sent), payload.total,
                                                 payload.total))
    BY <1>1, FragmentReceived DEF BulkInv
  <1>3. CASE index + 1 \in DOMAIN chunks
    <2>1. phase' = "command" /\ index' = index + 1 /\ verdicts' = verdicts
      BY <1>1, <1>3 DEF Advance
    <2>2. payload' = payload /\ chunks' = chunks
    BY <1>1 DEF payload, chunks, KeepGoing
    <2>3. Types'  BY <1>1, <1>2, <1>3, <2>1, <2>2 DEF BulkInv, Types
    <2>4. InStep'  BY <1>1, <1>2, <1>3, <2>1, <2>2 DEF InStep
    <2>5. Listed'  BY <1>1, <1>2, <1>3, <2>1 DEF BulkInv, Listed, IsPayload
    <2> QED BY <2>3, <2>4, <2>5 DEF BulkInv
  <1>4. CASE index + 1 \notin DOMAIN chunks
    <2>1. phase' = "none" /\ index' = index
          /\ verdicts' = Append(verdicts, IF failed THEN "error" ELSE "ok")
      BY <1>1, <1>4 DEF Advance
    <2>2. complete' = Append(complete, Prefix(Len(sent), payload.total,
                                              payload.total))
      BY <1>2, <1>4
    <2>3. CASE failed
      <3>1. verdicts' = Append(verdicts, "error")  BY <2>1, <2>3
      <3> QED BY <1>1, <2>1, <2>2, <3>1, Ended
    <2>4. CASE ~failed
      <3>1. verdicts' = Append(verdicts, "ok")  BY <2>1, <2>4
      <3> QED BY <1>1, <2>1, <2>2, <3>1, Ended
    <2> QED BY <2>3, <2>4
  <1> QED BY <1>3, <1>4

LEMMA InvNext == ASSUME UserSpace, BulkInv, [Next]_vars PROVE BulkInv'
  <1>1. CASE UNCHANGED vars
    BY <1>1 DEF vars, sender, receiver, BulkInv, Types, InStep, Listed, IsPayload,
                Command, payload, chunks, KeepGoing
  <1>2. CASE ShortData  BY <1>2 DEF ShortData, UserSpace, ShortWrites
  <1> QED BY <1>1, <1>2, InvBegin, InvWriteCommand, InvCommandFails,
             InvWriteData, InvDataFails DEF Next

(* The invariant, for any mix of senders.                                   *)
Guarded == flavour \in Senders /\ (flavour = "userspace" => BulkInv)

LEMMA AlwaysGuarded == NoCommandTail => (Spec => []Guarded)
  <1> SUFFICES ASSUME NoCommandTail PROVE Spec => []Guarded
    OBVIOUS
  <1>1. Init => Guarded
    <2>1. Init => flavour \in Senders  BY DEF Init
    <2> QED BY <2>1, InvInit DEF Guarded
  <1>2. Guarded /\ [Next]_vars => Guarded'
    <2> SUFFICES ASSUME Guarded, [Next]_vars PROVE Guarded'
      OBVIOUS
    <2>1. flavour' = flavour  BY DEF Next, vars
    <2>2. CASE flavour = "userspace"
      <3>1. UserSpace /\ BulkInv  BY <2>2 DEF UserSpace, Guarded
      <3>2. BulkInv'  BY <3>1, InvNext
      <3> QED BY <2>1, <3>2 DEF Guarded
    <2>3. CASE flavour # "userspace"  BY <2>1, <2>3 DEF Guarded
    <2> QED BY <2>2, <2>3
  <1> QED BY <1>1, <1>2, PTL DEF Spec

(* What the reassembler lists as complete is one payload, byte for byte, for
   any number of payloads of any length and whatever writes of
   send_chunks_with_context fail.                                           *)
THEOREM TransfersAreWhole == NoCommandTail => (Spec => []CompletedAreWhole)
  <1> SUFFICES ASSUME NoCommandTail PROVE Spec => []CompletedAreWhole
    OBVIOUS
  <1>1. Guarded => CompletedAreWhole
    BY DEF Guarded, BulkInv, Listed, CompletedAreWhole
  <1> QED BY <1>1, AlwaysGuarded, PTL

(* A payload that user space reports as sent is listed exactly once.        *)
THEOREM ReportedTransfersArrive ==
    NoCommandTail /\ Senders = {"userspace"} => (Spec => []SentArrivesOnce)
  <1> SUFFICES ASSUME NoCommandTail, Senders = {"userspace"}
               PROVE  Spec => []SentArrivesOnce
    OBVIOUS
  <1>1. Guarded => SentArrivesOnce
    <2> SUFFICES ASSUME BulkInv, NEW n \in DOMAIN verdicts, verdicts[n] = "ok"
                 PROVE  \E k \in DOMAIN complete :
                           /\ IsPayload(complete[k], n)
                           /\ \A j \in DOMAIN complete :
                                 IsPayload(complete[j], n) => j = k
      BY DEF Guarded, SentArrivesOnce
    <2>1. n \in DOMAIN sent  BY DEF BulkInv, Types
    <2>2. PICK k \in DOMAIN complete : IsPayload(complete[k], n)
      BY DEF BulkInv, Listed
    <2> QED BY <2>1, <2>2 DEF BulkInv, Listed
  <1> QED BY <1>1, AlwaysGuarded, PTL

-----------------------------------------------------------------------------
(* Writes that are cut short and believed whole.                            *)

(* Assemblies of payload n: each byte is missing or in its place.           *)
Pure(n) ==
    UNION {{a \in [0 .. t - 1 -> Nat \X Nat] : \A o \in 0 .. t - 1 : a[o] \in {Hole, <<n, o>>}}
             : t \in Nat}

Transfers == UNION {Pure(n) : n \in Nat}

CurrentKey == [dest |-> payload.dest, total |-> payload.total]

(* The first fragment of a payload opens a new assembly, so that the later
   ones meet bytes of their own payload only.                               *)
ShortInv ==
    /\ sent \in Seq(Payloads) /\ index \in Nat
    /\ phase \in {"none", "command", "data"}
    /\ phase # "none" => Len(sent) > 0 /\ index \in DOMAIN chunks
    /\ phase = "data" => pending_command = Command
    /\ phase # "none" /\ index > 0 /\ CurrentKey \in DOMAIN assemblies =>
          assemblies[CurrentKey] \in Pure(Len(sent))
    /\ complete \in Seq(Transfers)
    /\ \A k \in DOMAIN complete : \E n \in DOMAIN sent : complete[k] \in Pure(n)

LEMMA ShortCurrent ==
    ASSUME flavour = "timeouts", ShortInv, phase # "none"
    PROVE  /\ payload.dest \in Nat /\ payload.total \in Nat \ {0} /\ Len(sent) \in Nat \ {0}
           /\ index \in DOMAIN chunks
           /\ \A i \in DOMAIN chunks :
                 /\ i \in Nat /\ chunks[i].offset \in Nat /\ chunks[i].size \in Nat \ {0}
                 /\ chunks[i].offset = 0 <=> i = 0
                 /\ chunks[i].offset + chunks[i].size <= payload.total
           /\ index = 0 /\ 1 \in DOMAIN chunks => chunks[0].size = MaxPacket
  <1> DEFINE len == payload.total
             f   == fragments(len, MaxPacket)
             n   == fragment_count(len, MaxPacket)
  <1>1. payload \in Payloads /\ Len(sent) \in Nat \ {0} /\ index \in DOMAIN chunks
    BY DEF ShortInv, payload
  <1>2. payload.dest \in Nat /\ len \in Nat \ {0} /\ len < Modulus /\ MaxPacket \in Nat \ {0}
    BY <1>1, BulkAssumption
  <1>3. chunks = f
    BY DEF chunks, KeepGoing
  <1>4. n \in Nat \ {0} /\ DOMAIN f = 0 .. n - 1
        /\ \A i \in 0 .. n - 1 :
              /\ f[i].offset = MaxPacket * i /\ f[i].offset \in Nat
              /\ f[i].size \in 1 .. MaxPacket
              /\ f[i].offset + f[i].size <= len
              /\ f[i].more = (i < n - 1)
              /\ f[i].more => f[i + 1].offset = f[i].offset + f[i].size
              /\ ~f[i].more => f[i].offset + f[i].size = len
    <2> HIDE DEF len
    <2> QED BY <1>2, FragmentsCover
  <1> HIDE DEF f, n
  <1>5. ASSUME NEW i \in DOMAIN f
        PROVE  /\ i \in Nat /\ f[i].offset \in Nat /\ f[i].size \in Nat \ {0}
               /\ f[i].offset = 0 <=> i = 0
               /\ f[i].offset + f[i].size <= len
    <2>1. i \in 0 .. n - 1 /\ i \in Nat  BY <1>4
    <2>2. f[i].offset = MaxPacket * i /\ f[i].size \in 1 .. MaxPacket /\ f[i].offset \in Nat
          /\ f[i].offset + f[i].size <= len
      BY <1>4, <2>1
    <2>3. MaxPacket * i = 0 <=> i = 0  BY <1>2, <2>1, SMT
    <2> QED BY <1>2, <2>1, <2>2, <2>3
  <1>6. 1 \in DOMAIN f => f[0].size = MaxPacket
    <2> SUFFICES ASSUME 1 \in DOMAIN f PROVE f[0].size = MaxPacket
      OBVIOUS
    <2>1. 0 \in 0 .. n - 1 /\ 1 \in 0 .. n - 1 /\ 0 < n - 1  BY <1>4
    <2>2. f[0].more = (0 < n - 1)  BY <1>4, <2>1
    <2>3. f[0].more  BY <2>1, <2>2, Zenon
    <2>4. f[0 + 1].offset = f[0].offset + f[0].size /\ 0 + 1 = 1  BY <1>4, <2>1, <2>3
    <2>5. f[1].offset = MaxPacket * 1 /\ f[0].offset = MaxPacket * 0  BY <1>4, <2>1
    <2>6. f[0].size \in Nat  BY <1>4, <2>1
    <2> QED BY <1>2, <2>4, <2>5, <2>6
  <1> QED BY <1>1, <1>2, <1>3, <1>5, <1>6

(* What is received of a fragment, whole or cut short, goes to an assembly of
   its own payload, which it may complete; one that is taken for a command
   is no first fragment of several.                                         *)
LEMMA PartReceived ==
    ASSUME flavour = "timeouts", MaxPacket # CommandSize, ShortInv, phase = "data",
           NEW length \in 1 .. chunks[index].size,
           length = CommandSize => length = chunks[index].size,
           ReceiveBytes(chunks[index].offset, length)
    PROVE  /\ index + 1 \in DOMAIN chunks /\ CurrentKey \in DOMAIN assemblies' =>
                 assemblies'[CurrentKey] \in Pure(Len(sent))
           /\ \/ complete' = complete
              \/ \E b \in Pure(Len(sent)) : complete' = Append(complete, b)
  <1> DEFINE off == chunks[index].offset
             siz == chunks[index].size
             tot == payload.total
             m   == Len(sent)
             c   == Command
             a   == Assembly(c)
             b   == Added(a, c, off, length)
  <1>1. /\ index \in DOMAIN chunks /\ index \in Nat /\ m \in Nat \ {0} /\ tot \in Nat \ {0}
        /\ off \in Nat /\ siz \in Nat \ {0} /\ (off = 0 <=> index = 0) /\ off + siz <= tot
    BY ShortCurrent
  <1>2. /\ c.kind = "command" /\ c.total_len = tot /\ c.fragment_offset = off
        /\ Key(c) = CurrentKey
    BY DEF Command, parse_bulk_command, to_bytes, Key, CurrentKey
  <1>3. pending_command = c /\ c # None /\ c # Unread
    BY <1>2 DEF ShortInv, None, Unread
  <1>4. CASE length = CommandSize
    <2>1. UNCHANGED <<assemblies, complete>>
      BY <1>4 DEF ReceiveBytes, ReceiveCommand
    <2>2. index + 1 \in DOMAIN chunks => index # 0
      BY <1>4, ShortCurrent
    <2> QED BY <1>1, <2>1, <2>2 DEF ShortInv
  <1>5. CASE length # CommandSize
    <2>1. ReceiveFragment(c, off, length)
      BY <1>3, <1>5 DEF ReceiveBytes
    <2>2. a \in Pure(m)
      <3>1. Fresh(c) \in Pure(m)
        <4> DEFINE z == [o \in 0 .. tot - 1 |-> Hole]
        <4>1. z \in [0 .. tot - 1 -> Nat \X Nat] /\ \A o \in 0 .. tot - 1 : z[o] \in {Hole, <<m, o>>}
          BY <1>1 DEF Hole
        <4>2. Fresh(c) = z  BY <1>2 DEF Fresh
        <4> HIDE DEF z, m, tot
        <4>3. z \in {d \in [0 .. tot - 1 -> Nat \X Nat] : \A o \in 0 .. tot - 1 : d[o] \in {Hole, <<m, o>>}}
          BY <4>1
        <4>4. z \in Pure(m)  BY <1>1, <4>3 DEF Pure
        <4> QED BY <4>2, <4>4
      <3>2. CASE CurrentKey \notin DOMAIN assemblies \/ off = 0
        BY <1>2, <3>1, <3>2 DEF Assembly
      <3>3. CASE CurrentKey \in DOMAIN assemblies /\ off # 0
        <4>1. index > 0  BY <1>1, <3>3
        <4>2. assemblies[CurrentKey] \in Pure(m)  BY <3>3, <4>1 DEF ShortInv
        <4> QED BY <1>2, <3>3, <4>2 DEF Assembly
      <3> QED BY <3>2, <3>3
    <2>3. b \in Pure(m)
      <3>1. PICK t \in Nat : a \in [0 .. t - 1 -> Nat \X Nat]
                             /\ \A o \in 0 .. t - 1 : a[o] \in {Hole, <<m, o>>}
        BY <2>2 DEF Pure
      <3>2. b = [o \in 0 .. t - 1 |-> IF o \in off .. off + length - 1
                                      THEN <<m, off + o - off>> ELSE a[o]]
        BY <1>2, <3>1 DEF Added
      <3> HIDE DEF off, a, m, b
      <3>3. ASSUME NEW o \in 0 .. t - 1
            PROVE  b[o] \in {Hole, <<m, o>>} /\ b[o] \in Nat \X Nat
        <4>1. off + o - off = o /\ o \in Nat  BY <1>1, SMT
        <4>2. b[o] \in {a[o], <<m, o>>}  BY <3>2, <4>1
        <4> QED BY <1>1, <3>1, <4>1, <4>2
      <3>4. b \in [0 .. t - 1 -> Nat \X Nat]  BY <3>2, <3>3
      <3> QED BY <3>3, <3>4 DEF Pure
    <2> HIDE DEF off, siz, tot, m, c, a, b
    <2>4. /\ assemblies' \in {Put(CurrentKey, a), Put(CurrentKey, b), Without(CurrentKey)}
          /\ complete' = complete \/ complete' = Append(complete, b)
      BY <1>2, <2>1 DEF ReceiveFragment, a, b
    <2>5. CurrentKey \in DOMAIN assemblies' => assemblies'[CurrentKey] \in {a, b}
      BY <2>4 DEF Put, Without
    <2> QED BY <2>2, <2>3, <2>4, <2>5 DEF m
  <1> QED BY <1>4, <1>5

(* A transfer listed for the current payload.                               *)
LEMMA ShortListed ==
    ASSUME ShortInv, Len(sent) > 0, UNCHANGED sent,
           \/ complete' = complete
           \/ \E b \in Pure(Len(sent)) : complete' = Append(complete, b)
    PROVE  /\ complete' \in Seq(Transfers)
           /\ \A k \in DOMAIN complete' : \E n \in DOMAIN sent' : complete'[k] \in Pure(n)
  <1>1. complete \in Seq(Transfers) /\ Len(sent) \in DOMAIN sent /\ Len(sent) \in Nat
    BY DEF ShortInv
  <1>2. CASE complete' = complete
    BY <1>2 DEF ShortInv
  <1>3. ASSUME NEW b \in Pure(Len(sent)), complete' = Append(complete, b)
        PROVE  /\ complete' \in Seq(Transfers)
               /\ \A k \in DOMAIN complete' : \E n \in DOMAIN sent' : complete'[k] \in Pure(n)
    <2>1. b \in Transfers  BY <1>1 DEF Transfers
    <2>2. /\ complete' \in Seq(Transfers) /\ Len(complete') = Len(complete) + 1
          /\ complete'[Len(complete) + 1] = b
          /\ \A k \in 1 .. Len(complete) : complete'[k] = complete[k]
      BY <1>1, <1>3, <2>1
    <2>3. ASSUME NEW k \in DOMAIN complete' PROVE \E n \in DOMAIN sent : complete'[k] \in Pure(n)
      <3>1. k \in DOMAIN complete \/ k = Len(complete) + 1
        BY <1>1, <2>2
      <3>2. CASE k = Len(complete) + 1  BY <1>1, <2>2, <3>2
      <3>3. CASE k \in DOMAIN complete
        <4>1. complete'[k] = complete[k]  BY <1>1, <2>2, <3>3
        <4> QED BY <3>3, <4>1 DEF ShortInv
      <3> QED BY <3>1, <3>2, <3>3
    <2> QED BY <2>2, <2>3
  <1> QED BY <1>2, <1>3

LEMMA ShortBegin ==
    ASSUME flavour = "timeouts", ShortInv, Begin, UNCHANGED flavour PROVE ShortInv'
  <1>1. PICK p \in Payloads : sent' = Append(sent, p)  BY DEF Begin
  <1>2. /\ sent' \in Seq(Payloads) /\ Len(sent') = Len(sent) + 1 /\ Len(sent) \in Nat
        /\ sent'[Len(sent')] = p /\ DOMAIN sent \subseteq DOMAIN sent'
    BY <1>1 DEF ShortInv
  <1>3. phase' = "command" /\ index' = 0 /\ complete' = complete
    BY DEF Begin, receiver
  <1>4. 0 \in DOMAIN chunks'
    <2>1. payload' = p  BY <1>2 DEF payload
    <2>2. p.total \in Nat \ {0} /\ MaxPacket \in Nat \ {0}
      BY BulkAssumption
    <2>3. chunks' = fragments(p.total, MaxPacket)  BY <2>1 DEF chunks, KeepGoing
    <2>4. fragment_count(p.total, MaxPacket) \in Nat \ {0}  BY <2>2, CountBounds
    <2>5. DOMAIN fragments(p.total, MaxPacket)
            = 0 .. fragment_count(p.total, MaxPacket) - 1
      BY DEF fragments
    <2> QED BY <2>3, <2>4, <2>5
  <1> QED BY <1>2, <1>3, <1>4 DEF ShortInv

(* A step of the data phase, and the end of a payload.                      *)
LEMMA ShortAdvance ==
    ASSUME flavour = "timeouts", MaxPacket # CommandSize, ShortInv, phase = "data",
           UNCHANGED flavour, NEW length \in 1 .. chunks[index].size,
           length = CommandSize => length = chunks[index].size,
           ReceiveBytes(chunks[index].offset, length), Advance(failed)
    PROVE  ShortInv'
  <1>1. sent' = sent /\ payload' = payload /\ chunks' = chunks /\ CurrentKey' = CurrentKey
    BY DEF Advance, payload, chunks, KeepGoing, CurrentKey
  <1>2. /\ index + 1 \in DOMAIN chunks /\ CurrentKey \in DOMAIN assemblies' =>
              assemblies'[CurrentKey] \in Pure(Len(sent))
        /\ \/ complete' = complete
           \/ \E b \in Pure(Len(sent)) : complete' = Append(complete, b)
    BY PartReceived
  <1>3. Len(sent) > 0 /\ index \in Nat /\ sent \in Seq(Payloads)  BY DEF ShortInv
  <1>4. /\ complete' \in Seq(Transfers)
        /\ \A k \in DOMAIN complete' : \E n \in DOMAIN sent' : complete'[k] \in Pure(n)
    BY <1>1, <1>2, <1>3, ShortListed
  <1>5. CASE index + 1 \in DOMAIN chunks
    <2>1. index' = index + 1 /\ phase' = "command"  BY <1>5 DEF Advance
    <2> QED BY <1>1, <1>2, <1>3, <1>4, <1>5, <2>1 DEF ShortInv
  <1>6. CASE index + 1 \notin DOMAIN chunks
    <2>1. index' = index /\ phase' = "none"  BY <1>6 DEF Advance
    <2> QED BY <1>1, <1>3, <1>4, <2>1 DEF ShortInv
  <1> QED BY <1>5, <1>6

LEMMA ShortNext ==
    ASSUME flavour = "timeouts", MaxPacket # CommandSize, ShortInv, [Next]_vars
    PROVE  ShortInv'
  <1>1. CASE UNCHANGED vars
    BY <1>1 DEF vars, sender, receiver, ShortInv, Command, payload, chunks, KeepGoing, CurrentKey
  <1>2. CASE Begin /\ UNCHANGED flavour
    BY <1>2, ShortBegin
  <1>3. CASE WriteCommand /\ UNCHANGED flavour
    <2>1. /\ phase = "command" /\ phase' = "data" /\ UNCHANGED <<sent, index>>
          /\ pending_command' = Command /\ UNCHANGED <<assemblies, complete>>
      BY <1>3 DEF WriteCommand, ReceiveCommand
    <2>2. payload' = payload /\ chunks' = chunks /\ CurrentKey' = CurrentKey /\ Command' = Command
      BY <1>3, <2>1 DEF payload, chunks, KeepGoing, CurrentKey, Command
    <2> QED BY <2>1, <2>2 DEF ShortInv
  <1>4. CASE CommandFails /\ UNCHANGED flavour
    <2>1. phase' = "none" /\ UNCHANGED <<sent, index, complete>>
      BY <1>4 DEF CommandFails, KeepGoing, GiveUp, ReceiveCommand, receiver
    <2> QED BY <2>1 DEF ShortInv
  <1>5. CASE DataFails /\ UNCHANGED flavour
    <2>1. /\ phase = "data" /\ phase' = "none" /\ UNCHANGED <<sent, index>>
          /\ \/ ReceiveBytes(chunks[index].offset, chunks[index].size)
             \/ complete' = complete
      BY <1>5 DEF DataFails, KeepGoing, GiveUp, receiver
    <2>2. Len(sent) > 0 /\ chunks[index].size \in 1 .. chunks[index].size
      BY <2>1, ShortCurrent
    <2>3. \/ complete' = complete
          \/ \E b \in Pure(Len(sent)) : complete' = Append(complete, b)
      BY <2>1, <2>2, PartReceived
    <2>4. /\ complete' \in Seq(Transfers)
          /\ \A k \in DOMAIN complete' : \E n \in DOMAIN sent' : complete'[k] \in Pure(n)
      BY <2>1, <2>2, <2>3, ShortListed
    <2> QED BY <2>1, <2>4 DEF ShortInv
  <1>6. CASE WriteData /\ UNCHANGED flavour
    <2>1. /\ phase = "data" /\ Advance(failed)
          /\ ReceiveBytes(chunks[index].offset, chunks[index].size)
      BY <1>6 DEF WriteData
    <2>2. chunks[index].size \in 1 .. chunks[index].size
      BY <2>1, ShortCurrent
    <2> QED BY <1>6, <2>1, <2>2, ShortAdvance
  <1>7. CASE ShortData /\ UNCHANGED flavour
    <2>1. phase = "data" /\ Advance(failed)
      BY <1>7 DEF ShortData
    <2>2. PICK n \in (1 .. chunks[index].size - 1) \ {CommandSize} :
                 ReceiveBytes(chunks[index].offset, n)
      BY <1>7 DEF ShortData
    <2>3. n \in 1 .. chunks[index].size /\ n # CommandSize
      BY <2>1, <2>2, ShortCurrent
    <2> QED BY <1>7, <2>1, <2>2, <2>3, ShortAdvance
  <1> QED BY <1>1, <1>2, <1>3, <1>4, <1>5, <1>6, <1>7 DEF Next

(* Where a full packet is longer than a command, no listed transfer mixes two
   payloads, though write_bulk may cut any write short and nobody notices.  *)
THEOREM ShortWritesNeverMix == MaxPacket # CommandSize => (Spec => []NoMixing)
  <1> SUFFICES ASSUME MaxPacket # CommandSize PROVE Spec => []NoMixing
    OBVIOUS
  <1> DEFINE ShortGuarded == flavour = "timeouts" => ShortInv
  <1>1. Init => ShortGuarded
    BY DEF Init, ShortInv
  <1>2. ShortGuarded /\ [Next]_vars => ShortGuarded'
    <2> SUFFICES ASSUME ShortGuarded, [Next]_vars, flavour' = "timeouts" PROVE ShortInv'
      BY Zenon
    <2>1. flavour = "timeouts"  BY DEF Next, vars
    <2> QED BY <2>1, ShortNext
  <1>3. ShortGuarded => NoMixing
    <2> SUFFICES ASSUME ShortInv, NEW k \in DOMAIN complete
                 PROVE  \E n \in DOMAIN sent :
                           \A o \in DOMAIN complete[k] : complete[k][o] \in {Hole, <<n, o>>}
      BY DEF NoMixing
    <2>1. PICK n \in DOMAIN sent : complete[k] \in Pure(n)  BY DEF ShortInv
    <2> QED BY <2>1 DEF Pure
  <1> HIDE DEF ShortGuarded
  <1> QED BY <1>1, <1>2, <1>3, PTL DEF Spec

-----------------------------------------------------------------------------
(* The driver (Trigger6Driver): what the device was told follows what the
   core has committed.                                                      *)

(* The state the client has set: during a suspend it is put aside.          *)
Wanted == IF saved = NoState THEN crtc ELSE saved

(* The commit at work is still going to send the resolution.                *)
WillSetMode == job.step # "none" /\ job.new.active /\ ModeChanged(job)

(* The device has the mode the client has set, be the output on or not, once
   the commit that changes it has sent it, if that commit does.  This is what
   lets the driver send the mode with no other commit.                      *)
ModeKept ==
    "mode" \notin missed /\ ~unsent /\ Wanted.mode # NoMode /\ ~WillSetMode
        => device.mode = trigger6_get_mode(Wanted.mode)

(* The power, step by step through a commit.                                *)
PowerAt ==
    CASE job.step = "none" -> crtc.active
      [] job.step = "disable" -> job.old.active
      [] job.step \in {"update", "enable"} -> job.old.active /\ ~NeedsModeset(job)
      [] job.step = "resolution" -> TRUE

PowerKept == "power" \notin missed => device.on = PowerAt

(* Between the core's state and its commit, and over an unbinding.          *)
Committed ==
    /\ job.step = "none" => job = NoJob
    /\ job.step # "none" => job.new = crtc
    /\ job.step = "resolution" => job.new.active /\ ModeChanged(job)
    /\ binding \in {"unbound", "probing"} => job = NoJob
    /\ binding \in {"unbound", "probing", "disconnecting"} => crtc = Off
    /\ references = IF dmadev = "device" THEN 1 ELSE 0
    /\ binding = "unbound" => dmadev = "NULL"
    /\ saved # NoState => crtc = Off

DriverInv == DriverTypeOK /\ Committed /\ PowerKept /\ ModeKept

(* A set of numbers has a least one.                                        *)
LEMMA LeastNat ==
    ASSUME NEW T \in SUBSET Nat, T # {}
    PROVE  \E n \in T : \A m \in T : n <= m
  <1> DEFINE R == {ss \in Nat \X Nat : ss[1] < ss[2]}
  <1>0. OpToRel(<,Nat) = R
    BY DEF OpToRel
  <1>1. IsWellFoundedOn(R, Nat)
    BY <1>0, NatLessThanWellFounded
  <1>2. PICK n \in T : \A m \in T : ~ (<<m, n>> \in R)
    BY <1>1, WFMin
  <1>3. ASSUME NEW m \in T PROVE n <= m
    <2>1. ~(<<m,n>> \in R) /\ m \in Nat /\ n \in Nat
       BY <1>2
    <2>2. <<m,n>> \in Nat \X Nat /\ <<m,n>>[1] = m /\ <<m,n>>[2] = n
       BY <2>1
    <2>3. ~(m < n)
       <3>1. ~(<<m,n>>[1] < <<m,n>>[2])
         BY <2>1, <2>2, Zenon
       <3> QED BY <3>1, <2>2, Zenon
    <2> QED BY <2>3, <2>1
  <1> QED BY <1>3

(* trigger6_get_mode gives an entry of the table, or the error.             *)
LEMMA ModeNumbers == \A m : trigger6_get_mode(m) \in 0 .. Len(Table)
  <1> SUFFICES ASSUME NEW m PROVE trigger6_get_mode(m) \in 0 .. Len(Table)
    OBVIOUS
  <1>1. Len(Table) \in Nat
    BY DriverAssumption
  <1> DEFINE found == {i \in 1 .. Len(Table) : Table[i] = Resolution[m]}
  <1>2. CASE found = {}
    BY <1>1, <1>2 DEF trigger6_get_mode
  <1>3. CASE found # {}
    <2>1. found \in SUBSET Nat /\ found \subseteq 1 .. Len(Table)
      BY <1>1
    <2>2. trigger6_get_mode(m) = CHOOSE i \in found : \A j \in found : i <= j
      BY <1>3 DEF trigger6_get_mode
    <2> HIDE DEF found
    <2>3. \E k \in found : \A j \in found : k <= j
      BY <1>3, <2>1, LeastNat
    <2>4. trigger6_get_mode(m) \in found
      BY <2>2, <2>3, Zenon
    <2>5. \A k \in found : k \in 0 .. Len(Table)
      BY <1>1, <2>1
    <2> QED BY <2>4, <2>5, Zenon
  <1> QED BY <1>2, <1>3

(* The first state.                                                         *)
LEMMA DriverStarts == DriverInit => DriverInv
  <1> SUFFICES ASSUME DriverInit PROVE DriverInv
    OBVIOUS
  <1>1. Off \in States /\ NoJob.step = "none" /\ Off.mode = NoMode /\ Off.active = FALSE
    BY DEF Off, States, NoJob
  <1>2. DriverTypeOK
    <2>1. unsent \in BOOLEAN
      BY Zenon DEF DriverInit
    <2> QED BY <1>1, <2>1, DriverAssumption DEF DriverInit, DriverTypeOK, NoJob
  <1> QED BY <1>1, <1>2 DEF DriverInit, DriverInv, Committed, PowerKept, ModeKept

(* Records and constants that the proofs below need.                        *)
LEMMA DriverFacts ==
    /\ Off \in States /\ Off.mode = NoMode /\ Off.active = FALSE
    /\ NoJob.step = "none" /\ NoJob.old = Off /\ NoJob.new = Off
    /\ NoState \notin States
    /\ \A s \in States : /\ s.active \in BOOLEAN /\ s.mode \in DisplayModes \cup {NoMode}
                         /\ s.active => s.mode # NoMode
    /\ \A o, n \in States :
          LET j == [old |-> o, new |-> n, step |-> "disable"]
          IN  /\ j \in [old : States, new : States,
                        step : {"none", "disable", "update", "enable", "resolution"}]
              /\ j.old = o /\ j.new = n /\ j.step = "disable"
  BY DEF Off, States, NoJob, NoState

(* A new commit: the power is that of the old state, the mode is right unless
   the commit changes it and sends it.                                      *)
LEMMA SwapKeeps ==
    ASSUME DriverInv, job = NoJob, NEW n \in States, Swap(n),
           UNCHANGED <<present, device, missed, dmadev, references>>,
           saved' \in States \cup {NoState}, saved' # NoState => n = Off,
           binding' \in {"bound", "disconnecting"}, binding' = "disconnecting" => n = Off,
           unsent' \in BOOLEAN,
           \/ WillSetMode' \/ unsent'
           \/ unsent' = unsent /\ Wanted'.mode \in {NoMode, Wanted.mode}
    PROVE  DriverInv'
  <1>1. /\ job' \in [old : States, new : States,
                     step : {"none", "disable", "update", "enable", "resolution"}]
        /\ job'.old = crtc /\ job'.new = n /\ job'.step = "disable" /\ crtc' = n
        /\ job.step = "none"
    BY DriverFacts DEF Swap, DriverInv, DriverTypeOK
  <1>2. DriverTypeOK'
    BY <1>1 DEF DriverInv, DriverTypeOK
  <1>3. Committed'
    BY <1>1, DriverFacts DEF DriverInv, Committed
  <1>4. PowerKept'
    BY <1>1 DEF DriverInv, PowerKept, PowerAt
  <1>5. ~WillSetMode
    BY <1>1 DEF WillSetMode
  <1>6. ModeKept'
    BY <1>5 DEF DriverInv, ModeKept
  <1> QED BY <1>2, <1>3, <1>4, <1>6 DEF DriverInv

(* A step that leaves the commit, the power and the mode alone.             *)
LEMMA IdleStepKeeps ==
    ASSUME DriverInv, DriverTypeOK', UNCHANGED <<crtc, job>>,
           UNCHANGED <<device, missed>> \/ missed' = {"power", "mode"},
           \/ UNCHANGED <<saved, unsent>>
           \/ saved' = NoState /\ crtc.mode = NoMode,
           binding' \in {"unbound", "probing"} => job = NoJob,
           binding' \in {"unbound", "probing", "disconnecting"} => crtc = Off,
           references' = IF dmadev' = "device" THEN 1 ELSE 0,
           binding' = "unbound" => dmadev' = "NULL"
    PROVE  DriverInv'
  <1>1. Committed'
    BY DEF DriverInv, Committed, ModeChanged
  <1>2. PowerKept'
    BY DEF DriverInv, PowerKept, PowerAt, NeedsModeset, ModeChanged
  <1>3. ModeKept'
    BY DEF DriverInv, ModeKept, Wanted, WillSetMode, ModeChanged
  <1> QED BY <1>1, <1>2, <1>3 DEF DriverInv

(* Coming and going of the device and of the driver.                        *)
LEMMA BindingKeeps ==
    ASSUME DriverInv,
           \/ Plug \/ Unplug \/ Probe \/ ProbeEnds \/ ProbeFails \/ Disconnect \/ DisconnectEnds
    PROVE  DriverInv'
  <1>0. DriverTypeOK /\ Committed
    BY DEF DriverInv
  <1> USE <1>0
  <1>1. CASE Plug
    <2>1. DriverTypeOK'
      BY <1>1, DriverAssumption DEF Plug, DriverTypeOK
    <2> QED BY <1>1, <2>1, IdleStepKeeps DEF Plug, Committed
  <1>2. CASE Unplug
    <2>1. DriverTypeOK'
      BY <1>2 DEF Unplug, DriverTypeOK
    <2> QED BY <1>2, <2>1, IdleStepKeeps DEF Unplug, Committed
  <1>3. CASE Probe
    <2>1. crtc' = crtc /\ crtc.mode = NoMode
      BY <1>3, DriverFacts DEF Probe, Committed
    <2>2. DriverTypeOK'
      <3>1. unsent' \in BOOLEAN
        BY <1>3, Zenon DEF Probe
      <3> QED BY <1>3, <2>1, <3>1 DEF Probe, DriverTypeOK
    <2>3. references' = IF dmadev' = "device" THEN 1 ELSE 0
      BY <1>3 DEF Probe, Committed
    <2> QED BY <1>3, <2>1, <2>2, <2>3, IdleStepKeeps DEF Probe, Committed
  <1>4. CASE ProbeEnds
    <2>1. DriverTypeOK'
      BY <1>4 DEF ProbeEnds, DriverTypeOK
    <2> QED BY <1>4, <2>1, IdleStepKeeps DEF ProbeEnds, Committed
  <1>5. CASE ProbeFails
    <2>1. references' = 0 /\ dmadev' = "NULL"
      BY <1>5 DEF ProbeFails, Committed
    <2>2. DriverTypeOK'
      BY <1>5, <2>1 DEF ProbeFails, DriverTypeOK
    <2> QED BY <1>5, <2>1, <2>2, IdleStepKeeps DEF ProbeFails, Committed
  <1>6. CASE Disconnect
    <2>1. DriverTypeOK'
      BY <1>6 DEF Disconnect, DriverTypeOK
    <2> QED BY <1>6, <2>1, IdleStepKeeps DEF Disconnect, Committed
  <1>7. CASE DisconnectEnds
    <2>1. references' = 0 /\ dmadev' = "NULL"
      BY <1>7 DEF DisconnectEnds, Committed
    <2>2. DriverTypeOK'
      BY <1>7, <2>1 DEF DisconnectEnds, DriverTypeOK
    <2> QED BY <1>7, <2>1, <2>2, IdleStepKeeps DEF DisconnectEnds, Committed
  <1> QED BY <1>1, <1>2, <1>3, <1>4, <1>5, <1>6, <1>7

(* A message about the power arrives or is lost.                            *)
LEMMA PowerTold ==
    ASSUME DriverTypeOK, NEW on \in BOOLEAN, SetPower(on)
    PROVE  /\ device' \in [mode : 0 .. Len(Table), on : BOOLEAN]
           /\ missed' \subseteq {"power", "mode"}
           /\ "power" \notin missed' => device'.on = on
           /\ "mode" \in missed' <=> "mode" \in missed
           /\ device'.mode = device.mode
  BY DEF DriverTypeOK, SetPower

(* The callbacks of a commit.                                               *)
LEMMA WorkKeeps ==
    ASSUME DriverInv, Work
    PROVE  DriverInv'
  <1>0. DriverTypeOK /\ Committed /\ PowerKept /\ ModeKept
    BY DEF DriverInv
  <1> USE <1>0
  <1> DEFINE Jobs == [old : States, new : States,
                      step : {"none", "disable", "update", "enable", "resolution"}]
             Rest == /\ device' \in [mode : 0 .. Len(Table), on : BOOLEAN]
                     /\ missed' \subseteq {"power", "mode"}
  <1>1. job \in Jobs /\ job.old \in States /\ job.new \in States
        /\ job.old.active \in BOOLEAN /\ job.new.active \in BOOLEAN
    BY DriverFacts DEF DriverTypeOK
  <1>2. ASSUME job'.old = job.old, job'.new = job.new, job' \in Jobs, job.step # "none",
               job'.step \in {"update", "enable", "resolution"}, Rest,
               UNCHANGED <<present, binding, dmadev, references, crtc, saved, unsent>>,
               job'.step = "resolution" => job.new.active /\ ModeChanged(job),
               "power" \notin missed' => device'.on = PowerAt',
               "mode" \in missed' <=> "mode" \in missed, device'.mode = device.mode
        PROVE  DriverInv'
    <2>1. DriverTypeOK'
      BY <1>2 DEF DriverTypeOK
    <2>2. Committed'
      BY <1>2, DriverFacts DEF Committed, ModeChanged
    <2>3. PowerKept'
      BY <1>2 DEF PowerKept
    <2>4. ModeKept'
      BY <1>2 DEF ModeKept, Wanted, WillSetMode, ModeChanged
    <2> QED BY <2>1, <2>2, <2>3, <2>4 DEF DriverInv
  <1>3. ASSUME job' = NoJob, job.step # "none", Rest,
               UNCHANGED <<present, binding, dmadev, references, crtc, saved, unsent>>,
               "power" \notin missed' => device'.on = crtc.active,
               \/ /\ ~WillSetMode /\ device'.mode = device.mode
                  /\ "mode" \in missed' <=> "mode" \in missed
               \/ "mode" \notin missed' => device'.mode = trigger6_get_mode(Wanted.mode)
        PROVE  DriverInv'
    <2>1. DriverTypeOK'
      BY <1>3, DriverFacts DEF DriverTypeOK, NoJob
    <2>2. Committed'
      BY <1>3, DriverFacts DEF Committed
    <2>3. PowerKept'
      BY <1>3, DriverFacts DEF PowerKept, PowerAt
    <2>4. ModeKept'
      BY <1>3 DEF ModeKept, Wanted
    <2> QED BY <2>1, <2>2, <2>3, <2>4 DEF DriverInv
  <1>4. CASE trigger6_pipe_disable
    <2>1. /\ job'.old = job.old /\ job'.new = job.new /\ job' \in Jobs
          /\ job.step = "disable" /\ job'.step = "update"
          /\ PowerAt = job.old.active /\ PowerAt' = (job.old.active /\ ~NeedsModeset(job))
      BY <1>1, <1>4 DEF trigger6_pipe_disable, PowerAt, NeedsModeset, ModeChanged
    <2>2. CASE job.old.active /\ NeedsModeset(job)
      <3>1. SetPower(FALSE)
        BY <1>4, <2>2 DEF trigger6_pipe_disable
      <3> QED BY <1>2, <1>4, <2>1, <2>2, <3>1, PowerTold DEF trigger6_pipe_disable
    <2>3. CASE ~(job.old.active /\ NeedsModeset(job))
      <3>1. UNCHANGED <<device, missed>>
        BY <1>4, <2>3 DEF trigger6_pipe_disable
      <3>2. "power" \notin missed' => device'.on = PowerAt'
        BY <1>1, <2>1, <2>3, <3>1 DEF PowerKept
      <3> QED BY <1>2, <1>4, <2>1, <3>1, <3>2 DEF trigger6_pipe_disable, DriverTypeOK
    <2> QED BY <2>2, <2>3
  <1>5. CASE trigger6_pipe_update
    <2>1. /\ job'.old = job.old /\ job'.new = job.new /\ job' \in Jobs
          /\ job.step = "update" /\ job'.step = "enable" /\ PowerAt' = PowerAt
      BY <1>1, <1>5 DEF trigger6_pipe_update, PowerAt, NeedsModeset, ModeChanged
    <2> QED BY <1>2, <1>5, <2>1 DEF trigger6_pipe_update, DriverTypeOK, PowerKept
  <1>6. CASE trigger6_pipe_enable
    <2>1. job.step = "enable" /\ PowerAt = (job.old.active /\ ~NeedsModeset(job))
          /\ job.new = crtc
      BY <1>6 DEF trigger6_pipe_enable, PowerAt, Committed
    <2>2. /\ Rest
          /\ "power" \notin missed' => device'.on = job.new.active
          /\ "mode" \in missed' <=> "mode" \in missed
          /\ device'.mode = device.mode
      <3>1. CASE job.new.active /\ NeedsModeset(job)
        <4>1. SetPower(TRUE)
          BY <1>6, <3>1 DEF trigger6_pipe_enable
        <4> QED BY <3>1, <4>1, PowerTold
      <3>2. CASE ~(job.new.active /\ NeedsModeset(job))
        <4>1. UNCHANGED <<device, missed>>
          BY <1>6, <3>2 DEF trigger6_pipe_enable
        <4>2. PowerAt = job.new.active
          BY <1>1, <2>1, <3>2 DEF NeedsModeset
        <4> QED BY <4>1, <4>2 DEF DriverTypeOK, PowerKept
      <3> QED BY <3>1, <3>2
    <2>3. CASE job.new.active /\ ModeChanged(job)
      <3>1. /\ job'.old = job.old /\ job'.new = job.new /\ job' \in Jobs
            /\ job'.step = "resolution" /\ PowerAt' = TRUE
        BY <1>1, <1>6, <2>3 DEF trigger6_pipe_enable, PowerAt
      <3> QED BY <1>2, <1>6, <2>1, <2>2, <2>3, <3>1 DEF trigger6_pipe_enable
    <2>4. CASE ~(job.new.active /\ ModeChanged(job))
      <3>1. job' = NoJob /\ ~WillSetMode
        BY <1>6, <2>4 DEF trigger6_pipe_enable, WillSetMode
      <3> QED BY <1>3, <1>6, <2>1, <2>2, <3>1 DEF trigger6_pipe_enable
    <2> QED BY <2>3, <2>4
  <1>7. CASE trigger6_set_resolution
    <2>1. /\ job.step = "resolution" /\ PowerAt = TRUE /\ job.new = crtc
          /\ job.new.active /\ ModeChanged(job) /\ job' = NoJob
      BY <1>7 DEF trigger6_set_resolution, PowerAt, Committed
    <2>2. saved = NoState /\ Wanted = crtc
      BY <2>1, DriverFacts DEF Wanted, Committed
    <2>3. /\ Rest /\ device'.on = device.on
          /\ "power" \in missed' <=> "power" \in missed
          /\ "mode" \notin missed' => device'.mode = trigger6_get_mode(job.new.mode)
      BY <1>7, ModeNumbers DEF trigger6_set_resolution, DriverTypeOK
    <2> QED BY <1>3, <1>7, <2>1, <2>2, <2>3 DEF trigger6_set_resolution, PowerKept
  <1> QED BY <1>4, <1>5, <1>6, <1>7 DEF Work

(* Commits: of a client, of a suspend and a resume, and the last one.       *)
LEMMA CommitKeeps ==
    ASSUME DriverInv,
           \/ \E new \in States : Commit(new)
           \/ trigger6_usb_suspend \/ trigger6_usb_resume \/ Shutdown
    PROVE  DriverInv'
  <1>0. DriverTypeOK /\ Committed
    BY DEF DriverInv
  <1>1. ASSUME NEW new \in States, Commit(new) PROVE DriverInv'
    <2>1. job = NoJob /\ Swap(new) /\ saved = NoState /\ saved' = NoState /\ binding' = "bound"
      BY <1>1 DEF Commit
    <2>2. Wanted = crtc /\ Wanted' = new /\ job'.old = crtc /\ job'.new = new
          /\ job'.step = "disable"
      BY <1>0, <2>1, DriverFacts DEF Wanted, Swap, DriverTypeOK
    <2>3. /\ unsent' = IF new.mode = crtc.mode THEN unsent ELSE ~new.active
          /\ new.active \in BOOLEAN /\ unsent \in BOOLEAN
      BY <1>0, <1>1, DriverFacts DEF Commit, DriverTypeOK
    <2>4. /\ unsent' \in BOOLEAN
          /\ \/ WillSetMode' \/ unsent'
             \/ unsent' = unsent /\ Wanted'.mode \in {NoMode, Wanted.mode}
      BY <2>2, <2>3 DEF WillSetMode, ModeChanged
    <2> QED BY <1>1, <2>1, <2>4, SwapKeeps DEF Commit
  <1>2. CASE trigger6_usb_suspend
    <2>1. job = NoJob /\ Swap(Off) /\ saved = NoState /\ saved' = crtc /\ binding' = "bound"
      BY <1>2 DEF trigger6_usb_suspend
    <2>2. Wanted' = Wanted
      BY <1>0, <2>1, DriverFacts DEF Wanted, DriverTypeOK
    <2> QED BY <1>0, <1>2, <2>1, <2>2, SwapKeeps, DriverFacts
            DEF trigger6_usb_suspend, DriverTypeOK
  <1>3. CASE trigger6_usb_resume
    <2>1. /\ job = NoJob /\ saved \in States /\ Swap(saved) /\ saved' = NoState
          /\ binding' = "bound"
      BY <1>0, <1>3 DEF trigger6_usb_resume, DriverTypeOK
    <2>2. Wanted' = Wanted
      BY <1>3, <2>1 DEF Wanted, trigger6_usb_resume, Swap
    <2>3. /\ crtc = Off /\ job'.old = crtc /\ job'.new = saved /\ job'.step = "disable"
          /\ saved.active \in BOOLEAN /\ unsent \in BOOLEAN
          /\ saved.active => saved.mode # NoMode
      BY <1>0, <1>3, <2>1, DriverFacts DEF Committed, Swap, DriverTypeOK, trigger6_usb_resume
    <2>4. /\ unsent' \in BOOLEAN
          /\ WillSetMode' \/ unsent' = unsent
      BY <1>3, <2>3, DriverFacts DEF trigger6_usb_resume, WillSetMode, ModeChanged
    <2> QED BY <1>3, <2>1, <2>2, <2>4, SwapKeeps DEF trigger6_usb_resume
  <1>4. CASE Shutdown
    <2>1. job = NoJob /\ Swap(Off) /\ saved' = saved /\ binding' = "disconnecting"
      BY <1>4 DEF Shutdown
    <2>2. Wanted'.mode \in {NoMode, Wanted.mode}
      BY <2>1, DriverFacts DEF Wanted, Swap
    <2> QED BY <1>0, <1>4, <2>1, <2>2, SwapKeeps, DriverFacts DEF Shutdown, DriverTypeOK
  <1> QED BY <1>1, <1>2, <1>3, <1>4

LEMMA DriverStep == DriverInv /\ [DriverNext]_driverVars => DriverInv'
  <1> SUFFICES ASSUME DriverInv, [DriverNext]_driverVars
               PROVE  DriverInv'
    OBVIOUS
  <1>1. CASE UNCHANGED driverVars
    <2>1. DriverTypeOK' /\ Committed'
      BY <1>1 DEF driverVars, DriverInv, DriverTypeOK, Committed, ModeChanged
    <2>2. PowerKept' /\ ModeKept'
      BY <1>1 DEF driverVars, DriverInv, PowerKept, PowerAt, ModeKept, Wanted, WillSetMode,
                  NeedsModeset, ModeChanged
    <2> QED BY <2>1, <2>2 DEF DriverInv
  <1>2. CASE DriverNext
    BY <1>2, BindingKeeps, CommitKeeps, WorkKeeps DEF DriverNext
  <1> QED BY <1>1, <1>2

(* Between commits the device is on and in the mode that the core has set,
   unless the message that said so was lost or the mode was set by a commit
   that left the output off (trigger6_pipe_enable never sends it): for any
   modes, any table and any sequence of commits, suspends, disconnects and
   probes.                                                                  *)
THEOREM DeviceIsInStep == DriverSpec => []DeviceFollows
  <1>1. DriverInv => DeviceFollows
    <2> SUFFICES ASSUME DriverInv, binding = "bound", job = NoJob
                 PROVE  /\ "power" \notin missed => device.on = crtc.active
                        /\ crtc.active /\ missed = {} /\ ~unsent =>
                              device.mode = trigger6_get_mode(crtc.mode)
      BY DEF DeviceFollows
    <2>1. job.step = "none" /\ PowerAt = crtc.active /\ ~WillSetMode
      BY DriverFacts DEF PowerAt, WillSetMode
    <2>2. crtc.active => crtc.mode # NoMode /\ Wanted = crtc
      BY DriverFacts DEF DriverInv, DriverTypeOK, Committed, Wanted
    <2> QED BY <2>1, <2>2 DEF DriverInv, PowerKept, ModeKept
  <1> QED BY <1>1, DriverStarts, DriverStep, PTL DEF DriverSpec

=============================================================================
