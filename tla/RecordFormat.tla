---------------------------- MODULE RecordFormat ----------------------------
(* What both record implementations of aiokafka share: byte strings, the fixed-width fields    *)
(* of struct and hton.pxd, the layout of a batch of magic 2, and, as externals, the checksum   *)
(* and a codec.  A byte string is a sequence of 0..255; the bytes of keys, values and headers  *)
(* are carried as they are.  Positions count from 0, as in the code.                           *)
EXTENDS Integers, Sequences

(* The value None of a key, of a value or of a header's value: no byte string. *)
Null == <<-1>>

(* Fields of w bytes, most significant byte first, in two's complement.  The values of the     *)
(* model fit in 31 bits, so the bytes above the fourth only repeat the sign.                   *)
pack(w, v) == [i \in 1..w |-> IF w - i >= 4 THEN (IF v < 0 THEN 255 ELSE 0)
                                            ELSE (v \div 256 ^ (w - i)) % 256]

unpack(buf, pos, w) ==
    LET byte(i) == buf[pos + i]
        low == IF w > 4 THEN w - 3 ELSE 1
        top == IF byte(low) >= 128 THEN byte(low) - 256 ELSE byte(low)
        RECURSIVE value(_, _)
        value(i, v) == IF i > w THEN v ELSE value(i + 1, 256 * v + byte(i))
    IN  value(low + 1, top)

size_or_0(blob) == IF blob = Null THEN 0 ELSE Len(blob)

slice(buf, from, to) == SubSeq(buf, from + 1, to)

patch(buf, pos, bytes) == slice(buf, 0, pos) \o bytes \o slice(buf, pos + Len(bytes), Len(buf))

(* crc32 and crc32c: a checksum that depends on every byte and on its place. *)
calc_crc(buf) ==
    LET RECURSIVE sum(_, _)
        sum(i, j) == IF i > j THEN 0
                     ELSE IF i = j THEN (i + 1) * (buf[i] + 1)
                     ELSE LET k == (i + j) \div 2 IN (sum(i, k) + sum(k + 1, j)) % 8388593
    IN  sum(1, Len(buf))

(* A codec: runs of a byte become pairs of a count and the byte.  Like the real ones it makes  *)
(* repetitive data shorter and other data longer.                                              *)
codec_encode(data) ==
    LET RECURSIVE run(_, _)
        run(i, j) == IF j < Len(data) /\ j - i < 254 /\ data[j + 1] = data[i]
                     THEN run(i, j + 1) ELSE j
        RECURSIVE runs(_)
        runs(i) == IF i > Len(data) THEN <<>>
                   ELSE LET j == run(i, i) IN <<j - i + 1, data[i]>> \o runs(j + 1)
    IN  runs(1)

codec_decode(data) ==
    LET RECURSIVE runs(_)
        runs(i) == IF i >= Len(data) THEN <<>>
                   ELSE [k \in 1..data[i] |-> data[i + 1]] \o runs(i + 2)
    IN  runs(1)

CODEC_NONE == 0

(* The bits of the attributes of a batch or of a message. *)
codec_of(attributes) == attributes % 8
log_append_time(attributes) == (attributes \div 8) % 2 = 1

LENGTH_OFFSET == 8
LOG_OVERHEAD == 12
MAGIC_OFFSET == 16
CRC_OFFSET == 17
ATTRIBUTES_OFFSET == 21
HEADER_SIZE == 61

(* HEADER_STRUCT: the header of a batch of magic 2. *)
pack_header(h) ==
    pack(8, h.base_offset) \o pack(4, h.length) \o pack(4, h.leader_epoch) \o pack(1, h.magic)
        \o pack(4, h.crc) \o pack(2, h.attributes) \o pack(4, h.last_offset_delta)
        \o pack(8, h.first_timestamp) \o pack(8, h.max_timestamp) \o pack(8, h.producer_id)
        \o pack(2, h.producer_epoch) \o pack(4, h.base_sequence) \o pack(4, h.num_records)

unpack_header(buf) ==
    [base_offset |-> unpack(buf, 0, 8), length |-> unpack(buf, 8, 4),
     leader_epoch |-> unpack(buf, 12, 4), magic |-> unpack(buf, 16, 1),
     crc |-> unpack(buf, 17, 4), attributes |-> unpack(buf, 21, 2),
     last_offset_delta |-> unpack(buf, 23, 4), first_timestamp |-> unpack(buf, 27, 8),
     max_timestamp |-> unpack(buf, 35, 8), producer_id |-> unpack(buf, 43, 8),
     producer_epoch |-> unpack(buf, 51, 2), base_sequence |-> unpack(buf, 53, 4),
     num_records |-> unpack(buf, 57, 4)]

(* What iterating over a batch gives: the records yielded, and whether it then raises          *)
(* CorruptRecordException.                                                                     *)
Yields(records) == [records |-> records, corrupt |-> FALSE]
Raises == [records |-> <<>>, corrupt |-> TRUE]
Then(r, rest) == [rest EXCEPT !.records = <<r>> \o @]
=============================================================================
