----------------------------- MODULE CyRecords ------------------------------
(* The Cython record implementation, aiokafka/record/_crecords, used where it is built.  Its   *)
(* integers are C integers; -1 stands for an absent timestamp in the code itself.              *)
EXTENDS RecordFormat
LOCAL INSTANCE SequencesExt

NotAdded == [size |-> -1]

-----------------------------------------------------------------------------
(* cutil.pyx.  (value << 1) ^ (value >> 63), then seven bits a byte, the low ones first. *)
zigzag64(value) == IF value < 0 THEN -2 * (value + 1) + 1 ELSE 2 * value

encode_varint64(value) ==
    LET RECURSIVE bytes(_)
        bytes(v) == IF v >= 128 THEN <<128 + (v % 128)>> \o bytes(v \div 128) ELSE <<v>>
    IN  bytes(zigzag64(value))

size_of_varint64(value) ==
    LET RECURSIVE bytes(_)
        bytes(v) == IF v >= 128 THEN 1 + bytes(v \div 128) ELSE 1
    IN  bytes(zigzag64(value))

(* A read past the end, or a value out of range, is reported by a position past the end: the   *)
(* caller's next _check_bounds, or the check of the record's size, then fails.                 *)
decode_varint64(buf, start) ==
    LET beyond == [value |-> 0, pos |-> Len(buf) + 1]
        RECURSIVE loop(_, _, _)
        loop(pos, shift, v) ==
            IF pos >= Len(buf) \/ shift > 4 THEN beyond
            ELSE LET byte == buf[pos + 1]
                     w == v + (byte % 128) * 128 ^ shift
                 IN  IF byte >= 128 THEN loop(pos + 1, shift + 1, w)
                     ELSE [value |-> IF w % 2 = 1 THEN -(w \div 2) - 1 ELSE w \div 2,
                           pos |-> pos + 1]
    IN  loop(start, 0, 0)

(* What read gives, n times in a row. *)
in_a_row(read(_, _), buf, start, n) ==
    LET RECURSIVE loop(_, _)
        loop(pos, values) ==
            LET next == read(buf, pos)
            IN  IF Len(values) = n THEN [values |-> values, pos |-> pos]
                ELSE loop(next.pos, Append(values, next.value))
    IN  loop(start, <<>>)

-----------------------------------------------------------------------------
(* DefaultRecordBatchBuilder: magic 2. *)
new_default_builder(conf) ==
    [magic |-> 2, codec |-> conf.codec, batch_size |-> conf.batch_size,
     is_transactional |-> conf.transactional, producer_id |-> -1, producer_epoch |-> -1,
     base_sequence |-> 0, first_timestamp |-> -1, max_timestamp |-> -1, last_offset |-> 0,
     num_records |-> 0, buffer |-> pack(HEADER_SIZE, 0)]

bytelike_size(blob) == IF blob = Null THEN 1 ELSE size_of_varint64(Len(blob)) + Len(blob)

size_of(r) ==
    LET RECURSIVE headers(_)
        headers(i) == IF i > Len(r.headers) THEN 0
                      ELSE bytelike_size(r.headers[i].key) + bytelike_size(r.headers[i].value)
                               + headers(i + 1)
    IN  bytelike_size(r.key) + bytelike_size(r.value) + size_of_varint64(Len(r.headers))
            + headers(1)

size_of_body(b, offset, r) ==
    1 + size_of_varint64(offset)
      + size_of_varint64(IF b.first_timestamp # -1 THEN r.timestamp - b.first_timestamp ELSE 0)
      + size_of(r)

default_size_in_bytes(b, offset, r) ==
    LET size == size_of_body(b, offset, r) IN size + size_of_varint64(size)

MAX_RECORD_OVERHEAD == 21
estimate_size_in_bytes(r) == HEADER_SIZE + MAX_RECORD_OVERHEAD + size_of(r)

encode_bytes(blob) == IF blob = Null THEN encode_varint64(-1)
                      ELSE encode_varint64(Len(blob)) \o blob

default_encode_msg(b, offset, msg_size, r) ==
    encode_varint64(msg_size) \o <<0>>
        \o encode_varint64(IF b.first_timestamp = -1 THEN 0 ELSE r.timestamp - b.first_timestamp)
        \o encode_varint64(offset) \o encode_bytes(r.key) \o encode_bytes(r.value)
        \o encode_varint64(Len(r.headers))
        \o FlattenSeq([i \in DOMAIN r.headers |->
               encode_bytes(r.headers[i].key) \o encode_bytes(r.headers[i].value)])

(* The message is written into a buffer grown by exactly the size computed before. *)
fitted(bytes, size) == [i \in 1..size |-> IF i <= Len(bytes) THEN bytes[i] ELSE 0]

default_append(b, offset, r) ==
    LET size == default_size_in_bytes(b, offset, r)
        bytes == default_encode_msg(b, offset, size_of_body(b, offset, r), r)
    IN  IF offset # 0 /\ Len(b.buffer) + size >= b.batch_size
        THEN [builder |-> b, metadata |-> NotAdded]
        ELSE [builder |->
                [b EXCEPT !.first_timestamp = IF @ = -1 THEN r.timestamp ELSE @,
                          !.max_timestamp = IF b.first_timestamp = -1 \/ @ < r.timestamp
                                            THEN r.timestamp ELSE @,
                          !.num_records = @ + 1, !.last_offset = offset,
                          !.buffer = @ \o fitted(bytes, size)],
              metadata |-> [size |-> size]]

get_attributes(b, include_compression_type) ==
    (IF include_compression_type THEN b.codec ELSE 0) + (IF b.is_transactional THEN 16 ELSE 0)

write_header(b, use_compression_type) ==
    LET header == pack_header(
            [base_offset |-> 0, length |-> Len(b.buffer) - 12, leader_epoch |-> -1,
             magic |-> b.magic, crc |-> 0, attributes |-> get_attributes(b, use_compression_type),
             last_offset_delta |-> b.last_offset, first_timestamp |-> b.first_timestamp,
             max_timestamp |-> b.max_timestamp, producer_id |-> b.producer_id,
             producer_epoch |-> b.producer_epoch, base_sequence |-> b.base_sequence,
             num_records |-> b.num_records])
        full == header \o slice(b.buffer, HEADER_SIZE, Len(b.buffer))
    IN  patch(full, CRC_OFFSET, pack(4, calc_crc(slice(full, ATTRIBUTES_OFFSET, Len(full)))))

(* _maybe_compress and build: compressed data is kept even where it is longer. *)
default_build(b) ==
    IF b.codec = CODEC_NONE THEN write_header(b, FALSE)
    ELSE write_header([b EXCEPT !.buffer = slice(@, 0, HEADER_SIZE)
                                   \o codec_encode(slice(@, HEADER_SIZE, Len(@)))], TRUE)

-----------------------------------------------------------------------------
(* DefaultRecordBatch. *)
in_bounds(buf, pos, size) == pos + size <= Len(buf)

read_bytes(buf, pos) ==
    LET blob(from, size) ==
            IF size < 0 THEN [value |-> Null, pos |-> from]
            ELSE IF ~in_bounds(buf, from, size) THEN [value |-> Null, pos |-> Len(buf) + 1]
            ELSE [value |-> slice(buf, from, from + size), pos |-> from + size]
        n == decode_varint64(buf, pos)
    IN  blob(n.pos, n.value)

read_headers(buf, start, count) ==
    LET beyond == Len(buf) + 1
        Headers(read) ==
            [value |-> [i \in 1..count |-> [key |-> read.values[2 * i - 1], value |-> read.values[2 * i]]],
             pos |-> IF \E i \in 1..count : read.values[2 * i - 1] = Null THEN beyond ELSE read.pos]
    IN  IF count < 0 THEN [value |-> <<>>, pos |-> beyond]
        ELSE Headers(in_a_row(read_bytes, buf, start, 2 * count))

read_msg(h, buf, start) ==
    LET length == decode_varint64(buf, start)
        ints == in_a_row(decode_varint64, buf, length.pos, 3)  \* attrs, ts_delta, offset_delta
        blobs == in_a_row(read_bytes, buf, ints.pos, 2)        \* key, value
        header_count == decode_varint64(buf, blobs.pos)
        Message(deltas, key_value, headers) ==
            [record |-> [offset |-> h.base_offset + deltas[3],
                         timestamp |-> IF log_append_time(h.attributes) THEN h.max_timestamp
                                       ELSE h.first_timestamp + deltas[2],
                         timestamp_type |-> IF log_append_time(h.attributes) THEN 1 ELSE 0,
                         key |-> key_value[1], value |-> key_value[2], headers |-> headers.value],
             pos |-> headers.pos,
             valid |-> headers.pos <= Len(buf) /\ headers.pos - length.pos = length.value]
    IN  Message(ints.values, blobs.values, read_headers(buf, header_count.pos, header_count.value))

maybe_uncompress(h, buf) ==
    LET data == slice(buf, HEADER_SIZE, Len(buf))
    IN  IF codec_of(h.attributes) = CODEC_NONE THEN data ELSE codec_decode(data)

default_iter(batch) ==
    LET Records(h, buf) ==
            LET RECURSIVE next(_, _)
                next(index, pos) ==
                    LET After(msg) ==
                            IF msg.valid THEN Then(msg.record, next(index + 1, msg.pos)) ELSE Raises
                    IN  IF index >= h.num_records
                        THEN IF pos = Len(buf) THEN Yields(<<>>) ELSE Raises
                        ELSE After(read_msg(h, buf, pos))
            IN  next(0, 0)
        header == unpack_header(batch)
    IN  Records(header, maybe_uncompress(header, batch))

default_next_offset(buf) ==
    unpack_header(buf).base_offset + unpack_header(buf).last_offset_delta + 1

default_validate_crc(buf) ==
    unpack_header(buf).crc = calc_crc(slice(buf, ATTRIBUTES_OFFSET, Len(buf)))

-----------------------------------------------------------------------------
(* LegacyRecordBatchBuilder: magic 0 and 1. *)
new_legacy_builder(conf) ==
    [magic |-> conf.magic, codec |-> conf.codec, batch_size |-> conf.batch_size, buffer |-> <<>>]

RECORD_OVERHEAD(magic) == IF magic = 0 THEN 14 ELSE 22
KEY_OFFSET(magic) == IF magic = 0 THEN 18 ELSE 26

legacy_size(magic, key, value) ==
    LOG_OVERHEAD + RECORD_OVERHEAD(magic) + size_or_0(key) + size_or_0(value)

legacy_size_in_bytes(b, r) == legacy_size(b.magic, r.key, r.value)

legacy_encode_msg(magic, offset, timestamp, key, value, attributes) ==
    LET sized(blob) == IF blob = Null THEN pack(4, -1) ELSE pack(4, Len(blob)) \o blob
        after_magic == <<magic, attributes>> \o (IF magic = 1 THEN pack(8, timestamp) ELSE <<>>)
                           \o sized(key) \o sized(value)
        length == 4 + Len(after_magic)
    IN  pack(8, offset) \o pack(4, length) \o pack(4, calc_crc(after_magic)) \o after_magic

legacy_append(b, offset, r) ==
    LET size == legacy_size_in_bytes(b, r)
        ts == IF b.magic = 0 THEN -1 ELSE r.timestamp
    IN  IF offset # 0 /\ Len(b.buffer) + size >= b.batch_size
        THEN [builder |-> b, metadata |-> NotAdded]
        ELSE [builder |-> [b EXCEPT !.buffer = @ \o
                  fitted(legacy_encode_msg(b.magic, offset, ts, r.key, r.value, 0), size)],
              metadata |-> [size |-> size]]

legacy_build(b) ==
    IF b.codec = CODEC_NONE THEN b.buffer
    ELSE LET compressed == codec_encode(b.buffer)
         IN  fitted(legacy_encode_msg(b.magic, 0, 0, Null, compressed, b.codec),
                    legacy_size(b.magic, Null, compressed))

-----------------------------------------------------------------------------
(* LegacyRecordBatch. *)
Unreadable == [valid |-> FALSE]

legacy_read_bytes(buf, pos) ==
    LET blob(size) ==
            IF size = -1 THEN [valid |-> TRUE, value |-> Null, pos |-> pos + 4]
            ELSE IF size < 0 \/ size > Len(buf) - pos - 4 THEN Unreadable
            ELSE [valid |-> TRUE, value |-> slice(buf, pos + 4, pos + 4 + size), pos |-> pos + 4 + size]
    IN  IF ~in_bounds(buf, pos, 4) THEN Unreadable ELSE blob(unpack(buf, pos, 4))

legacy_read_record(buf, pos) ==
    LET magic == buf[pos + MAGIC_OFFSET + 1]
        Record(key, value) ==
            IF \/ magic = 1 /\ ~in_bounds(buf, pos, LOG_OVERHEAD + RECORD_OVERHEAD(1))
               \/ ~key.valid
               \/ ~value.valid
            THEN Unreadable
            ELSE [valid |-> TRUE, offset |-> unpack(buf, pos, 8),
                  crc |-> unpack(buf, pos + 12, 4), attributes |-> buf[pos + 18],
                  timestamp |-> IF magic = 1 THEN unpack(buf, pos + 18, 8) ELSE -1,
                  key |-> key.value, value |-> value.value, pos |-> value.pos]
        key_read == legacy_read_bytes(buf, pos + KEY_OFFSET(magic))
    IN  IF ~in_bounds(buf, pos, LOG_OVERHEAD + RECORD_OVERHEAD(0)) THEN Unreadable
        ELSE Record(key_read, legacy_read_bytes(buf, key_read.pos))

legacy_read_last_offset(buf) ==
    LET RECURSIVE last(_)
        last(pos) == LET end == pos + LOG_OVERHEAD + unpack(buf, pos + LENGTH_OFFSET, 4)
                     IN  IF end < Len(buf) THEN last(end) ELSE unpack(buf, pos, 8)
    IN  last(0)

legacy_public(rec) ==
    [offset |-> rec.offset, timestamp |-> rec.timestamp,
     timestamp_type |-> IF rec.timestamp = -1 THEN -1
                        ELSE IF log_append_time(rec.attributes) THEN 1 ELSE 0,
     key |-> rec.key, value |-> rec.value, headers |-> <<>>]

(* __iter__: the messages inside a wrapper take its timestamp where the broker set it. *)
legacy_iter(magic, batch) ==
    LET Inner(main, buf) ==
            LET base == IF magic > 0 THEN main.offset - legacy_read_last_offset(buf) ELSE -1
                stamped(rec) == IF log_append_time(main.attributes)
                                THEN [rec EXCEPT !.timestamp = main.timestamp, !.attributes = 8] ELSE rec
                moved(rec) == [rec EXCEPT !.offset = @ + (IF base >= 0 THEN base ELSE 0)]
                RECURSIVE next(_)
                next(pos) ==
                    LET After(rec) ==
                            IF rec.valid THEN Then(legacy_public(moved(stamped(rec))), next(rec.pos)) ELSE Raises
                    IN  IF pos >= Len(buf) THEN Yields(<<>>) ELSE After(legacy_read_record(buf, pos))
            IN  next(0)
        Records(main) ==
            CASE ~main.valid -> Raises
              [] main.valid /\ codec_of(main.attributes) = CODEC_NONE -> Yields(<<legacy_public(main)>>)
              [] OTHER -> IF main.value = Null THEN Raises ELSE Inner(main, codec_decode(main.value))
    IN  Records(legacy_read_record(batch, 0))

legacy_next_offset(buf) == unpack(buf, 0, 8) + 1

legacy_validate_crc(buf) ==
    unpack(buf, 12, 4) = calc_crc(slice(buf, MAGIC_OFFSET, Len(buf)))

-----------------------------------------------------------------------------
(* MemoryRecords: _get_next looks for the magic at the head of the buffer, not of the batch. *)
has_next(buf, pos) ==
    /\ Len(buf) - pos >= LOG_OVERHEAD
    /\ Len(buf) - pos >= LOG_OVERHEAD + unpack(buf, pos + LENGTH_OFFSET, 4)

next_batch(buf, pos) ==
    IF Len(buf) - pos < LOG_OVERHEAD THEN [kind |-> "none"]
    ELSE LET length == unpack(buf, pos + LENGTH_OFFSET, 4)
         IN  IF length < RECORD_OVERHEAD(0) THEN [kind |-> "corrupt"]
             ELSE IF pos + LOG_OVERHEAD + length > Len(buf) THEN [kind |-> "none"]
             ELSE [kind |-> "batch", magic |-> buf[MAGIC_OFFSET + 1],
                   end |-> pos + LOG_OVERHEAD + length]
=============================================================================
