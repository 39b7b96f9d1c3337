----------------------------- MODULE PyRecords ------------------------------
(* The pure Python record implementation: aiokafka/record/util.py, default_records.py,         *)
(* legacy_records.py and memory_records.py, used where the extension is not built.             *)
EXTENDS RecordFormat, FiniteSets
LOCAL INSTANCE SequencesExt

NoTimestamp == -1                  \* None: the timestamps of the model are never negative
NotAdded == [size |-> -1]
Off == 1000000                     \* the position after an IndexError of decode_varint

-----------------------------------------------------------------------------
(* util.py.  The branches for more than five bytes are out of the model's 31-bit integers. *)
zigzag(v) == IF v >= 0 THEN 2 * v ELSE -2 * v - 1
unzigzag(z) == IF z % 2 = 0 THEN z \div 2 ELSE -((z + 1) \div 2)

encode_varint(value) ==
    LET z == zigzag(value)
        n == CHOOSE k \in 1..5 : /\ k = 5 \/ z <= 2 ^ (7 * k) - 1
                                 /\ k = 1 \/ z > 2 ^ (7 * (k - 1)) - 1
    IN  [i \in 1..n |-> LET rest == z \div 128 ^ (i - 1)
                        IN  IF i < n THEN 128 + (rest % 128) ELSE rest]

MutThreshold(value) ==
    1 + Cardinality({k \in 1..4 : zigzag(value) > 2 ^ (7 * k)})

size_of_varint(value) ==
    1 + Cardinality({k \in 1..4 : zigzag(value) > 2 ^ (7 * k) - 1})

decode_varint(buffer, start) ==
    LET RECURSIVE more(_, _, _)
        more(pos, k, result) ==
            IF pos >= Len(buffer) \/ k > 4 THEN [value |-> 0, pos |-> Off]
            ELSE LET b == buffer[pos + 1]
                     z == result + (b % 128) * 128 ^ k
                 IN  IF b < 128 THEN [value |-> unzigzag(z), pos |-> pos + 1]
                                ELSE more(pos + 1, k + 1, z)
    IN  more(start, 0, 0)

(* What read gives, n times in a row. *)
in_a_row(read(_, _), buffer, start, n) ==
    LET RECURSIVE more(_, _)
        more(pos, values) ==
            LET next == read(buffer, pos)
            IN  IF Len(values) = n THEN [values |-> values, pos |-> pos]
                ELSE more(next.pos, Append(values, next.value))
    IN  more(start, <<>>)

-----------------------------------------------------------------------------
(* _DefaultRecordBatchBuilderPy: magic 2. *)
new_default_builder(conf) ==
    [magic |-> 2, codec |-> conf.codec, batch_size |-> conf.batch_size,
     is_transactional |-> conf.transactional, producer_id |-> -1, producer_epoch |-> -1,
     base_sequence |-> 0, first_timestamp |-> NoTimestamp, max_timestamp |-> NoTimestamp,
     last_offset |-> 0, num_records |-> 0, buffer |-> pack(HEADER_SIZE, 0)]

write_bytes(blob) == IF blob = Null THEN <<1>> ELSE encode_varint(Len(blob)) \o blob

message(timestamp_delta, offset, r) ==
    <<0>> \o encode_varint(timestamp_delta) \o encode_varint(offset)
        \o write_bytes(r.key) \o write_bytes(r.value) \o encode_varint(Len(r.headers))
        \o FlattenSeq([i \in DOMAIN r.headers |->
                encode_varint(Len(r.headers[i].key)) \o r.headers[i].key
                    \o write_bytes(r.headers[i].value)])

delta_of(b, r) == IF b.first_timestamp = NoTimestamp THEN 0 ELSE r.timestamp - b.first_timestamp

default_append(b, offset, r) ==
    LET first_message == b.first_timestamp = NoTimestamp
        message_buffer == message(delta_of(b, r), offset, r)
        required_size == Len(message_buffer) + size_of_varint(Len(message_buffer))
    IN  IF required_size + Len(b.buffer) > b.batch_size /\ ~first_message
        THEN [builder |-> b, metadata |-> NotAdded]
        ELSE [builder |->
                [b EXCEPT !.first_timestamp = IF first_message THEN r.timestamp ELSE @,
                          !.max_timestamp = IF first_message \/ @ < r.timestamp
                                            THEN r.timestamp ELSE @,
                          !.num_records = @ + 1, !.last_offset = offset,
                          !.buffer = @ \o encode_varint(Len(message_buffer)) \o message_buffer],
              metadata |-> [size |-> required_size]]

get_attributes(b, include_compression_type) ==
    (IF include_compression_type THEN b.codec ELSE 0) + (IF b.is_transactional THEN 16 ELSE 0)

write_header(b, use_compression_type) ==
    LET header == pack_header(
            [base_offset |-> 0, length |-> Len(b.buffer) - LOG_OVERHEAD, leader_epoch |-> -1,
             magic |-> b.magic, crc |-> 0, attributes |-> get_attributes(b, use_compression_type),
             last_offset_delta |-> b.last_offset,
             first_timestamp |-> IF b.first_timestamp = NoTimestamp THEN 0 ELSE b.first_timestamp,
             max_timestamp |-> IF b.max_timestamp = NoTimestamp THEN 0 ELSE b.max_timestamp,
             producer_id |-> b.producer_id, producer_epoch |-> b.producer_epoch,
             base_sequence |-> b.base_sequence, num_records |-> b.num_records])
        full == header \o slice(b.buffer, HEADER_SIZE, Len(b.buffer))
    IN  patch(full, CRC_OFFSET, pack(4, calc_crc(slice(full, ATTRIBUTES_OFFSET, Len(full)))))

(* _maybe_compress and build: compressed data is kept only where it is shorter. *)
default_build(b) ==
    LET data == slice(b.buffer, HEADER_SIZE, Len(b.buffer))
        compressed == codec_encode(data)
    IN  IF b.codec = CODEC_NONE \/ Len(data) <= Len(compressed) THEN write_header(b, FALSE)
        ELSE write_header([b EXCEPT !.buffer = slice(@, 0, HEADER_SIZE) \o compressed], TRUE)

size_of(r) ==
    LET blob(x) == IF x = Null THEN 1 ELSE size_of_varint(Len(x)) + Len(x)
        RECURSIVE headers(_)
        headers(i) == IF i > Len(r.headers) THEN 0
                      ELSE blob(r.headers[i].key) + blob(r.headers[i].value) + headers(i + 1)
    IN  blob(r.key) + blob(r.value) + size_of_varint(Len(r.headers)) + headers(1)

default_size_in_bytes(b, offset, r) ==
    LET body == 1 + size_of_varint(offset) + size_of_varint(delta_of(b, r)) + size_of(r)
    IN  body + size_of_varint(body)

MAX_RECORD_OVERHEAD == 21
estimate_size_in_bytes(r) == HEADER_SIZE + MAX_RECORD_OVERHEAD + size_of(r)

-----------------------------------------------------------------------------
(* _DefaultRecordBatchPy. *)
read_bytes(buffer, pos) ==
    LET blob(from, size) ==
            IF size < 0 THEN [value |-> Null, pos |-> from]
            ELSE [value |-> slice(buffer, from, IF from + size > Len(buffer) THEN Len(buffer) ELSE from + size),
                  pos |-> from + size]
        n == decode_varint(buffer, pos)
    IN  blob(n.pos, n.value)

read_headers(buffer, start, count) ==
    LET Headers(read) ==
            [value |-> [i \in 1..count |-> [key |-> read.values[2 * i - 1], value |-> read.values[2 * i]]],
             pos |-> IF \E i \in 1..count : read.values[2 * i - 1] = Null THEN Off ELSE read.pos]
    IN  IF count < 0 THEN [value |-> <<>>, pos |-> Off]
        ELSE Headers(in_a_row(read_bytes, buffer, start, 2 * count))

read_msg(h, buffer, start) ==
    LET length == decode_varint(buffer, start)
        ints == in_a_row(decode_varint, buffer, length.pos, 3)  \* attrs, ts_delta, offset_delta
        blobs == in_a_row(read_bytes, buffer, ints.pos, 2)      \* key, value
        header_count == decode_varint(buffer, blobs.pos)
        Message(deltas, key_value, headers) ==
            [record |-> [offset |-> h.base_offset + deltas[3],
                         timestamp |-> IF log_append_time(h.attributes) THEN h.max_timestamp
                                       ELSE h.first_timestamp + deltas[2],
                         timestamp_type |-> IF log_append_time(h.attributes) THEN 1 ELSE 0,
                         key |-> key_value[1], value |-> key_value[2], headers |-> headers.value],
             pos |-> headers.pos,
             valid |-> headers.pos < Off /\ headers.pos - length.pos = length.value]
    IN  Message(ints.values, blobs.values, read_headers(buffer, header_count.pos, header_count.value))

(* __iter__ and __next__: _maybe_uncompress, then the records, then nothing may be left. *)
default_iter(buf) ==
    LET Records(h, buffer) ==
            LET RECURSIVE next(_, _)
                next(index, pos) ==
                    LET After(msg) ==
                            IF msg.valid THEN Then(msg.record, next(index + 1, msg.pos)) ELSE Raises
                    IN  IF index >= h.num_records
                        THEN IF pos = Len(buffer) THEN Yields(<<>>) ELSE Raises
                        ELSE After(read_msg(h, buffer, pos))
            IN  next(0, 0)
        data == slice(buf, HEADER_SIZE, Len(buf))
        header == unpack_header(buf)
    IN  Records(header, IF codec_of(header.attributes) = CODEC_NONE THEN data ELSE codec_decode(data))

MutCountRecords(buf) == unpack_header(buf).base_offset + unpack_header(buf).num_records

default_next_offset(buf) ==
    unpack_header(buf).base_offset + unpack_header(buf).last_offset_delta + 1

default_validate_crc(buf) ==
    unpack_header(buf).crc = calc_crc(slice(buf, ATTRIBUTES_OFFSET, Len(buf)))

-----------------------------------------------------------------------------
(* _LegacyRecordBatchBuilderPy: magic 0 and 1. *)
new_legacy_builder(conf) ==
    [magic |-> conf.magic, codec |-> conf.codec, batch_size |-> conf.batch_size,
     buffer |-> <<>>, pos |-> 0]

RECORD_OVERHEAD(magic) == IF magic = 0 THEN 14 ELSE 22
KEY_OFFSET(magic) == IF magic = 0 THEN 18 ELSE 26
LEGACY_MAGIC_OFFSET == 16
LEGACY_CRC_OFFSET == 12

legacy_size(magic, key_size, value_size) ==
    LOG_OVERHEAD + RECORD_OVERHEAD(magic) + key_size + value_size

legacy_size_in_bytes(b, r) == legacy_size(b.magic, size_or_0(r.key), size_or_0(r.value))

pack_bytes(blob) == IF blob = Null THEN pack(4, -1) ELSE pack(4, Len(blob)) \o blob

legacy_encode_msg(magic, offset, timestamp, key, value, attributes) ==
    LET length == 4 + size_or_0(key) + 4 + size_or_0(value) - LOG_OVERHEAD + KEY_OFFSET(magic)
        buf == pack(8, offset) \o pack(4, length) \o pack(4, 0) \o <<magic, attributes>>
                   \o (IF magic = 0 THEN <<>> ELSE pack(8, timestamp))
                   \o pack_bytes(key) \o pack_bytes(value)
    IN  patch(buf, LEGACY_CRC_OFFSET,
              pack(4, calc_crc(slice(buf, LEGACY_MAGIC_OFFSET, Len(buf)))))

legacy_append(b, offset, r) ==
    LET size == legacy_size_in_bytes(b, r)
    IN  IF offset # 0 /\ b.pos + size >= b.batch_size
        THEN [builder |-> b, metadata |-> NotAdded]
        ELSE [builder |-> [b EXCEPT !.pos = @ + size,
                               !.buffer = @ \o legacy_encode_msg(b.magic, offset,
                                   IF b.magic = 0 THEN -1 ELSE r.timestamp, r.key, r.value, 0)],
              metadata |-> [size |-> size]]

(* _maybe_compress and build: the message set becomes the value of one wrapper message. *)
legacy_build(b) ==
    IF b.codec = CODEC_NONE THEN b.buffer
    ELSE legacy_encode_msg(b.magic, 0, 0, Null, codec_encode(b.buffer), b.codec)

-----------------------------------------------------------------------------
(* _LegacyRecordBatchPy. *)
legacy_read_header(magic, buf, pos) ==
    [offset |-> unpack(buf, pos, 8), length |-> unpack(buf, pos + 8, 4),
     crc |-> unpack(buf, pos + 12, 4), magic |-> unpack(buf, pos + 16, 1),
     attrs |-> unpack(buf, pos + 17, 1),
     timestamp |-> IF magic = 0 THEN NoTimestamp ELSE unpack(buf, pos + 18, 8)]

legacy_read_all_headers(magic, buf) ==
    LET RECURSIVE headers(_)
        headers(pos) ==
            IF pos >= Len(buf) THEN <<>>
            ELSE LET h == legacy_read_header(magic, buf, pos)
                 IN  <<[header |-> h, pos |-> pos]>> \o headers(pos + LOG_OVERHEAD + h.length)
    IN  headers(0)

legacy_read_key_value(buf, start) ==
    LET blob(pos, size) == IF size = -1 THEN Null ELSE slice(buf, pos + 4, pos + 4 + size)
        key_size == unpack(buf, start, 4)
        value_at == start + 4 + (IF key_size = -1 THEN 0 ELSE key_size)
    IN  [key |-> blob(start, key_size), value |-> blob(value_at, unpack(buf, value_at, 4))]

legacy_timestamp_type(magic, attrs) ==
    IF magic = 0 THEN -1 ELSE IF log_append_time(attrs) THEN 1 ELSE 0

(* Of a body whose value is not None: that is checked before. *)
legacy_decompress(body) == codec_decode(body.value)

MutRelative(magic, main, inner) ==
    LET headers == legacy_read_all_headers(magic, inner)
        Message(i, read) ==
            [offset |-> main.offset - Len(headers) + i, timestamp |-> read.header.timestamp,
             body |-> legacy_read_key_value(inner, read.pos + KEY_OFFSET(magic))]
    IN  [i \in DOMAIN headers |-> Message(i, headers[i])]

(* The messages inside a wrapper: with magic 1 their offsets are relative to the last one's. *)
legacy_inner(magic, main, inner) ==
    LET headers == legacy_read_all_headers(magic, inner)
        absolute_base_offset == IF magic > 0 THEN main.offset - Last(headers).header.offset ELSE -1
        Message(read) ==
            [offset |-> read.header.offset + (IF absolute_base_offset >= 0 THEN absolute_base_offset ELSE 0),
             timestamp |-> read.header.timestamp,
             body |-> legacy_read_key_value(inner, read.pos + KEY_OFFSET(magic))]
    IN  [i \in DOMAIN headers |-> Message(headers[i])]

legacy_iter(magic, buf) ==
    LET Records(main, body) ==
            LET timestamp_type == legacy_timestamp_type(magic, main.attrs)
                Record(msg) ==
                    [offset |-> msg.offset,
                     timestamp |-> IF timestamp_type = 1 THEN main.timestamp ELSE msg.timestamp,
                     timestamp_type |-> timestamp_type, key |-> msg.body.key,
                     value |-> msg.body.value, headers |-> <<>>]
                inner == legacy_inner(magic, main, legacy_decompress(body))
            IN  IF codec_of(main.attrs) = CODEC_NONE
                THEN Yields(<<Record([offset |-> main.offset, timestamp |-> main.timestamp, body |-> body])>>)
                ELSE IF body.value = Null THEN Raises
                ELSE Yields([i \in DOMAIN inner |-> Record(inner[i])])
    IN  Records(legacy_read_header(magic, buf, 0), legacy_read_key_value(buf, KEY_OFFSET(magic)))

legacy_next_offset(buf) == unpack(buf, 0, 8) + 1

legacy_validate_crc(buf) ==
    unpack(buf, LEGACY_CRC_OFFSET, 4) = calc_crc(slice(buf, LEGACY_MAGIC_OFFSET, Len(buf)))

-----------------------------------------------------------------------------
(* _MemoryRecordsPy: the whole batches at the head of a fetched buffer. *)
MIN_SLICE == LOG_OVERHEAD + RECORD_OVERHEAD(0)

NoSlice == [end |-> -1]

cache_next(buffer, pos) ==
    IF Len(buffer) - pos < LOG_OVERHEAD THEN NoSlice
    ELSE LET slice_end == pos + LOG_OVERHEAD + unpack(buffer, pos + LENGTH_OFFSET, 4)
         IN  IF slice_end > Len(buffer) THEN NoSlice ELSE [end |-> slice_end]

next_batch(buffer, pos) ==
    LET next == cache_next(buffer, pos)
    IN  IF next = NoSlice THEN [kind |-> "none"]
        ELSE IF next.end - pos < MIN_SLICE THEN [kind |-> "corrupt"]
        ELSE [kind |-> "batch", magic |-> buffer[pos + MAGIC_OFFSET + 1], end |-> next.end]
=============================================================================
