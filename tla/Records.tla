------------------------------ MODULE Records -------------------------------
(* A record's way from a producer's BatchBuilder (message_accumulator.py) through a broker's   *)
(* log into MemoryRecords and the batches a fetcher iterates over, with either implementation  *)
(* of aiokafka.record on either side: batches are built, sent, stamped by the broker, possibly *)
(* compacted, and fetched again in a response that may be cut at any byte.                     *)
EXTENDS RecordFormat, FiniteSets, TLC
LOCAL INSTANCE SequencesExt

CONSTANTS
    Inputs,          \* the records a producer may append: [timestamp, key, value, headers]
    Modes,           \* configurations: [writer, reader, magics, codec, batch_size,
                     \*                  transactional, append_time]
    StoreTime,       \* the broker's clock, in a topic with LogAppendTime
    MaxRecords,      \* bound on the records of a batch
    CutPoints        \* bound: how far from the head of a batch a response may be cut

Py == INSTANCE PyRecords
Cy == INSTANCE CyRecords

VARIABLES
    mode,            \* the configuration, chosen once
    builder,         \* BatchBuilder._builder of the batch being filled
    relative_offset, \* BatchBuilder._relative_offset
    added,           \* what append() returned: [record, size, promised]
    buffer,          \* BatchBuilder._buffer: <<>> until _build()
    log,             \* the broker's log of the partition: [bytes, base, records]
    log_end,         \* its end offset
    sent,            \* batches produced so far
    fetched          \* what the last response gave: [from, cut, records, corrupt, valid, next]

vars == <<mode, builder, relative_offset, added, buffer, log, log_end, sent, fetched>>

NotFetched == [from |-> 0]

magic(m, n) == m.magics[IF n < Len(m.magics) THEN n + 1 ELSE n]

-----------------------------------------------------------------------------
(* BatchBuilder: the builder of the magic the broker's version asks for. *)
new_builder(m, n) ==
    LET conf == [magic |-> magic(m, n), codec |-> m.codec, batch_size |-> m.batch_size,
                 transactional |-> m.transactional]
    IN  CASE m.writer = "py" /\ conf.magic < 2 -> Py!new_legacy_builder(conf)
          [] m.writer = "py" /\ conf.magic >= 2 -> Py!new_default_builder(conf)
          [] m.writer = "cython" /\ conf.magic < 2 -> Cy!new_legacy_builder(conf)
          [] m.writer = "cython" /\ conf.magic >= 2 -> Cy!new_default_builder(conf)

builder_append(b, offset, r) ==
    IF mode.writer = "py"
    THEN IF b.magic < 2 THEN Py!legacy_append(b, offset, r) ELSE Py!default_append(b, offset, r)
    ELSE IF b.magic < 2 THEN Cy!legacy_append(b, offset, r) ELSE Cy!default_append(b, offset, r)

size_in_bytes(b, offset, r) ==
    IF mode.writer = "py"
    THEN IF b.magic < 2 THEN Py!legacy_size_in_bytes(b, r)
                        ELSE Py!default_size_in_bytes(b, offset, r)
    ELSE IF b.magic < 2 THEN Cy!legacy_size_in_bytes(b, r)
                        ELSE Cy!default_size_in_bytes(b, offset, r)

(* MessageBatch.set_producer_state, before a batch of a transaction is built. *)
set_producer_state(b) ==
    IF mode.transactional
    THEN [b EXCEPT !.producer_id = 7, !.producer_epoch = 0, !.base_sequence = 0] ELSE b

build(b) ==
    IF mode.writer = "py"
    THEN IF b.magic < 2 THEN Py!legacy_build(b) ELSE Py!default_build(set_producer_state(b))
    ELSE IF b.magic < 2 THEN Cy!legacy_build(b) ELSE Cy!default_build(set_producer_state(b))

-----------------------------------------------------------------------------
Init ==
    /\ mode \in Modes
    /\ builder = new_builder(mode, 0)
    /\ relative_offset = 0 /\ added = <<>> /\ buffer = <<>>
    /\ log = <<>> /\ log_end = 0 /\ sent = 0 /\ fetched = NotFetched

(* BatchBuilder.append: None if the batch is closed or full. *)
BuilderAppend(r) ==
    /\ sent < Len(mode.magics) /\ buffer = <<>> /\ relative_offset < MaxRecords
    /\ LET result == builder_append(builder, relative_offset, r)
       IN  /\ result.metadata.size # -1
           /\ builder' = result.builder
           /\ relative_offset' = relative_offset + 1
           /\ added' = Append(added, [record |-> r, size |-> result.metadata.size,
                                      promised |-> size_in_bytes(builder, relative_offset, r)])
    /\ UNCHANGED <<mode, buffer, log, log_end, sent, fetched>>

(* BatchBuilder._build: closes the batch and builds its buffer, once. *)
Build ==
    /\ buffer = <<>> /\ relative_offset > 0
    /\ buffer' = build(builder)
    /\ UNCHANGED <<mode, builder, relative_offset, added, log, log_end, sent, fetched>>
-----------------------------------------------------------------------------
(* The broker, external: it gives a produced batch its offsets, in a topic with LogAppendTime  *)
(* its time, and may compact it, leaving the records of keep.                                  *)
sorted(keep) == SetToSortSeq(keep, <)
segments(data, start) ==
    LET from(i) == start + FoldLeft(+, 0, [k \in 1..(i - 1) |-> added[k].size])
    IN  [i \in DOMAIN added |-> slice(data, from(i), from(i) + added[i].size)]

kept(segs, keep) == FlattenSeq([k \in 1..Cardinality(keep) |-> segs[sorted(keep)[k]]])

stored_record(i, m) ==
    LET r == added[i].record
    IN  [offset |-> log_end + i - 1,
         timestamp |-> IF m = 0 THEN -1 ELSE IF mode.append_time THEN StoreTime ELSE r.timestamp,
         timestamp_type |-> IF m = 0 THEN -1 ELSE IF mode.append_time THEN 1 ELSE 0,
         key |-> r.key, value |-> r.value, headers |-> IF m < 2 THEN <<>> ELSE r.headers]

stored_default(keep) ==
    LET h == unpack_header(buffer)
        untouched == keep = DOMAIN added
        raw == slice(buffer, HEADER_SIZE, Len(buffer))
        plain == IF codec_of(h.attributes) = CODEC_NONE THEN raw ELSE codec_decode(raw)
        records == kept(segments(plain, 0), keep)
        data == CASE untouched -> raw
                  [] ~untouched /\ codec_of(h.attributes) = CODEC_NONE -> records
                  [] ~untouched /\ codec_of(h.attributes) # CODEC_NONE -> codec_encode(records)
        header == [h EXCEPT !.base_offset = log_end, !.leader_epoch = 0,
                       !.length = HEADER_SIZE - LOG_OVERHEAD + Len(data),
                       !.num_records = IF untouched THEN @ ELSE Cardinality(keep),
                       !.attributes = IF mode.append_time THEN @ + 8 ELSE @,
                       !.max_timestamp = IF mode.append_time THEN StoreTime ELSE @]
        bytes == pack_header(header) \o data
        crc == calc_crc(slice(bytes, ATTRIBUTES_OFFSET, Len(bytes)))
    IN  <<[base |-> log_end,
           bytes |-> IF untouched /\ ~mode.append_time THEN bytes
                     ELSE patch(bytes, CRC_OFFSET, pack(4, crc)),
           records |-> [k \in 1..Cardinality(keep) |-> stored_record(sorted(keep)[k], 2)]]>>

stamped_message(bytes, offset, m) ==
    LET moved == patch(bytes, 0, pack(8, offset))
        timed == patch(moved, 17, <<moved[18] + 8>> \o pack(8, StoreTime))
        crc == calc_crc(slice(timed, MAGIC_OFFSET, Len(timed)))
    IN  IF m = 0 \/ ~mode.append_time THEN moved ELSE patch(timed, 12, pack(4, crc))

stored_messages(m, keep) ==
    LET segs == segments(buffer, 0)
    IN  [k \in 1..Cardinality(keep) |->
            LET i == sorted(keep)[k]
            IN  [base |-> log_end + i - 1, records |-> <<stored_record(i, m)>>,
                 bytes |-> stamped_message(segs[i], log_end + i - 1, m)]]

stored_wrapper(m, keep) ==
    LET head == IF m = 0 THEN 26 ELSE 34
        inner == segments(codec_decode(slice(buffer, head, Len(buffer))), 0)
        placed == [i \in DOMAIN inner |->
                      IF m = 0 THEN patch(inner[i], 0, pack(8, log_end + i - 1)) ELSE inner[i]]
        value == codec_encode(kept(placed, keep))
        rewritten == patch(slice(buffer, 0, head - 4), LENGTH_OFFSET, pack(4, head - 12 + Len(value)))
                         \o pack(4, Len(value)) \o value
        checked == patch(rewritten, 12,
                         pack(4, calc_crc(slice(rewritten, MAGIC_OFFSET, Len(rewritten)))))
        last == sorted(keep)[Cardinality(keep)]
    IN  IF keep = {} THEN <<>>
        ELSE <<[base |-> log_end,
                bytes |-> stamped_message(IF m = 1 /\ keep = DOMAIN added THEN buffer ELSE checked,
                                          log_end + last - 1, m),
                records |-> [k \in 1..Cardinality(keep) |-> stored_record(sorted(keep)[k], m)]]>>

(* A produce request with the batch; the accumulator then starts the next one. *)
Store(keep) ==
    /\ buffer # <<>>
    /\ LET m == builder.magic
           n == log_end + Len(added)
           entries == IF m >= 2 THEN stored_default(keep)
                      ELSE IF mode.codec = CODEC_NONE THEN stored_messages(m, keep)
                      ELSE stored_wrapper(m, keep)
       IN  /\ log' = log \o entries
           /\ log_end' = n
    /\ sent' = sent + 1
    /\ builder' = new_builder(mode, sent + 1)
    /\ relative_offset' = 0 /\ added' = <<>> /\ buffer' = <<>>
    /\ UNCHANGED <<mode, fetched>>

-----------------------------------------------------------------------------
(* PartitionRecords._unpack_records over MemoryRecords: what one response yields. *)
next_batch(buf, pos) ==
    IF mode.reader = "py" THEN Py!next_batch(buf, pos)
    ELSE IF Cy!has_next(buf, pos) THEN Cy!next_batch(buf, pos) ELSE [kind |-> "none"]

iter(m, batch) ==
    IF mode.reader = "py"
    THEN IF m >= 2 THEN Py!default_iter(batch) ELSE Py!legacy_iter(m, batch)
    ELSE IF m >= 2 THEN Cy!default_iter(batch) ELSE Cy!legacy_iter(m, batch)

validate_crc(m, batch) ==
    IF mode.reader = "py"
    THEN IF m >= 2 THEN Py!default_validate_crc(batch) ELSE Py!legacy_validate_crc(batch)
    ELSE IF m >= 2 THEN Cy!default_validate_crc(batch) ELSE Cy!legacy_validate_crc(batch)

next_offset(m, batch) ==
    IF mode.reader = "py"
    THEN IF m >= 2 THEN Py!default_next_offset(batch) ELSE Py!legacy_next_offset(batch)
    ELSE IF m >= 2 THEN Cy!default_next_offset(batch) ELSE Cy!legacy_next_offset(batch)

unpack_records(buf) ==
    LET RECURSIVE from(_, _)
        from(pos, next) ==
            LET found == next_batch(buf, pos)
                batch == slice(buf, pos, found.end)
                And(got) ==
                    IF got.corrupt THEN [records |-> got.records, corrupt |-> TRUE, next |-> next]
                    ELSE [from(found.end, next_offset(found.magic, batch)) EXCEPT !.records = got.records \o @]
            IN  IF found.kind = "none" THEN [records |-> <<>>, corrupt |-> FALSE, next |-> next]
                ELSE IF found.kind = "corrupt" \/ ~validate_crc(found.magic, batch)
                THEN [records |-> <<>>, corrupt |-> TRUE, next |-> next]
                ELSE And(iter(found.magic, batch))
    IN  from(0, -1)

bytes_of(from, to) == FlattenSeq([i \in 1..(to - from + 1) |-> log[from + i - 1].bytes])

(* Where the broker may cut the response: around the heads of the batches. *)
Cuts(from) ==
    LET ends == {Len(bytes_of(from, i)) : i \in (from - 1)..Len(log)}
        size == Len(bytes_of(from, Len(log)))
    IN  {k \in 0..size : \E e \in ends : k - e \in CutPoints}

(* A fetch response that starts with the batch at from and holds cut bytes. *)
Fetch(from, cut) ==
    /\ sent = Len(mode.magics) /\ fetched = NotFetched
    /\ fetched' = [from |-> from, cut |-> cut]
                      @@ unpack_records(slice(bytes_of(from, Len(log)), 0, cut))
    /\ UNCHANGED <<mode, builder, relative_offset, added, buffer, log, log_end, sent>>

Next ==
    \/ \E r \in Inputs : BuilderAppend(r)
    \/ Build
    \/ \E keep \in SUBSET DOMAIN added : Store(keep)
    \/ \E from \in DOMAIN log : \E cut \in Cuts(from) : Fetch(from, cut)

Spec == Init /\ [][Next]_vars

-----------------------------------------------------------------------------
(* The whole batches of the last response: a cut one is fetched again. *)
Whole == {i \in fetched.from..Len(log) : Len(bytes_of(fetched.from, i)) <= fetched.cut}

(* Whatever was appended comes back: a response yields the records of every whole batch in it, *)
(* in order, with the key, value, headers, offset and timestamp they were appended or stamped  *)
(* with, skips the batch the response cuts, and raises nothing, for both implementations of    *)
(* the builders (append, build), the batches (__iter__, validate_crc) and MemoryRecords        *)
(* (next_batch), compressed, compacted or not.                                                 *)
ReadBack ==
    fetched # NotFetched =>
        /\ ~fetched.corrupt
        /\ fetched.records = FlattenSeq([k \in 1..Cardinality(Whole) |->
                                            log[fetched.from + k - 1].records])

(* A consumer that goes on at next_offset of the last batch it read passes that batch, even    *)
(* if compaction left nothing of it or took its last records, and skips no stored record.      *)
NextOffsetAdvances ==
    fetched # NotFetched /\ Whole # {} =>
        LET last == fetched.from + Cardinality(Whole) - 1
        IN  /\ fetched.next > log[last].base
            /\ \A k \in DOMAIN fetched.records : fetched.records[k].offset < fetched.next
            /\ \A i \in (last + 1)..Len(log) : fetched.next <= log[i].base

(* The sizes the accumulator and the producer rely on: size_in_bytes() is what append() then   *)
(* takes, size() is what was taken in all, estimate_size_in_bytes() is an upper bound, a batch *)
(* of several records fits batch_size, and an empty batch takes any record.                    *)
SizesHold ==
    LET header == IF builder.magic < 2 THEN 0 ELSE HEADER_SIZE
        estimate(r) == IF mode.writer = "py" THEN Py!estimate_size_in_bytes(r)
                                             ELSE Cy!estimate_size_in_bytes(r)
    IN  /\ \A i \in DOMAIN added :
              /\ added[i].size = added[i].promised
              /\ builder.magic = 2 => HEADER_SIZE + added[i].size <= estimate(added[i].record)
        /\ Len(builder.buffer) = header + FoldLeft(+, 0, [i \in DOMAIN added |-> added[i].size])
        /\ Len(added) > 1 => Len(builder.buffer) <= mode.batch_size
        /\ added = <<>> => \A r \in Inputs : builder_append(builder, 0, r).metadata.size > 0
=============================================================================
