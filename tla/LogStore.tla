------------------------------ MODULE LogStore ------------------------------
(* The file under the engine (morceau-core/src/storage.rs and record.rs) and   *)
(* the loop of Engine::recover that reads it back, byte by byte.               *)
(*                                                                             *)
(* The format is the code's in miniature: a header, then records of a          *)
(* little-endian length prefix and a payload.  A byte has Base values, the     *)
(* prefix two bytes, and a payload is a variant byte that says how many data   *)
(* bytes the decoder reads after it.  Nothing else tells a record from         *)
(* leftovers, as in the code: there is no checksum.                            *)
(*                                                                             *)
(* A write may stop after any number of bytes.  sync_all separates the file as *)
(* other readers see it from what a power loss leaves of it: without a sync,   *)
(* each byte and the length may or may not have reached the disk.              *)
EXTENDS Integers, Sequences

CONSTANTS
    Payload,    \* what the engine appends, already encoded by bincode
    HEADER,     \* the bytes of the magic and the format version
    Base,       \* number of byte values
    Settings    \* the hosts and machines, see Setting

LEN_PREFIX_BYTES == 2
HEADER_LEN == Len(HEADER)
Byte == 0 .. Base - 1

\* payloads: what the host appends; keepGoing: it goes on with an engine whose
\* append failed; powerLoss: unsynced bytes may be lost; maxLen: a bound on the
\* bytes in the file.
Setting == [payloads : SUBSET Payload, keepGoing : BOOLEAN, powerLoss : BOOLEAN, maxLen : Nat]

\* bincode, as decode_framed uses it: the variant says how much is read, bytes
\* beyond that are ignored.
Decodes(bytes) == bytes # <<>> /\ bytes[1] # 0 /\ Len(bytes) > bytes[1]
decode(bytes) == SubSeq(bytes, 1, 1 + bytes[1])

ASSUME LogStoreAssumption ==
    /\ Base \in Nat \ {0, 1}
    /\ HEADER \in Seq(Byte) /\ HEADER # <<>>
    /\ Payload \subseteq Seq(Byte)
    /\ \A p \in Payload : Len(p) < Base * Base /\ Decodes(p) /\ decode(p) = p
    /\ Settings \subseteq Setting

VARIABLES
    setting,     \* the host and the machine of this behaviour
    file,        \* the bytes of the file
    durable,     \* the bytes of the file as of the last sync
    status,      \* "closed", "recovering", "open" or "refused"
    len,         \* Storage::len
    cursor,      \* recover's cursor (and last_good)
    recovered,   \* the frames recover has decoded
    frames,      \* the frames of the engine last open: [offset, payload]
    promised     \* how many of them an append or a truncate has synced

vars == <<setting, file, durable, status, len, cursor, recovered, frames, promised>>

-----------------------------------------------------------------------------

encode_framed(payload) == <<Len(payload) % Base, Len(payload) \div Base>> \o payload

payload_len(at) == file[at + 1] + Base * file[at + 2]

read_at(bytes, offset, n) == SubSeq(bytes, offset + 1, offset + n)

FrameLen(f) == LEN_PREFIX_BYTES + Len(f.payload)
End(fs) == IF fs = <<>> THEN HEADER_LEN ELSE fs[Len(fs)].offset + FrameLen(fs[Len(fs)])

\* A mutant: the room for the record is allocated before it is filled.
Written_allocated(offset, bytes, k) ==
    SubSeq(file, 1, offset) \o [i \in 1 .. Len(bytes) |-> IF i <= k THEN bytes[i] ELSE 0]
        \o SubSeq(file, offset + Len(bytes) + 1, Len(file))

\* The file after the first k bytes of bytes went to offset.
Written(offset, bytes, k) ==
    SubSeq(file, 1, offset) \o SubSeq(bytes, 1, k) \o SubSeq(file, offset + k + 1, Len(file))

Init ==
    /\ setting \in Settings
    /\ file = <<>>
    /\ durable = <<>>
    /\ status = "closed"
    /\ len = 0
    /\ cursor = 0
    /\ recovered = <<>>
    /\ frames = <<>>
    /\ promised = 0

\* The process no longer holds a store.
LoseStore ==
    /\ status' = "closed"
    /\ len' = 0
    /\ cursor' = 0
    /\ recovered' = <<>>

-----------------------------------------------------------------------------
(* FileStorage::open.                                                          *)

StartRecovery(n) ==
    /\ status' = "recovering"
    /\ len' = n
    /\ cursor' = HEADER_LEN
    /\ recovered' = <<>>

\* A new file: the header is written and synced, or only part of it is written.
CreateFile ==
    /\ status = "closed"
    /\ file = <<>>
    /\ \/ /\ file' = HEADER
          /\ durable' = HEADER
          /\ StartRecovery(HEADER_LEN)
       \/ /\ \E k \in 1 .. HEADER_LEN : file' = SubSeq(HEADER, 1, k)
          /\ UNCHANGED <<durable, status, len, cursor, recovered>>
    /\ UNCHANGED <<frames, promised>>

HeaderOk == Len(file) >= HEADER_LEN /\ read_at(file, 0, HEADER_LEN) = HEADER

OpenFile ==
    /\ status = "closed"
    /\ file # <<>>
    /\ \/ HeaderOk /\ StartRecovery(Len(file))
       \/ ~HeaderOk /\ status' = "refused" /\ UNCHANGED <<len, cursor, recovered>>
    /\ UNCHANGED <<file, durable, frames, promised>>

-----------------------------------------------------------------------------
(* Engine::recover, one action per record.                                     *)

remaining == len - cursor
total_record == LEN_PREFIX_BYTES + payload_len(cursor)

WholeRecord == remaining >= LEN_PREFIX_BYTES /\ remaining >= total_record

Serve(fs, n) ==
    /\ status' = "open"
    /\ frames' = fs
    /\ promised' = n
    /\ cursor' = 0
    /\ recovered' = <<>>

RecoverRecord ==
    LET payload == read_at(file, cursor + LEN_PREFIX_BYTES, payload_len(cursor)) IN
    /\ status = "recovering"
    /\ cursor < len
    /\ WholeRecord
    /\ \/ /\ Decodes(payload)
          /\ recovered' = Append(recovered, [offset |-> cursor, payload |-> payload])
          /\ cursor' = cursor + total_record
          /\ UNCHANGED status
       \/ /\ ~Decodes(payload)
          /\ status' = "refused"
          /\ UNCHANGED <<cursor, recovered>>
    /\ UNCHANGED <<file, durable, len, frames, promised>>

\* A mutant: last_good is one record behind.
RecoverTruncate_behind ==
    LET n == IF recovered = <<>> THEN 0 ELSE Len(recovered) - 1
        good == SubSeq(recovered, 1, n)
    IN
    /\ status = "recovering"
    /\ cursor < len
    /\ ~WholeRecord
    /\ file' = SubSeq(file, 1, End(good))
    /\ durable' = file'
    /\ len' = End(good)
    /\ Serve(good, n)

\* A mutant: truncate does not bring len down.
RecoverTruncate_length ==
    /\ status = "recovering"
    /\ cursor < len
    /\ ~WholeRecord
    /\ file' = SubSeq(file, 1, cursor)
    /\ durable' = file'
    /\ Serve(recovered, Len(recovered))
    /\ UNCHANGED len

\* truncate(last_good): set_len, then sync_all, either of which may fail.
RecoverTruncate ==
    /\ status = "recovering"
    /\ cursor < len
    /\ ~WholeRecord
    /\ file' = SubSeq(file, 1, cursor)
    /\ \/ /\ durable' = file'
          /\ len' = cursor
          /\ Serve(recovered, Len(recovered))
       \/ LoseStore /\ UNCHANGED <<durable, frames, promised>>

\* The records end where the file does: nothing is truncated, nothing synced.
RecoverDone ==
    /\ status = "recovering"
    /\ cursor = len
    /\ Serve(recovered, promised)
    /\ UNCHANGED <<file, durable, len>>

-----------------------------------------------------------------------------
(* FileStorage::append.                                                        *)

\* A mutant: append returns before the record is synced.
append_ok_unsynced(payload) ==
    LET frame == encode_framed(payload) IN
    /\ status = "open"
    /\ len + Len(frame) <= setting.maxLen
    /\ file' = Written(len, frame, Len(frame))
    /\ len' = len + Len(frame)
    /\ frames' = Append(frames, [offset |-> len, payload |-> payload])
    /\ promised' = Len(frames')
    /\ UNCHANGED <<durable, status, cursor, recovered>>

append_ok(payload) ==
    LET frame == encode_framed(payload) IN
    /\ status = "open"
    /\ len + Len(frame) <= setting.maxLen
    /\ file' = Written(len, frame, Len(frame))
    /\ durable' = file'
    /\ len' = len + Len(frame)
    /\ frames' = Append(frames, [offset |-> len, payload |-> payload])
    /\ promised' = Len(frames')
    /\ UNCHANGED <<status, cursor, recovered>>

\* A mutant: the write starts one byte early.
append_err_early(payload) ==
    LET frame == encode_framed(payload) IN
    /\ status = "open"
    /\ len + Len(frame) <= setting.maxLen
    /\ \E k \in 0 .. Len(frame) : file' = Written(len - 1, frame, k)
    /\ \/ setting.keepGoing /\ UNCHANGED <<status, len, cursor, recovered>>
       \/ LoseStore
    /\ UNCHANGED <<durable, frames, promised>>

\* write_all or sync_all fails, or the process dies in one of them.
append_err(payload) ==
    LET frame == encode_framed(payload) IN
    /\ status = "open"
    /\ len + Len(frame) <= setting.maxLen
    /\ \E k \in 0 .. Len(frame) : file' = Written(len, frame, k)
    /\ \/ setting.keepGoing /\ UNCHANGED <<status, len, cursor, recovered>>
       \/ LoseStore
    /\ UNCHANGED <<durable, frames, promised>>

-----------------------------------------------------------------------------

\* The process ends, or a host gives up on an open that failed.  What it wrote
\* stays in the file.
Close ==
    /\ status # "closed"
    /\ LoseStore
    /\ UNCHANGED <<file, durable, frames, promised>>

\* The machine loses power: every byte not synced is old or new, the length too.
LosePower ==
    LET byte(i, new) == IF i <= Len(file) /\ new THEN file[i]
                        ELSE IF i <= Len(durable) THEN durable[i] ELSE 0
        unsynced == {i \in 1 .. Len(file) : i > Len(durable) \/ file[i] # durable[i]}
    IN
    /\ setting.powerLoss
    /\ file # durable
    /\ \E n \in {Len(durable), Len(file)}, new \in SUBSET unsynced :
          file' = [i \in 1 .. n |-> byte(i, i \in new)]
    /\ durable' = file'
    /\ LoseStore
    /\ UNCHANGED <<frames, promised>>

Next ==
    /\ \/ CreateFile
       \/ OpenFile
       \/ RecoverRecord
       \/ RecoverTruncate
       \/ RecoverDone
       \/ \E payload \in setting.payloads : append_ok(payload) \/ append_err(payload)
       \/ Close
       \/ LosePower
    /\ UNCHANGED setting

Spec == Init /\ [][Next]_vars

-----------------------------------------------------------------------------
(* Properties.                                                                 *)

FrameSet == [offset : Nat, payload : Seq(Byte)]

TypeOK ==
    /\ setting \in Settings
    /\ file \in Seq(Byte)
    /\ durable \in Seq(Byte)
    /\ status \in {"closed", "recovering", "open", "refused"}
    /\ len \in Nat
    /\ cursor \in Nat
    /\ recovered \in Seq(FrameSet)
    /\ frames \in Seq(FrameSet)
    /\ promised \in 0 .. Len(frames)

Promised == SubSeq(frames, 1, promised)

ReadsBack(bytes, f) ==
    /\ f.offset + FrameLen(f) <= Len(bytes)
    /\ read_at(bytes, f.offset, FrameLen(f)) = encode_framed(f.payload)

\* Once append has returned Ok for a record it reads back at its offset, whatever
\* happens next: failed appends over and over at the same place, truncations,
\* deaths in the middle of a write and power losses (append syncs before it
\* moves len, truncate only cuts behind last_good).
PromisedReadBack ==
    \A i \in 1 .. promised : ReadsBack(file, frames[i]) /\ ReadsBack(durable, frames[i])

\* An engine serves records that lie end to end from the header up to
\* Storage::len, each of which reads back: recover has cut off or accepted every
\* byte behind the last good record.
ServedEndToEnd ==
    status = "open" =>
        /\ len = End(frames)
        /\ \A i \in 1 .. Len(frames) :
              /\ ReadsBack(file, frames[i])
              /\ frames[i].offset = End(SubSeq(frames, 1, i - 1))

\* An open never comes back without a record that append had acknowledged, nor
\* with another one in its place (the scan of recover).
NothingForgotten ==
    [][status = "recovering" /\ status' = "open" =>
          promised <= Len(frames') /\ SubSeq(frames', 1, promised) = Promised]_vars

\* "On a torn-write decode error at the tail, truncate the file back to the last
\* good record and continue" (engine.rs, recover): an open is refused only for a
\* bad header or for a record that cannot be decoded among the acknowledged ones.
TornTailIsCut ==
    status = "refused" => ~HeaderOk \/ cursor < End(Promised)

\* The same of an append that was interrupted on a machine that keeps its power.
TornAppendIsCut == setting.powerLoss \/ TornTailIsCut

-----------------------------------------------------------------------------
(* The storage contract of the engine, for a host that closes the store when   *)
(* an append fails and on a machine that keeps its power.                      *)

Leftover == SubSeq(file, End(frames) + 1, Len(file))
NoFrame == <<>>

StrayFrame ==
    IF \E p \in Payload : Leftover = encode_framed(p)
    THEN CHOOSE p \in Payload : Leftover = encode_framed(p)
    ELSE NoFrame

Log == [i \in 1 .. Len(frames) |-> frames[i].payload]
Contract == INSTANCE RecordLog WITH Frame <- Payload, log <- Log, stray <- StrayFrame

\* The byte store is the record log the engine is written against: an
\* unacknowledged append shows up as a whole record or not at all, and an open
\* changes nothing else.
ImplementsRecordLog ==
    /\ Contract!Init
    /\ [][\/ setting.keepGoing \/ setting.powerLoss
          \/ Contract!Next
          \/ UNCHANGED <<Log, StrayFrame>>]_vars
=============================================================================
