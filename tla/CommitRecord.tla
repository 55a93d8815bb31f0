---------------------------- MODULE CommitRecord ----------------------------
(***************************************************************************)
(* The commit-record codec (src/durable.rs).                               *)
(*                                                                         *)
(* A record is a sequence of bytes, digits 0 .. Radix - 1 (256 in the      *)
(* code).  Integers are little-endian fields of LenBytes (u32) or TsBytes  *)
(* (u64) of them.  Any error of the decoder is Corrupt: the caller, which  *)
(* opens a log, gives up on all of them alike.                             *)
(*                                                                         *)
(* The behaviour is a record that is encoded and then damaged: cut short,  *)
(* continued, or changed in one byte.                                      *)
(***************************************************************************)
EXTENDS Naturals, Sequences, SequencesExt

CONSTANTS
    Radix, LenBytes, TsBytes,
    Commits,    \* the commits that are encoded
    MaxDamage,  \* bound on the number of times a record is damaged
    None,       \* the value of a delete
    Corrupt     \* the error of decode_commit

ASSUME CodecAssumption ==
    /\ Radix \in Nat /\ Radix > 2
    /\ LenBytes \in Nat \ {0} /\ TsBytes \in Nat \ {0}
    /\ MaxDamage \in Nat

VARIABLES
    commit,     \* what was committed: [commit_ts, writes]
    bytes,      \* the record as it is read back
    damage      \* how often it has been damaged

codecVars == <<commit, bytes, damage>>

Byte == 0..(Radix - 1)
RECORD_VERSION == 1
MIN_WRITE_BYTES == LenBytes + 1

-----------------------------------------------------------------------------
(* Encoding *)

\* to_le_bytes of n cast to width bytes: what does not fit is cut off.
to_le_bytes(n, width) == [i \in 1..width |-> (n \div Radix^(i - 1)) % Radix]

\* One key with its value or tombstone.
encode_write(w) ==
    to_le_bytes(Len(w.key), LenBytes) \o w.key \o
        (IF w.value = None THEN <<0>>
         ELSE <<1>> \o to_le_bytes(Len(w.value), LenBytes) \o w.value)

encode_for_log(c) ==
    <<RECORD_VERSION>> \o to_le_bytes(c.commit_ts, TsBytes)
        \o to_le_bytes(Len(c.writes), LenBytes)
        \o FlattenSeq([i \in DOMAIN c.writes |-> encode_write(c.writes[i])])

-----------------------------------------------------------------------------
(* Decoding.  A reader is a position in buf and whether every read so far   *)
(* was within it; what is read past the end is not looked at.              *)

Reader(buf) == [buf |-> buf, pos |-> 0, ok |-> TRUE]

remaining(r) == Len(r.buf) - r.pos

\* The bytes the next read_bytes(len) gives.
slice(r, len) == SubSeq(r.buf, r.pos + 1, Min({r.pos + len, Len(r.buf)}))

\* Faulty variant: a read past the end gives what there is.
read_bytes_short(r, len) ==
    [r EXCEPT !.pos = Min({r.pos + len, Len(r.buf)})]

\* The reader after read_bytes(len).
read_bytes(r, len) ==
    IF r.ok /\ r.pos + len <= Len(r.buf) THEN [r EXCEPT !.pos = @ + len]
                                         ELSE [r EXCEPT !.ok = FALSE]

\* from_le_bytes of the next width bytes.
from_le_bytes(r, width) ==
    LET s == slice(r, width)
    IN  FoldLeft(LAMBDA sum, i : sum + s[i] * Radix^(i - 1), 0,
                 [i \in DOMAIN s |-> i])

\* One write: [reader, key, value], with a reader that is not ok on an error.
read_write(r0) ==
    LET key_len == from_le_bytes(r0, LenBytes)
        r1 == read_bytes(r0, LenBytes)
        key == slice(r1, key_len)
        r2 == read_bytes(r1, key_len)
        tag == from_le_bytes(r2, 1)
        r3 == read_bytes(r2, 1)
        value_len == from_le_bytes(r3, LenBytes)
        r4 == read_bytes(r3, LenBytes)
    IN  CASE tag = 0 -> [reader |-> r3, key |-> key, value |-> None]
          [] tag = 1 -> [reader |-> read_bytes(r4, value_len), key |-> key,
                         value |-> slice(r4, value_len)]
          [] OTHER -> [reader |-> [r3 EXCEPT !.ok = FALSE], key |-> key,
                       value |-> None]

\* The state of the decoding loop after n writes.
read_writes(r, count) ==
    LET after[n \in 0..count] ==
            IF n = 0 THEN [reader |-> r, writes |-> <<>>]
            ELSE LET before == after[n - 1]
                     w == read_write(before.reader)
                 IN  IF before.reader.ok
                     THEN [reader |-> w.reader,
                           writes |-> Append(before.writes,
                                             [key |-> w.key,
                                              value |-> w.value])]
                     ELSE before
    IN  after[count]

\* The header: version, commit timestamp, number of writes.
header(buf) ==
    LET r1 == read_bytes(Reader(buf), 1)
        r2 == read_bytes(r1, TsBytes)
    IN  [version |-> from_le_bytes(Reader(buf), 1),
         commit_ts |-> from_le_bytes(r1, TsBytes),
         count |-> from_le_bytes(r2, LenBytes),
         reader |-> read_bytes(r2, LenBytes)]

\* Faulty variant: off by one, which refuses writes of the smallest size.
CountFits_strict(h) == h.count < remaining(h.reader) \div MIN_WRITE_BYTES

\* The count is checked against the bytes present before room is made for it.
CountFits(h) == h.count <= remaining(h.reader) \div MIN_WRITE_BYTES

\* Faulty variant: what follows the last write is ignored.
decode_commit_trailing(buf) ==
    LET h == header(buf)
        body == read_writes(h.reader, h.count)
    IN  IF /\ h.reader.ok
           /\ h.version = RECORD_VERSION
           /\ CountFits(h)
           /\ body.reader.ok
        THEN [commit_ts |-> h.commit_ts, writes |-> body.writes]
        ELSE Corrupt

decode_commit(buf) ==
    LET h == header(buf)
        body == read_writes(h.reader, h.count)
    IN  IF /\ h.reader.ok
           /\ h.version = RECORD_VERSION
           /\ CountFits(h)
           /\ body.reader.ok
           /\ remaining(body.reader) = 0
        THEN [commit_ts |-> h.commit_ts, writes |-> body.writes]
        ELSE Corrupt

-----------------------------------------------------------------------------

CodecInit ==
    /\ commit \in Commits
    /\ bytes = encode_for_log(commit)
    /\ damage = 0

Damage(damaged) ==
    /\ damage < MaxDamage
    /\ bytes' = damaged
    /\ damage' = damage + 1
    /\ UNCHANGED commit

Truncate == \E n \in 0..(Len(bytes) - 1) : Damage(SubSeq(bytes, 1, n))
Extend == \E b \in Byte : Damage(Append(bytes, b))
Flip == \E i \in DOMAIN bytes : \E b \in Byte \ {bytes[i]} :
            Damage([bytes EXCEPT ![i] = b])

CodecNext == Truncate \/ Extend \/ Flip

CodecSpec == CodecInit /\ [][CodecNext]_codecVars

-----------------------------------------------------------------------------

\* Every length has room in its field; the code does not check it.
Fits(c) ==
    /\ Len(c.writes) < Radix^LenBytes
    /\ \A i \in DOMAIN c.writes :
        /\ Len(c.writes[i].key) < Radix^LenBytes
        /\ c.writes[i].value # None => Len(c.writes[i].value) < Radix^LenBytes

\* durable.rs: recovery is "simply replaying the log".  A record that was not
\* damaged gives back the commit, up to the largest length a field can hold
\* and for writes of the smallest size.
RoundTrip == damage = 0 /\ Fits(commit) => decode_commit(bytes) = commit

\* A record decodes to a commit only if it is the encoding of that commit: no
\* byte of it is ignored, and no two records mean the same.
Canonical ==
    decode_commit(bytes) # Corrupt =>
        encode_for_log(decode_commit(bytes)) = bytes

\* A record that breaks off, wherever it does, is not taken for a shorter one.
TornIsCorrupt ==
    /\ Fits(commit)
    /\ IsStrictPrefix(bytes, encode_for_log(commit))
    => decode_commit(bytes) = Corrupt

=============================================================================
