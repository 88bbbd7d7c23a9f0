---------------------------- MODULE SnapshotFile ----------------------------
(***************************************************************************)
(* The snapshot file of the GeoIP index (geoip/snapshot_codec): the stamp  *)
(* of the table, the names, the rows.  A word is a number or a name; the   *)
(* checksum is a word that no other words have.                            *)
(***************************************************************************)
EXTENDS IPRanges
LOCAL INSTANCE Bitwise

Number(n) == [number |-> n]
Name(s) == [name |-> s]
Refused == [ok |-> FALSE]

NoStamp == [count |-> 0, minStart |-> 0, maxEnd |-> 0, sumStart |-> 0, sumEnd |-> 0, xorSpan |-> 0]

StampAdd(s, r) ==
    [count |-> s.count + 1,
     minStart |-> IF s.count = 0 \/ r.start < s.minStart THEN r.start ELSE s.minStart,
     maxEnd |-> IF s.count = 0 \/ r.end > s.maxEnd THEN r.end ELSE s.maxEnd,
     sumStart |-> s.sumStart + r.start, sumEnd |-> s.sumEnd + r.end,
     xorSpan |-> s.xorSpan ^^ (r.start * Space + r.end)]

StampFromRanges(ranges) == FoldLeft(StampAdd, NoStamp, ranges)

\* The same six numbers as aggregates of the table, 0 where it has no rows.
QuerySourceStamp(table) ==
    LET over(f(_)) == {f(table[i]) : i \in DOMAIN table}
        sum(f(_)) == FoldLeft(LAMBDA n, r : n + f(r), 0, table)
    IN  IF table = <<>> THEN NoStamp
        ELSE [count |-> Len(table), minStart |-> Min(over(LAMBDA r : r.start)), maxEnd |-> Max(over(LAMBDA r : r.end)),
              sumStart |-> sum(LAMBDA r : r.start), sumEnd |-> sum(LAMBDA r : r.end),
              xorSpan |-> FoldLeft(LAMBDA x, r : x ^^ (r.start * Space + r.end), 0, table)]

appendDict(names) == <<Number(Len(names))>> \o [i \in DOMAIN names |-> Name(names[i])]

encodePayload(snap, st) ==
    <<Number(st.count), Number(st.minStart), Number(st.maxEnd), Number(st.sumStart), Number(st.sumEnd), Number(st.xorSpan)>>
    \o appendDict(snap.countries) \o appendDict(snap.cities) \o <<Number(Len(snap.rows))>>
    \o FlattenSeq([i \in DOMAIN snap.rows |->
            LET r == snap.rows[i] IN <<Number(r.start), Number(r.end), Number(r.country), Number(r.city)>>])

\* The names from place o on, and the place behind them.
readDict(p, o) ==
    IF o > Len(p) \/ o + p[o].number > Len(p) THEN Refused
    ELSE [ok |-> TRUE, names |-> [i \in 1 .. p[o].number |-> p[o + i].name], next |-> o + 1 + p[o].number]

\* Too few words and words left over are both an error.
decodePayload(p) ==
    LET countries == readDict(p, 7)
        cities == readDict(p, countries.next)
        o == cities.next
        word(i, k) == p[o + 4 * (i - 1) + k].number
    IN  IF Len(p) < 7 THEN Refused
        ELSE IF ~countries.ok THEN Refused
        ELSE IF ~cities.ok THEN Refused
        ELSE IF o > Len(p) THEN Refused
        ELSE IF o + 4 * p[o].number # Len(p) THEN Refused
        ELSE [ok |-> TRUE,
              stamp |-> [count |-> p[1].number, minStart |-> p[2].number, maxEnd |-> p[3].number,
                         sumStart |-> p[4].number, sumEnd |-> p[5].number, xorSpan |-> p[6].number],
              snap |-> [rows |-> [i \in 1 .. p[o].number |->
                                    [start |-> word(i, 1), end |-> word(i, 2), country |-> word(i, 3), city |-> word(i, 4)]],
                        countries |-> countries.names, cities |-> cities.names]]

Checksum(words) == [sum |-> words]

EncodeSnapshot(snap, stamp) ==
    LET payload == encodePayload(snap, stamp)
    IN  <<Name("NMGS"), Number(1)>> \o payload \o <<Checksum(payload)>>

DecodeSnapshot(data) ==
    LET payload == SubSeq(data, 3, Len(data) - 1)
    IN  IF Len(data) >= 3 /\ SubSeq(data, 1, 2) = <<Name("NMGS"), Number(1)>> /\ Last(data) = Checksum(payload)
        THEN decodePayload(payload) ELSE Refused

-----------------------------------------------------------------------------
\* A snapshot file gives back the index and the stamp that were written, the stamp
\* is the one ClickHouse computes, and no part of the file that ends early, with or
\* without the checksum, is taken for an index.
SnapshotReadBack(ranges) ==
    \A sorted \in Sorted(ranges) :
        LET built == buildGeoSnapshot(sorted)
            stamp == StampFromRanges(sorted)
            file == EncodeSnapshot(built, stamp)
            payload == encodePayload(built, stamp)
        IN  /\ DecodeSnapshot(file) = [ok |-> TRUE, stamp |-> QuerySourceStamp(ranges), snap |-> built]
            /\ \A k \in 0 .. Len(file) - 1 : ~DecodeSnapshot(SubSeq(file, 1, k)).ok
            /\ \A k \in 0 .. Len(payload) - 1 : ~decodePayload(SubSeq(payload, 1, k)).ok
=============================================================================
