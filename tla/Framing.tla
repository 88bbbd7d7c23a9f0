------------------------------ MODULE Framing ------------------------------
(***************************************************************************)
(* adapter/ingestnet.frameReader: cuts the byte stream of a syslog         *)
(* connection into messages.  A frame is either counted ("5 hello", with   *)
(* or without a line feed behind it) or ends with a line feed; the reader  *)
(* tells them apart by looking ahead.                                      *)
(*                                                                         *)
(* A byte is a digit, "sp", "cr", "lf" or a letter.  A stream is           *)
(* all that the peer sends before it closes its side.                      *)
(***************************************************************************)
EXTENDS Integers, SequencesExt

CONSTANTS
    MaxFrameBytes,  \* maxFrameBytes: the longest message
    MaxLenDigits,   \* maxLenDigits: the longest count
    Letters         \* the other bytes

Digits == <<"0", "1", "2", "3", "4", "5", "6", "7", "8", "9">>
Digit == Range(Digits)
Byte == Digit \cup {"sp", "cr", "lf"} \cup Letters

\* A read returns a message and what is left, or an error; "not" is the
\* answer of tryOctetCounting when the frame is not a counted one.
Message(msg, rest) == [err |-> "none", msg |-> msg, rest |-> rest]
Error(err) == [err |-> err, msg |-> << >>, rest |-> << >>]

\* strings.TrimRight and strings.TrimSpace
TrimmedRight(s, blanks) ==
    LET keep == {i \in DOMAIN s : s[i] \notin blanks}
    IN  IF keep = {} THEN << >> ELSE SubSeq(s, 1, Max(keep))

TrimSpace(s) ==
    LET blanks == {"sp", "cr", "lf"}
    IN  Reverse(TrimmedRight(Reverse(TrimmedRight(s, blanks)), blanks))

\* Up to the first line feed.  A frame over the limit is an error, after which
\* the connection is closed; so is a stream that ends within a line.
readLFLine(s) ==
    LET end == SelectInSeq(s, LAMBDA b : b = "lf")
    IN  CASE (IF end = 0 THEN Len(s) ELSE end) > MaxFrameBytes -> Error("too large")
          [] end = 0 -> Error("eof")
          [] OTHER -> Message(TrimmedRight(SubSeq(s, 1, end), {"cr", "lf"}),
                              SubSeq(s, end + 1, Len(s)))

Number(digits) == FoldLeft(LAMBDA n, d : 10 * n + SelectInSeq(Digits, LAMBDA e : e = d) - 1, 0, digits)

\* Mutant: the space behind the count is not discarded.
tryOctetCountingKeepsSpace(s) ==
    LET sp == SelectInSeq(s, LAMBDA b : b \notin Digit)
        n == Number(SubSeq(s, 1, sp - 1))
    IN  IF sp = 0 \/ s[sp] # "sp" \/ n \notin 1 .. MaxFrameBytes THEN Error("not")
        ELSE IF Len(s) < sp + n THEN Error("eof")
        ELSE Message(SubSeq(s, sp, sp + n - 1), SubSeq(s, sp + n, Len(s)))

\* At most MaxLenDigits digits, a space, and a count within the limit; anything
\* else is left to readLFLine.  Digits up to the end of the stream are an error.
tryOctetCounting(s) ==
    LET peek == SubSeq(s, 1, Min({Len(s), MaxLenDigits + 1}))
        sp == SelectInSeq(peek, LAMBDA b : b \notin Digit)
        n == Number(SubSeq(peek, 1, sp - 1))
        end == sp + n
        rest == SubSeq(s, end + 1, Len(s))
    IN  CASE sp = 0 -> IF Len(s) <= MaxLenDigits THEN Error("eof") ELSE Error("not")
          [] sp # 0 /\ (peek[sp] # "sp" \/ n \notin 1 .. MaxFrameBytes) -> Error("not")
          [] OTHER ->
               IF Len(s) < end THEN Error("eof")
               ELSE Message(SubSeq(s, sp + 1, end),
                            IF rest # << >> /\ Head(rest) = "lf" THEN Tail(rest) ELSE rest)

ReadLine(s) ==
    IF s = << >> THEN Error("eof")
    ELSE LET counted == IF Head(s) \in Digit THEN tryOctetCounting(s) ELSE Error("not")
         IN  IF counted.err = "not" THEN readLFLine(s) ELSE counted

-----------------------------------------------------------------------------
(* What a peer writes *)

\* A frame is [kind, count, payload]; the count is written in digits, of which some
\* may be leading zeros.
FrameBytes(f) ==
    CASE f.kind = "counted"   -> f.count \o <<"sp">> \o f.payload
      [] f.kind = "countedLF" -> f.count \o <<"sp">> \o f.payload \o <<"lf">>
      [] f.kind = "line"      -> f.payload \o <<"lf">>

\* A payload that the framing can carry.  A line that itself begins like a
\* count is the one that the reader cannot tell apart.
Carries(f) ==
    IF f.kind = "line"
    THEN /\ Len(f.payload) < MaxFrameBytes /\ "lf" \notin Range(f.payload)
         /\ f.payload # << >> /\ Head(f.payload) \in Digit => tryOctetCounting(FrameBytes(f)).err = "not"
    ELSE /\ Len(f.payload) \in 1 .. MaxFrameBytes
         /\ Len(f.count) \in 1 .. MaxLenDigits /\ Number(f.count) = Len(f.payload)

Frames == {f \in [kind : {"counted", "countedLF", "line"}, count : Seq(Digit), payload : Seq(Byte)] : Carries(f)}

\* The bytes of the first i frames, and the messages in them that are not blank.
Written(fs) ==
    LET upto[i \in 0 .. Len(fs)] ==
            IF i = 0 THEN [bytes |-> << >>, sent |-> << >>]
            ELSE LET msg == TrimSpace(fs[i].payload)
                 IN  [bytes |-> upto[i - 1].bytes \o FrameBytes(fs[i]),
                      sent |-> IF msg = << >> THEN upto[i - 1].sent ELSE Append(upto[i - 1].sent, msg)]
    IN  upto

Stream(fs) == Written(fs)[Len(fs)]
=============================================================================
