------------------------------- MODULE Articles -------------------------------
(***************************************************************************)
(* What happens to the bytes of a file: SplitSegments cuts it into parts,  *)
(* YEncEncodeSegment makes an article of each (nntp/yenc.go), UploadJob    *)
(* posts them and lists them in an NZB, and DownloadJob fetches, decodes   *)
(* and joins them.  The provider (external) keeps the articles and may     *)
(* damage them.                                                            *)
(*                                                                         *)
(* A checksum is the data it was computed from: CRC-32 is taken to tell    *)
(* the damages of the model apart.  The checksum of no data is 0 in the    *)
(* code and NoCRC here, which the code takes for "not given".              *)
(***************************************************************************)
EXTENDS Integers, FiniteSets, Sequences, SequencesExt

CONSTANTS
    Bytes,        \* the bytes files are made of
    MaxLength,    \* bound on the length of a file
    SegmentSize,  \* nntp.SegmentSize
    LineLength,   \* yEncLineLen
    MaxDamages    \* bound on the lines and articles the provider loses

ASSUME BytesAssumption   == Bytes \subseteq 0 .. 255
ASSUME SizesAssumption   == /\ SegmentSize \in Nat \ {0}
                            /\ LineLength \in Nat \ {0}
ASSUME BoundsAssumption  == MaxLength \in Nat /\ MaxDamages \in Nat

VARIABLES
    file,      \* the uploaded bytes
    articles,  \* articles[k]: the lines of part k at the provider
    lost,      \* parts the provider no longer has
    nzb,       \* the segments the NZB lists
    fetched,   \* number of segments DownloadJob has decoded
    body,      \* what it has joined
    phase,     \* "posting", "stored", "done", or the error that ended it
    damages    \* number of losses so far

vars == <<file, articles, lost, nzb, fetched, body, phase, damages>>

-----------------------------------------------------------------------------
(***************************************************************************)
(* SplitSegments.  The loop of the encoder over the columns of a line cuts *)
(* a part into lines in the same way.                                      *)
(***************************************************************************)
Ceiling(n, size) == (n + size - 1) \div size

\* Mutant: offsets from 0.
SplitSegmentsFromZero(data, size) ==
    [k \in 1 .. Ceiling(Len(data), size) |->
        [begin |-> (k - 1) * size,
         data  |-> SubSeq(data, (k - 1) * size + 1,
                          IF k * size > Len(data) THEN Len(data) ELSE k * size)]]

SplitSegments(data, size) ==
    [k \in 1 .. Ceiling(Len(data), size) |->
        [begin |-> (k - 1) * size + 1,
         data  |-> SubSeq(data, (k - 1) * size + 1,
                          IF k * size > Len(data) THEN Len(data) ELSE k * size)]]

(***************************************************************************)
(* YEncEncodeSegment                                                       *)
(***************************************************************************)
NUL == 0
TAB == 9
LF == 10
CR == 13
SPACE == 32
DOT == 46
EQUALS == 61

\* Mutant: line feeds are not escaped.
NeedsEscapeNoLF(out, first, last) ==
    \/ out \in {NUL, CR, EQUALS}
    \/ out \in {TAB, SPACE} /\ (first \/ last)
    \/ out = DOT /\ first

NeedsEscape(out, first, last) ==
    \/ out \in {NUL, LF, CR, EQUALS}
    \/ out \in {TAB, SPACE} /\ (first \/ last)
    \/ out = DOT /\ first

Encoded(raw, i) ==
    LET out == (raw[i] + 42) % 256 IN
    IF NeedsEscape(out, i = 1, i = Len(raw)) THEN <<EQUALS, (out + 64) % 256>> ELSE <<out>>

\* What the loop has written after each of its turns
EncodeLoop(raw) ==
    LET line[n \in 0 .. Len(raw)] == IF n = 0 THEN <<>> ELSE line[n - 1] \o Encoded(raw, n)
    IN  line

EncodeLine(raw) == EncodeLoop(raw)[Len(raw)]

NoCRC == <<>>

Header(part) == [kind |-> "=ypart", begin |-> part.begin,
                 end |-> part.begin + Len(part.data) - 1]

Data(raw) == [kind |-> "data", bytes |-> EncodeLine(raw)]

Trailer(part) == [kind |-> "=yend", pcrc |-> part.data]

YEncEncodeSegment(part) ==
    LET lines == SplitSegments(part.data, LineLength) IN
    <<[kind |-> "=ybegin"], Header(part)>>
        \o [k \in DOMAIN lines |-> Data(lines[k].data)]
        \o <<Trailer(part)>>

(***************************************************************************)
(* YEncDecode                                                              *)
(***************************************************************************)
\* strings.TrimRight(line, "\r\n")
TrimRight(bytes) ==
    LET kept == {i \in DOMAIN bytes : bytes[i] \notin {CR, LF}} IN
    SubSeq(bytes, 1, IF kept = {} THEN 0 ELSE CHOOSE i \in kept : \A j \in kept : j <= i)

\* One byte of a line; "escaped" is set between an "=" and the byte it escapes.
DecodeByte(dec, byte, last) ==
    IF dec.escaped
      THEN [escaped |-> FALSE, data |-> Append(dec.data, (byte - 64 - 42 + 512) % 256)]
      ELSE IF byte = EQUALS /\ ~last
             THEN [dec EXCEPT !.escaped = TRUE]
             ELSE [dec EXCEPT !.data = Append(@, (byte - 42 + 256) % 256)]

DecodeLoop(bytes) ==
    LET dec[n \in 0 .. Len(bytes)] ==
            IF n = 0 THEN [escaped |-> FALSE, data |-> <<>>]
                     ELSE DecodeByte(dec[n - 1], bytes[n], n = Len(bytes))
    IN  dec

DecodeLine(bytes) == DecodeLoop(bytes)[Len(bytes)].data

\* One line of an article; nothing is read after "=yend".
DecodeStep(dec, line) ==
    IF dec.ended THEN dec
    ELSE CASE line.kind = "=ybegin" -> [dec EXCEPT !.started = TRUE]
           [] line.kind = "=ypart"  -> dec
           [] line.kind = "=yend"   -> [dec EXCEPT !.ended = TRUE, !.pcrc = line.pcrc]
           [] line.kind = "data"    ->
                 IF dec.started
                   THEN [dec EXCEPT !.data = @ \o DecodeLine(TrimRight(line.bytes))]
                   ELSE dec

ReadLoop(lines) ==
    LET dec[n \in 0 .. Len(lines)] ==
            IF n = 0 THEN [started |-> FALSE, ended |-> FALSE, data |-> <<>>, pcrc |-> NoCRC]
                     ELSE DecodeStep(dec[n - 1], lines[n])
    IN  dec

YEncDecode(lines) == ReadLoop(lines)[Len(lines)]

\* Mutant: the checksum is computed and not compared.
DecodesUnchecked(dec) == dec.started

\* No error: =ybegin was found and the checksum, when given, is right.
Decodes(dec) == dec.started /\ (dec.pcrc # NoCRC => dec.pcrc = dec.data)

-----------------------------------------------------------------------------
Init ==
    /\ file \in SeqOf(Bytes, MaxLength)
    /\ articles = <<>>
    /\ lost = {}
    /\ nzb = <<>>
    /\ fetched = 0
    /\ body = <<>>
    /\ phase = "posting"
    /\ damages = 0

Parts == SplitSegments(file, SegmentSize)

\* UploadJob.Run: one turn of its loop
Post ==
    /\ phase = "posting"
    /\ Len(articles) < Len(Parts)
    /\ LET n == Len(articles) + 1 IN
          /\ articles' = Append(articles, YEncEncodeSegment(Parts[n]))
          /\ nzb' = Append(nzb, [number |-> n, msgid |-> n])
    /\ UNCHANGED <<file, lost, fetched, body, phase, damages>>

\* After the loop, or "upload: empty file" before it.
Promote ==
    /\ phase = "posting"
    /\ Len(articles) = Len(Parts)
    /\ phase' = IF file = <<>> THEN "refused" ELSE "stored"
    /\ UNCHANGED <<file, articles, lost, nzb, fetched, body, damages>>

(***************************************************************************)
(* The provider (external).  It loses a line of an article or all of it.   *)
(***************************************************************************)
Damage ==
    /\ damages < MaxDamages
    /\ damages' = damages + 1
    /\ \E k \in DOMAIN articles :
          \/ /\ lost' = lost \cup {k}
             /\ UNCHANGED articles
          \/ /\ \E l \in DOMAIN articles[k] :
                   articles' = [articles EXCEPT ![k] = RemoveAt(@, l)]
             /\ UNCHANGED lost
    /\ UNCHANGED <<file, nzb, fetched, body, phase>>

\* DownloadJob.Run: one turn of its loop over the sorted segments
Sorted ==
    CHOOSE segments \in [DOMAIN nzb -> ToSet(nzb)] :
        \A i, j \in DOMAIN nzb : i < j => segments[i].number < segments[j].number

Fetch ==
    /\ phase = "stored"
    /\ fetched < Len(nzb)
    /\ LET id  == Sorted[fetched + 1].msgid
           dec == YEncDecode(articles[id])
       IN  IF id \notin lost /\ Decodes(dec)
             THEN /\ body' = body \o dec.data
                  /\ fetched' = fetched + 1
                  /\ UNCHANGED phase
             ELSE /\ phase' = "failed"
                  /\ UNCHANGED <<body, fetched>>
    /\ UNCHANGED <<file, articles, lost, nzb, damages>>

WriteFile ==
    /\ phase = "stored"
    /\ fetched = Len(nzb)
    /\ phase' = "done"
    /\ UNCHANGED <<file, articles, lost, nzb, fetched, body, damages>>

Next == Post \/ Promote \/ Damage \/ Fetch \/ WriteFile

Spec == Init /\ [][Next]_vars

-----------------------------------------------------------------------------
(***************************************************************************)
(* Properties                                                              *)
(***************************************************************************)

\* An article that lost its last line, where the checksum is: the decoder
\* takes the end of the body for the end of the article.
Unprotected(k) == \A l \in DOMAIN articles[k] : articles[k][l].kind # "=yend"

\* What a download has joined is what was uploaded, byte for byte, however
\* parts and lines are cut and whatever the bytes are, and a loss ends the
\* download with an error.  The exception is an article without its trailer.
RoundTrip ==
    (\A k \in DOMAIN articles : ~Unprotected(k)) =>
        /\ body = SubSeq(file, 1, Len(body))
        /\ phase = "done" => body = file
        /\ phase = "failed" => damages > 0

\* Nothing in the data of an article can be taken for something else on the
\* way: no line break or NUL, no leading dot (NNTP's end and stuffing), no
\* "=y" at the start (a yEnc header), no blank at either end, and no line
\* longer than twice the line length.
WireSafe ==
    \A k \in DOMAIN articles : \A l \in DOMAIN articles[k] :
        articles[k][l].kind = "data" =>
            LET bytes == articles[k][l].bytes
                ends  == {bytes[1], bytes[Len(bytes)]}
            IN  /\ \A i \in DOMAIN bytes : bytes[i] \notin {NUL, LF, CR}
                /\ bytes[1] # DOT
                /\ ~(bytes[1] = EQUALS /\ bytes[2] = 121)
                /\ ends \cap {TAB, SPACE} = {}
                /\ Len(bytes) <= 2 * LineLength

\* The ranges that the =ypart headers announce follow on each other from the
\* first byte of the file to its last: what a reader needs that assembles the
\* parts in any order.
PartsTile ==
    damages = 0 =>
        /\ \A k \in DOMAIN articles :
              LET previous == IF k = 1 THEN 0 ELSE articles[k - 1][2].end IN
              /\ articles[k][2].begin = previous + 1
              /\ articles[k][2].end \in previous + 1 .. Len(file)
        /\ phase \in {"stored", "done"} => articles[Len(articles)][2].end = Len(file)
=============================================================================
