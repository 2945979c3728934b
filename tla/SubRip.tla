------------------------------- MODULE SubRip -------------------------------
(***************************************************************************)
(* bhashasub.core: a subtitle file is typed line by line, parsed as it is, *)
(* and written back by serialize().                                        *)
(*                                                                         *)
(* A line is what the parser can tell of it: nothing, a number alone, a    *)
(* timing line, another line with an arrow, or words.  A written timecode  *)
(* is its numbers and the digits of its fraction; one that int() refuses   *)
(* has the wrong number of fields.  Words are code points, in the grapheme *)
(* clusters the regex library finds.  A frame rate is a fraction, of at    *)
(* most 1000 frames a second, and arithmetic is exact; the code's is in    *)
(* floating point.  Left out: encodings, other formats, messages of        *)
(* issues.                                                                 *)
(***************************************************************************)
EXTENDS Naturals, Integers, Sequences, FiniteSets, SequencesExt

CONSTANTS
    Line,     \* the lines a file may hold
    MaxLines, \* how many are typed
    CodePoint,
    Joiner,   \* VIRAMAS and ZERO_WIDTH_JOINERS
    Fps       \* frame rates: so many frames in so many seconds

Blank == [kind |-> "blank"]
Number(n) == [kind |-> "number", value |-> n]
Timing(start, end, trailing) ==
    [kind |-> "timing", start |-> start, end |-> end, trailing |-> trailing]
Arrow == [kind |-> "arrow"]
Words(clusters) == [kind |-> "words", clusters |-> clusters]

Written == [fields : Seq(Nat), frac : Seq(0..9)]
Cluster == Seq(CodePoint) \ {<<>>}
FileLine == {Blank, Arrow} \cup [kind : {"number"}, value : Nat]
    \cup [kind : {"timing"}, start : Written, end : Written, trailing : BOOLEAN]
    \cup [kind : {"words"}, clusters : Seq(Cluster)]

ASSUME SubRipAssumption ==
    /\ Line \subseteq FileLine
    /\ MaxLines \in Nat \ {0}
    /\ Fps \subseteq [frames : Nat \ {0}, seconds : Nat \ {0}]
    /\ \A fps \in Fps : fps.frames <= 1000 * fps.seconds

VARIABLES
    doc,   \* the lines of the file
    parsed \* parse() of it: the cues, the issues, the next index to give

file == <<doc, parsed>>

-----------------------------------------------------------------------------
(* TimeCode. *)

\* parse(): hours may be left out, the fraction is padded or cut to three digits.
Fields(x) == IF Len(x.fields) = 2 THEN <<0>> \o x.fields ELSE x.fields

Readable(x) ==
    /\ Len(x.fields) \in {2, 3}
    /\ Fields(x)[2] <= 59 /\ Fields(x)[3] <= 59

Digit(frac, i) == IF i <= Len(frac) THEN frac[i] ELSE 0

TimeCode(x) ==
    LET f == Fields(x) IN
        3600000 * f[1] + 60000 * f[2] + 1000 * f[3]
            + 100 * Digit(x.frac, 1) + 10 * Digit(x.frac, 2) + Digit(x.frac, 3)

\* parts, and to_srt().
Parts_LongMinutes(ms) == <<ms \div 3600000, ms \div 60000, (ms \div 1000) % 60, ms % 1000>>
Parts(ms) == <<ms \div 3600000, (ms \div 60000) % 60, (ms \div 1000) % 60, ms % 1000>>

ToSrt(ms) ==
    LET p == Parts(ms) IN
        [fields |-> <<p[1], p[2], p[3]>>,
         frac |-> <<p[4] \div 100, (p[4] \div 10) % 10, p[4] % 10>>]

\* Frames are rounded up to milliseconds, milliseconds down to frames.
\* Multiples of fps.seconds are taken out first: TLC's integers have 32 bits.
Period(fps) == 1000 * fps.seconds

FramesToMs_Down(frames, fps) ==
    Period(fps) * (frames \div fps.frames) + (Period(fps) * (frames % fps.frames)) \div fps.frames
FramesToMs(frames, fps) ==
    Period(fps) * (frames \div fps.frames)
        + (Period(fps) * (frames % fps.frames) + fps.frames - 1) \div fps.frames
MsToFrames(ms, fps) ==
    fps.frames * (ms \div Period(fps)) + (fps.frames * (ms % Period(fps))) \div Period(fps)

-----------------------------------------------------------------------------
(* The parser. *)

\* _split_blocks(): runs of lines that are not blank, with their first line's number.
Flush_Kept(split) ==
    IF split.current = <<>> THEN split
    ELSE [split EXCEPT !.blocks = Append(@, [start |-> split.start, lines |-> split.current])]
Flush(split) ==
    IF split.current = <<>> THEN split
    ELSE [split EXCEPT !.current = <<>>,
                       !.blocks = Append(@, [start |-> split.start, lines |-> split.current])]

Feed(split, i, line) ==
    IF line = Blank THEN Flush(split)
    ELSE [split EXCEPT !.start = IF split.current = <<>> THEN i ELSE @,
                       !.current = Append(@, line)]

Scan(lines) ==
    FoldLeft(LAMBDA split, i : Feed(split, i, lines[i]),
             [blocks |-> <<>>, current |-> <<>>, start |-> 0], [i \in DOMAIN lines |-> i])

SplitBlocks(lines) == Flush(Scan(lines)).blocks

HasArrow(line) == line.kind \in {"timing", "arrow"}

\* A number is an index when a timing line follows it.
HasIndex(block) ==
    /\ block.lines[1].kind = "number"
    /\ Len(block.lines) > 1
    /\ HasArrow(block.lines[2])

Cursor(block) == IF HasIndex(block) THEN 2 ELSE 1
TimingLine(block) == block.lines[Cursor(block)]

\* An unusable block is skipped, with an error for it.
Usable(block) ==
    LET line == TimingLine(block) IN
        line.kind = "timing" /\ Readable(line.start) /\ Readable(line.end)

ErrorLine(block) ==
    IF HasArrow(TimingLine(block)) THEN block.start + Cursor(block) - 1 ELSE block.start

NextIndex(next, index) == index + 1

Skip_Silently(track, block) == track
Skip(track, block) ==
    [track EXCEPT !.issues = Append(@, [line |-> ErrorLine(block), severity |-> "error"])]

\* What is accepted with a warning: text after the times, a cue without an index.
Warnings(block) ==
    LET at(n) == [line |-> n, severity |-> "warning"] IN
        (IF TimingLine(block).trailing THEN <<at(block.start + Cursor(block) - 1)>> ELSE <<>>)
            \o (IF HasIndex(block) THEN <<>> ELSE <<at(block.start)>>)

AddCue(track, block) ==
    LET line == TimingLine(block)
        index == IF HasIndex(block) THEN block.lines[1].value ELSE track.next
    IN  [cues |-> Append(track.cues,
             [index |-> index, start |-> TimeCode(line.start), end |-> TimeCode(line.end),
              lines |-> SubSeq(block.lines, Cursor(block) + 1, Len(block.lines)),
              first |-> block.start, last |-> block.start + Len(block.lines) - 1]),
         issues |-> track.issues \o Warnings(block),
         next |-> NextIndex(track.next, index)]

ParseBlock(track, block) == IF Usable(block) THEN AddCue(track, block) ELSE Skip(track, block)

Read(blocks) == FoldLeft(ParseBlock, [cues |-> <<>>, issues |-> <<>>, next |-> 1], blocks)

Parse(lines) == Read(SplitBlocks(lines))

\* ParseResult.ok.
Errors(result) == {i \in DOMAIN result.issues : result.issues[i].severity = "error"}
Ok(result) == Errors(result) = {}

-----------------------------------------------------------------------------
(* serialize(), Cue and Track. *)

\* One blank line between the cues, and a newline at the end; no cue is no text.
Block(cue, index) ==
    <<Number(index), Timing(ToSrt(cue.start), ToSrt(cue.end), FALSE)>> \o cue.lines \o <<Blank>>

Serialize(cues, renumber) ==
    IF cues = <<>> THEN <<Blank>>
    ELSE FlattenSeq([k \in DOMAIN cues |-> Block(cues[k], IF renumber THEN k ELSE cues[k].index)])

Duration(cue) == cue.end - cue.start
HasValidTiming(cue) == cue.end > cue.start

GapTo(cue, following) == following.start - cue.end
Overlaps(a, b) == a.start < b.end /\ b.start < a.end

IsOrdered(cues) == \A k \in 1..(Len(cues) - 1) : cues[k].start <= cues[k + 1].start

\* _aksharas(): a cluster whose last code point joins is merged into the one that
\* follows it.
Joins(cluster) == Last(cluster) \in Joiner

Merge(syllables, cluster) ==
    IF Joins(cluster)
    THEN [syllables EXCEPT !.carry = Append(@, cluster)]
    ELSE [merged |-> Append(syllables.merged, Append(syllables.carry, cluster)), carry |-> <<>>]

Rest(syllables) == IF syllables.carry = <<>> THEN <<>> ELSE <<syllables.carry>>

Aksharas(clusters) ==
    LET end == FoldLeft(Merge, [merged |-> <<>>, carry |-> <<>>], clusters)
    IN  end.merged \o Rest(end)

\* segment() and count().
CodePoints(clusters) == Len(FlattenSeq(clusters))

Count(clusters, unit) ==
    CASE unit = "codepoint" -> CodePoints(clusters)
      [] unit = "grapheme" -> Len(clusters)
      [] unit = "akshara" -> Len(Aksharas(clusters))

\* reading_speed(), in units per 1000 s; a cue that does not last has none.
ReadingSpeed(units, ms) == IF ms <= 0 THEN 0 ELSE (1000000 * units) \div ms

-----------------------------------------------------------------------------
\* A person types lines, and a program writes the cues it has read.
FileInit == \E l \in Line : doc = <<l>> /\ parsed = Parse(<<l>>)

TypeLine(l) ==
    /\ Len(doc) < MaxLines
    /\ doc' = Append(doc, l)
    /\ parsed' = Parse(doc')

Save(renumber) ==
    /\ doc' = Serialize(parsed.cues, renumber)
    /\ parsed' = Parse(doc')

FileNext == (\E l \in Line : TypeLine(l)) \/ (\E renumber \in BOOLEAN : Save(renumber))

FileSpec == FileInit /\ [][FileNext]_file
-----------------------------------------------------------------------------
(* Properties. *)

Cues == parsed.cues

\* The blocks of a file, said without a loop: the runs of lines between blank ones.
Runs == {r \in (DOMAIN doc) \X (DOMAIN doc) :
    /\ r[1] <= r[2] /\ \A i \in r[1]..r[2] : doc[i] # Blank
    /\ r[1] > 1 => doc[r[1] - 1] = Blank
    /\ r[2] < Len(doc) => doc[r[2] + 1] = Blank}

\* Nothing is dropped silently: every block is a cue, with all of its text and the
\* lines it stands on, or has its own error; no error means every block was read
\* (ParseResult.ok, "True when nothing was lost").
NothingIsDropped ==
    /\ \A k \in DOMAIN Cues :
        /\ <<Cues[k].first, Cues[k].last>> \in Runs
        /\ Cues[k].lines = SubSeq(doc, Cues[k].last - Len(Cues[k].lines) + 1, Cues[k].last)
        /\ doc[Cues[k].last - Len(Cues[k].lines)].kind = "timing"
    /\ \A r \in Runs :
        \/ \E k \in DOMAIN Cues : Cues[k].first = r[1]
        \/ \E i \in Errors(parsed) : parsed.issues[i].line \in r[1]..r[2]
    /\ Cardinality(Runs) = Len(Cues) + Cardinality(Errors(parsed))

\* Cues keep the index they were written with; one without continues from the cue
\* before it, whatever unusable blocks are between them.
NumbersFollow ==
    \A k \in DOMAIN Cues :
        Cues[k].index =
            IF doc[Cues[k].first].kind = "number" THEN doc[Cues[k].first].value
            ELSE IF k = 1 THEN 1 ELSE Cues[k - 1].index + 1

\* parse(): what the track says of a file, and its issues, is what the file says.
ParseIsFaithful == NothingIsDropped /\ NumbersFollow

\* The gaps of neighbours tell everything in an ordered track of cues that last: no
\* two cues of it overlap exactly when no gap is negative (Track.pairs()).
GapsShowOverlaps ==
    IsOrdered(Cues) /\ (\A k \in DOMAIN Cues : HasValidTiming(Cues[k])) =>
        ((\A k \in 1..(Len(Cues) - 1) : GapTo(Cues[k], Cues[k + 1]) >= 0)
            <=> (\A i, j \in DOMAIN Cues : i # j => ~Overlaps(Cues[i], Cues[j])))

\* A gap or a duration of at least so many frames is the same in milliseconds, at
\* integer rates and at 23.976 or 29.97: no gap that is a fraction too small passes
\* (frames_to_ms()).
FramesAgree ==
    \A k \in DOMAIN Cues : \A ms \in {Duration(Cues[k]) - 1, Duration(Cues[k])}, fps \in Fps :
        ms >= 0 => LET n == MsToFrames(ms, fps) IN
            /\ ms >= FramesToMs(n, fps) /\ ms < FramesToMs(n + 1, fps)
            /\ MsToFrames(FramesToMs(n, fps), fps) = n

\* Aksharas lose no cluster, and end where a cluster does not join, or at the end.
AksharasAreWhole ==
    \A l \in Range(doc) : l.kind = "words" =>
        LET a == Aksharas(l.clusters) IN
            /\ FlattenSeq(a) = l.clusters
            /\ \A k \in DOMAIN a :
                \A i \in DOMAIN a[k] : ~Joins(a[k][i]) <=> i = Len(a[k]) /\
                    ~(k = Len(a) /\ Joins(Last(l.clusters)))

\* The units are ordered: a cue that is too fast when its aksharas are counted is so
\* in graphemes, and one that is too fast in graphemes is so in code points.
UnitsAreOrdered ==
    \A k \in DOMAIN Cues : \A l \in Range(Cues[k].lines) : l.kind = "words" =>
        LET speed(unit) == ReadingSpeed(Count(l.clusters, unit), Duration(Cues[k])) IN
            /\ 0 <= speed("akshara") /\ speed("akshara") <= speed("grapheme")
            /\ speed("grapheme") <= speed("codepoint")
            /\ speed("akshara") > 0 => HasValidTiming(Cues[k])

\* What the readability measures are made of: gaps, frames, syllables and units.
MeasuresAgree == GapsShowOverlaps /\ FramesAgree /\ AksharasAreWhole /\ UnitsAreOrdered

\* What a cue is, apart from where it stands.
Content(cue) == <<cue.index, cue.start, cue.end, cue.lines>>
Contents(cues) == [k \in DOMAIN cues |-> Content(cues[k])]

\* parse(serialize(parse(s))) = parse(s): a saved file has the cues that were read
\* and no issue of any kind; renumbering changes indices and nothing else.
SavingIsLossless ==
    [][/\ Save(FALSE) => Contents(parsed'.cues) = Contents(Cues) /\ parsed'.issues = <<>>
       /\ Save(TRUE) =>
            /\ Contents(parsed'.cues) = Contents([k \in DOMAIN Cues |-> [Cues[k] EXCEPT !.index = k]])
            /\ parsed'.issues = <<>>]_file

\* Lines typed at the end change at most the cue of the block they belong to.
ClosedCuesStay ==
    [][(\E l \in Line : TypeLine(l)) =>
        \A k \in DOMAIN Cues : Cues[k].last < Len(doc) =>
            k \in DOMAIN parsed'.cues /\ parsed'.cues[k] = Cues[k]]_file
=============================================================================
