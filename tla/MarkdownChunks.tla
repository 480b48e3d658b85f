----------------------------- MODULE MarkdownChunks -----------------------------
(***************************************************************************)
(* MarkdownChunkerService: a document cut into sections at its headings,   *)
(* and a section too long for one chunk split at its paragraphs.           *)
(*                                                                         *)
(* The two algorithms are functions of a document; the machine only writes *)
(* documents, line by line, for them to be applied to.  For the first a    *)
(* line is a heading with its level and text, a code fence or text; for    *)
(* the second it is its length, and what the split asks of it.             *)
(***************************************************************************)
EXTENDS Naturals, Sequences, FiniteSets, SequencesExt

CONSTANTS Titles,       \* heading texts, as slugify returns them: <<name>> or <<name, n>> for "name-n"
          Lengths,      \* of a line of text
          MaxChars, OverlapChars,
          MaxLines, MaxBody      \* bounds

VARIABLES document,     \* the lines sections is given
          body          \* the lines split is given

vars == <<document, body>>

Null == <<>>            \* null: no slug, no h2

Headings == [kind : {"heading"}, level : 1 .. 4, title : Titles]
Fences == [kind : {"fence"}, ticks : {3, 4}, bare : BOOLEAN]
Lines == Headings \cup Fences \cup {[kind |-> "text"]}

\* A line of a section's body; a table begins with a row and a separator.
BodyLines == [kind : {"text", "row"}, length : Lengths] \cup {[kind |-> "separator", length |-> 1]}
             \cup {[kind |-> "fence", length |-> 1], [kind |-> "blank", length |-> 0]}

Init == document = <<>> /\ body = <<>>

WriteLine ==
  /\ body = <<>> /\ Len(document) < MaxLines
  /\ \E l \in Lines : document' = Append(document, l)
  /\ UNCHANGED body

WriteBody ==
  /\ document = <<>> /\ Len(body) < MaxBody
  /\ \E l \in BodyLines : body' = Append(body, l)
  /\ UNCHANGED document

Next == WriteLine \/ WriteBody

Spec == Init /\ [][Next]_vars

----------------------------------------------------------------------------
(* Sections *)

\* FenceTracker.consume: the ticks of the fence the next line is in, 0 outside.
Consume(open, line) ==
  IF line.kind # "fence" THEN open
  ELSE IF open = 0 THEN line.ticks
  ELSE IF line.bare /\ line.ticks >= open THEN 0 ELSE open

\* GithubSlugger.slug: the first of title, title-1, title-2, ... that is not taken, counting from
\* the last number the title was given.
Slug(occurrences, title) ==
  LET first == IF title \in DOMAIN occurrences THEN occurrences[title] ELSE 0
      name(n) == IF n = 0 THEN title ELSE Append(title, n)
      free == {n \in first .. first + Cardinality(DOMAIN occurrences) : name(n) \notin DOMAIN occurrences}
      n == CHOOSE k \in free : \A j \in free : k <= j
  IN  [slug |-> name(n),
       occurrences |-> [t \in DOMAIN occurrences \cup {title, name(n)} |->
                          IF t = name(n) THEN 0 ELSE IF t = title THEN n ELSE occurrences[t]]]

NoSections == [sections |-> <<[path |-> <<>>, slug |-> Null, lines |-> <<>>]>>,
               fence |-> 0, h2 |-> Null, titleSeen |-> FALSE, occurrences |-> <<>>]

Put(state, i) ==
  [state EXCEPT !.sections[Len(state.sections)].lines = Append(@, i), !.fence = Consume(@, document[i])]

Cut(state, path, slug) ==
  [state EXCEPT !.sections = Append(@, [path |-> path, slug |-> slug, lines |-> <<>>])]

\* MUTANT: an H2 does not end what the H1 before it stood for.
HeadingKeepingH2(state, i, entries) ==
  LET line == document[i]
      s == Slug(state.occurrences, line.title)
      slugged == [state EXCEPT !.occurrences = s.occurrences]
  IN  IF line.level = 1 /\ ~state.titleSeen /\ Len(state.sections) = 1 THEN [slugged EXCEPT !.titleSeen = TRUE]
      ELSE IF line.level <= 2 THEN [Cut(slugged, <<line.title>>, s.slug) EXCEPT !.h2 = IF @ = Null THEN line.title ELSE @]
      ELSE IF line.level = 3 /\ ~entries
        THEN Cut(slugged, IF state.h2 = Null THEN <<line.title>> ELSE <<state.h2, line.title>>, s.slug)
      ELSE Put(slugged, i)

\* A heading outside a fence: the title, a cut, or a line like any other.  Each takes a slug.
Heading(state, i, entries) ==
  LET line == document[i]
      s == Slug(state.occurrences, line.title)
      slugged == [state EXCEPT !.occurrences = s.occurrences]
  IN  IF line.level = 1 /\ ~state.titleSeen /\ Len(state.sections) = 1 THEN [slugged EXCEPT !.titleSeen = TRUE]
      ELSE IF line.level <= 2 THEN [Cut(slugged, <<line.title>>, s.slug) EXCEPT !.h2 = line.title]
      ELSE IF line.level = 3 /\ ~entries
        THEN Cut(slugged, IF state.h2 = Null THEN <<line.title>> ELSE <<state.h2, line.title>>, s.slug)
      ELSE Put(slugged, i)

Read(state, i, entries) ==
  IF document[i].kind = "heading" /\ state.fence = 0 THEN Heading(state, i, entries) ELSE Put(state, i)

\* sections, in the mode SECTIONS or ENTRIES: what is known after each line.
Reading(entries) ==
  LET state[i \in 0 .. Len(document)] == IF i = 0 THEN NoSections ELSE Read(state[i - 1], i, entries)
  IN  state

Sections(entries) == Reading(entries)[Len(document)].sections

----------------------------------------------------------------------------
(* The parts of a section *)

\* Lengths joined by a separator.
Joined(lengths, separator) ==
  LET sum[n \in 0 .. Len(lengths)] ==
        IF n = 0 THEN 0 ELSE sum[n - 1] + lengths[n] + (IF n = 1 THEN 0 ELSE separator)
  IN  sum[Len(lengths)]

\* Pieces joined by a newline, and paragraphs by two.
Length(paragraph) == Joined([i \in DOMAIN paragraph |-> paragraph[i].length], 1)
JoinedLength(paragraphs) == Joined([i \in DOMAIN paragraphs |-> Length(paragraphs[i])], 2)

Piece(i, from, length) == [line |-> i, from |-> from, length |-> length]

Whole == [i \in DOMAIN body |-> Piece(i, 0, body[i].length)]

Gather(state, i) ==
  IF ~state.inside /\ body[i].kind = "blank"
    THEN [state EXCEPT !.done = IF state.buffer = <<>> THEN @ ELSE Append(@, state.buffer), !.buffer = <<>>]
    ELSE [state EXCEPT !.buffer = Append(@, Whole[i]), !.inside = IF body[i].kind = "fence" THEN ~@ ELSE @]

\* paragraphs: blocks between blank lines, none of which is inside a fence.
Gathering ==
  LET state[i \in 0 .. Len(body)] ==
        IF i = 0 THEN [done |-> <<>>, buffer |-> <<>>, inside |-> FALSE] ELSE Gather(state[i - 1], i)
  IN  state

Paragraphs ==
  LET end == Gathering[Len(body)]
  IN  IF end.buffer = <<>> THEN end.done ELSE Append(end.done, end.buffer)

\* isTable, and a header short enough to be repeated on every piece.
Header(p) ==
  IF Len(p) >= 2 /\ body[p[1].line].kind = "row" /\ body[p[2].line].kind = "separator"
       /\ 2 * (p[1].length + p[2].length + 2) < MaxChars
    THEN SubSeq(p, 1, 2) ELSE <<>>

\* A line cut at the limit.
CutLine(piece) ==
  LET n == IF piece.length = 0 THEN 1 ELSE (piece.length + MaxChars - 1) \div MaxChars
  IN  [k \in 1 .. n |-> Piece(piece.line, (k - 1) * MaxChars,
                              IF k < n THEN MaxChars ELSE piece.length - (k - 1) * MaxChars)]

Slices(p) == FlattenSeq([i \in 1 .. Len(p) - Len(Header(p)) |-> CutLine(p[i + Len(Header(p))])])

Fill(state, header, piece) ==
  IF state.rows /\ Length(state.buffer) + 1 + piece.length > MaxChars
    THEN [state EXCEPT !.done = Append(@, state.buffer), !.buffer = Append(header, piece)]
    ELSE [state EXCEPT !.buffer = IF Length(@) = 0 THEN <<piece>> ELSE Append(@, piece), !.rows = TRUE]

Filling(p) ==
  LET state[i \in 0 .. Len(Slices(p))] ==
        IF i = 0 THEN [done |-> <<>>, buffer |-> Header(p), rows |-> FALSE] ELSE Fill(state[i - 1], Header(p), Slices(p)[i])
  IN  state

\* hardSplit: one oversized paragraph, at its lines, a table's header on every piece.
HardSplit(p) ==
  LET end == Filling(p)[Len(Slices(p))]
  IN  IF end.rows THEN Append(end.done, end.buffer) ELSE end.done

Ending(seq, n) == SubSeq(seq, Len(seq) - n + 1, Len(seq))

\* MUTANT: the overlap is kept however long the next paragraph is.
OverlapAlways(current, next) ==
  LET fits == {n \in 0 .. Len(current) : JoinedLength(Ending(current, n)) <= OverlapChars}
  IN  Ending(current, CHOOSE n \in fits : \A m \in fits : m <= n)

\* tail: the paragraphs at the end that fit in the overlap, unless the next does not fit behind them.
Overlap(current, next) ==
  LET fits == {n \in 0 .. Len(current) : JoinedLength(Ending(current, n)) <= OverlapChars}
      kept == Ending(current, CHOOSE n \in fits : \A m \in fits : m <= n)
  IN  IF JoinedLength(Append(kept, next)) > MaxChars THEN <<>> ELSE kept

Blocks == FlattenSeq([i \in DOMAIN Paragraphs |->
                      IF Length(Paragraphs[i]) > MaxChars THEN HardSplit(Paragraphs[i]) ELSE <<Paragraphs[i]>>])

Pack(state, p) ==
  IF state.current # <<>> /\ JoinedLength(Append(state.current, p)) > MaxChars
    THEN [parts |-> Append(state.parts, state.current), current |-> Append(Overlap(state.current, p), p)]
    ELSE [state EXCEPT !.current = Append(@, p)]

Packing ==
  LET state[i \in 0 .. Len(Blocks)] ==
        IF i = 0 THEN [parts |-> <<>>, current |-> <<>>] ELSE Pack(state[i - 1], Blocks[i])
  IN  state

\* split: a body within the limit as it is.
Split ==
  LET end == Packing[Len(Blocks)]
  IN  IF Length(Whole) <= MaxChars THEN <<<<Whole>>>>
      ELSE IF end.current = <<>> THEN end.parts ELSE Append(end.parts, end.current)

----------------------------------------------------------------------------
(* Properties *)

\* Whether line i is inside a fence, or is one: some fence before it was opened and not closed.
Inside(i) ==
  LET open[j \in 0 .. Len(document)] == IF j = 0 THEN 0 ELSE Consume(open[j - 1], document[j])
  IN  open[i - 1] # 0

IsHeading(i) == document[i].kind = "heading" /\ ~Inside(i)
Cuts(i, entries) == IsHeading(i) /\ document[i].level <= IF entries THEN 2 ELSE 3

\* The document's title: an H1 with no H2 or H3 before it, the first such.
IsTitle(i, entries) ==
  /\ IsHeading(i) /\ document[i].level = 1
  /\ \A j \in 1 .. i - 1 : ~Cuts(j, entries) /\ ~(IsHeading(j) /\ document[j].level = 1)

\* The headings a reader finds line i under.
Above(i, entries) ==
  LET cuts == {j \in 1 .. i : Cuts(j, entries) /\ ~IsTitle(j, entries)}
      last(s) == CHOOSE j \in s : \A k \in s : k <= j
      tops == {j \in cuts : document[j].level <= 2}
  IN  IF cuts = {} THEN <<>>
      ELSE IF document[last(cuts)].level = 3 /\ tops # {}
        THEN <<document[last(tops)].title, document[last(cuts)].title>>
      ELSE <<document[last(cuts)].title>>

\* Every line but a cut is in a section, in order, each once, and under the headings above it.
UnderItsHeading(entries) ==
  LET sections == Sections(entries)
      lines(n) == sections[n].lines
  IN  /\ \A i \in DOMAIN document : Cuts(i, entries) <=> \A n \in DOMAIN sections : i \notin ToSet(lines(n))
      /\ \A m, n \in DOMAIN sections : \A a \in DOMAIN lines(m), b \in DOMAIN lines(n) :
           m < n \/ (m = n /\ a < b) => lines(m)[a] < lines(n)[b]
      /\ \A n \in DOMAIN sections : \A i \in ToSet(lines(n)) : sections[n].path = Above(i, entries)

\* GithubSlugger, "across the whole document": no two sections have one anchor.
AnchorsDistinct(entries) ==
  LET sections == Sections(entries)
  IN  \A m, n \in DOMAIN sections : m # n => sections[m].slug # sections[n].slug

\* MarkdownChunkerService: "H2 and H3 start a chunk", "ENTRIES cuts at H2 only", fenced headings are text, and
\* each chunk can be told apart by its anchor.
SectionsFaithful == \A entries \in BOOLEAN : UnderItsHeading(entries) /\ AnchorsDistinct(entries)

\* A part of more than one paragraph, or of no table, fits; a table's piece may exceed it by its header.
PartFits(part) ==
  JoinedLength(part) <= MaxChars + (IF Len(part) = 1 /\ Header(part[1]) # <<>> THEN Length(Header(part[1])) + 1 ELSE 0)

\* Every character of the body is in some part, and paragraphs are repeated at most as the overlap.
Covers(parts) ==
  LET pieces == UNION {UNION {ToSet(parts[n][k]) : k \in DOMAIN parts[n]} : n \in DOMAIN parts}
  IN  /\ \A i \in DOMAIN body : \A c \in 0 .. body[i].length - 1 :
           \E p \in pieces : p.line = i /\ p.from <= c /\ c < p.from + p.length
      /\ \A n \in DOMAIN parts : PartFits(parts[n])
      /\ \A n \in 1 .. Len(parts) - 1 : parts[n][Len(parts[n])] # parts[n + 1][Len(parts[n + 1])]

\* MarkdownChunkerService.split keeps the whole body, in parts of the promised size.
PartsCover == Covers(Split)
=============================================================================
