---------------------------- MODULE MarkdownProofs ----------------------------
(***************************************************************************)
(* Why MarkdownChunkerService cuts any document and any body as it         *)
(* promises: every line under its headings, every anchor for itself, every *)
(* character in a part that fits.                                          *)
(***************************************************************************)
EXTENDS MCKnowledgeBase, FiniteSetTheorems, TLAPS

----------------------------------------------------------------------------
(* Numbers, and what is defined step by step *)

\* A set of numbers that has 0 and with each number the next has all of them: were there one it has not,
\* those it has below would be as many as those without 0.
LEMMA NatSetInduction ==
  ASSUME NEW S \in SUBSET Nat, 0 \in S, \A n \in S : n + 1 \in S
  PROVE  S = Nat
<1>1. SUFFICES ASSUME NEW n \in Nat, n \notin S PROVE FALSE
  OBVIOUS
<1> DEFINE A == {m \in S : m <= n}
           f == [m \in A |-> m + 1]
<1>2. IsFiniteSet(A)
  BY FS_BoundedSetOfNaturals
<1>3. 0 \in A
  OBVIOUS
<1>4. f \in [A -> A \ {0}]
  <2>1. ASSUME NEW m \in A PROVE m + 1 \in A \ {0}
    <3>1. m \in S /\ m \in Nat /\ m <= n /\ m # n
      BY <1>1
    <3>2. m + 1 \in S /\ m + 1 <= n /\ m + 1 # 0
      BY <3>1
    <3> QED
      BY <3>2
  <2> HIDE DEF A
  <2> QED
    BY <2>1
<1>5. IsFiniteSet(A \ {0}) /\ Cardinality(A \ {0}) = Cardinality(A) - 1 /\ Cardinality(A) \in Nat
  BY <1>2, <1>3, FS_RemoveElement, FS_CardinalityType
<1>6. \E x, y \in A : x # y /\ f[x] = f[y]
  <2> HIDE DEF A, f
  <2> QED
    BY <1>2, <1>4, <1>5, FS_PigeonHole
<1> QED
  BY <1>6

\* Numbers have a smallest one.
LEMMA Least ==
  ASSUME NEW S \in SUBSET Nat, S # {}
  PROVE  \E n \in S : \A m \in S : n <= m
<1>1. SUFFICES ASSUME \A n \in S : \E m \in S : m < n PROVE FALSE
  OBVIOUS
<1> DEFINE T == {n \in Nat : \A m \in S : n <= m}
<1>2. T \in SUBSET Nat /\ 0 \in T
  OBVIOUS
<1>3. ASSUME NEW n \in T PROVE n + 1 \in T
  <2>1. n \notin S
    BY <1>1
  <2>2. \A m \in S : n <= m /\ n # m
    BY <2>1
  <2>3. \A m \in S : n + 1 <= m
    BY <2>2
  <2> QED
    BY <2>3
<1>4. T = Nat
  <2> HIDE DEF T
  <2> QED
    BY <1>2, <1>3, NatSetInduction
<1>5. PICK n \in S : TRUE
  OBVIOUS
<1>6. n + 1 \in T
  BY <1>4
<1> QED
  BY <1>5, <1>6

\* ... and, where they are bounded, a greatest.
LEMMA Greatest ==
  ASSUME NEW n \in Nat, NEW S \in SUBSET (1 .. n), S # {}
  PROVE  \E m \in S : \A k \in S : k <= m
<1> DEFINE U == {m \in Nat : \A k \in S : k <= m}
<1>1. n \in U
  OBVIOUS
<1>2. U \in SUBSET Nat /\ U # {}
  BY <1>1
<1>3. PICK m \in U : \A j \in U : m <= j
  <2> HIDE DEF U
  <2> QED
    BY <1>2, Least
<1>4. m \in S
  <2> SUFFICES ASSUME m \notin S PROVE FALSE
    OBVIOUS
  <2>1. \A k \in S : k \in Nat /\ k >= 1 /\ k <= m - 1
    BY <1>3
  <2>2. m - 1 \in Nat
    <3>1. PICK k \in S : TRUE
      OBVIOUS
    <3>2. k \in Nat /\ k >= 1 /\ k <= m - 1
      BY <2>1
    <3>3. m \in Nat
      BY <1>3
    <3> QED
      BY <3>2, <3>3
  <2>3. m - 1 \in U
    BY <2>1, <2>2
  <2> QED
    BY <1>3, <2>3
<1> QED
  BY <1>3, <1>4

\* What is defined step by step up to a number is there, when each step stays among the states.
Stepped(n, States, base, step) ==
  \E f \in [0 .. n -> States] : f[0] = base /\ \A i \in 1 .. n : f[i] = step[<<i, f[i - 1]>>]

\* A function defined step by step over 0 .. n is what its equation says, and stays among the states.
LEMMA Recursion ==
  ASSUME NEW n \in Nat, NEW States, NEW base \in States, NEW step \in [(1 .. n) \X States -> States]
  PROVE  Stepped(n, States, base, step)
<1> DEFINE Up(f, m) == f \in [0 .. m -> States] /\ f[0] = base /\ \A i \in 1 .. m : f[i] = step[<<i, f[i - 1]>>]
           S == {m \in Nat : m <= n => \E f : Up(f, m)}
<1>1. S \in SUBSET Nat
  OBVIOUS
<1>2. 0 \in S
  <2>1. Up([i \in 0 .. 0 |-> base], 0)
    OBVIOUS
  <2> HIDE DEF Up
  <2> QED
    BY <2>1
<1>3. ASSUME NEW m \in S PROVE m + 1 \in S
  <2>1. SUFFICES ASSUME m + 1 <= n PROVE \E f : Up(f, m + 1)
    BY <1>1
  <2>2. m \in Nat /\ m <= n
    BY <2>1
  <2>3. PICK f : Up(f, m)
    BY <2>2
  <2> DEFINE x == step[<<m + 1, f[m]>>]
             g == [i \in 0 .. m + 1 |-> IF i = m + 1 THEN x ELSE f[i]]
  <2>4. x \in States
    BY <2>1, <2>2, <2>3
  <2> HIDE DEF x
  <2>5. g \in [0 .. m + 1 -> States] /\ g[0] = base
    BY <2>2, <2>3, <2>4
  <2>6. ASSUME NEW i \in 1 .. m + 1 PROVE g[i] = step[<<i, g[i - 1]>>]
    <3>1. CASE i = m + 1
      <4>1. g[i] = x /\ g[i - 1] = f[m]
        BY <2>2, <3>1
      <4> QED
        BY <3>1, <4>1 DEF x
    <3>2. CASE i # m + 1
      <4>1. i \in 1 .. m /\ g[i] = f[i] /\ g[i - 1] = f[i - 1]
        BY <2>2, <3>2
      <4> QED
        BY <2>3, <4>1
    <3> QED
      BY <3>1, <3>2
  <2>7. Up(g, m + 1)
    <3> HIDE DEF g
    <3> QED
      BY <2>5, <2>6
  <2> QED
    BY <2>7
<1>4. S = Nat
  <2> HIDE DEF S
  <2> QED
    BY <1>1, <1>2, <1>3, NatSetInduction
<1>5. PICK f : Up(f, n)
  <2> HIDE DEF Up
  <2> QED
    BY <1>4
<1> QED
  BY <1>5 DEF Stepped

----------------------------------------------------------------------------
(* MarkdownChunks: what is known of a document after each of its lines *)

\* What the kinds of lines carry.
LEMMA LineFacts ==
  ASSUME NEW l \in Markdown!Lines
  PROVE  /\ l.kind \in {"heading", "fence", "text"}
         /\ l.kind = "heading" => l.level \in 1 .. 4 /\ l.title \in Titles
         /\ l.kind = "fence" => l.ticks \in {3, 4}
  BY DEF Markdown!Lines, Markdown!Headings, Markdown!Fences

\* A document is its lines, counted from 1.
LEMMA DocumentFacts ==
  ASSUME document \in Seq(Markdown!Lines)
  PROVE  /\ Len(document) \in Nat /\ DOMAIN document = 1 .. Len(document)
         /\ \A i \in 1 .. Len(document) : document[i] \in Markdown!Lines
  OBVIOUS

\* The ticks of the fence after each line.
Opened ==
  CHOOSE open : open = [j \in 0 .. Len(document) |->
                          IF j = 0 THEN 0 ELSE Markdown!Consume(open[j - 1], document[j])]

\* The fence that is open behind each line decides whether the next one is inside.
LEMMA OpenedFacts ==
  ASSUME document \in Seq(Markdown!Lines)
  PROVE  /\ Opened[0] = 0
         /\ \A j \in 1 .. Len(document) : Opened[j] = Markdown!Consume(Opened[j - 1], document[j])
         /\ \A i : Markdown!Inside(i) <=> Opened[i - 1] # 0
<1> DEFINE n == Len(document)
           step == [p \in (1 .. n) \X Nat |-> Markdown!Consume(p[2], document[p[1]])]
           Is(f) == f = [j \in 0 .. n |-> IF j = 0 THEN 0 ELSE Markdown!Consume(f[j - 1], document[j])]
<1>1. n \in Nat /\ \A j \in 1 .. n : document[j] \in Markdown!Lines
  BY DocumentFacts
<1>2. \A j \in 1 .. n, open \in Nat : Markdown!Consume(open, document[j]) \in Nat
  BY <1>1, LineFacts DEF Markdown!Consume
<1> HIDE DEF n
<1>3. step \in [(1 .. n) \X Nat -> Nat]
  BY <1>2
<1>4. \A j \in 1 .. n, open \in Nat : step[<<j, open>>] = Markdown!Consume(open, document[j])
  OBVIOUS
<1> HIDE DEF step
<1>5. PICK f \in [0 .. n -> Nat] : f[0] = 0 /\ \A i \in 1 .. n : f[i] = step[<<i, f[i - 1]>>]
  <2>1. Stepped(n, Nat, 0, step)
    BY <1>1, <1>3, Recursion
  <2> QED
    BY <2>1 DEF Stepped
<1>6. \A j \in 1 .. n : f[j] = Markdown!Consume(f[j - 1], document[j])
  <2> SUFFICES ASSUME NEW j \in 1 .. n PROVE f[j] = Markdown!Consume(f[j - 1], document[j])
    OBVIOUS
  <2>1. j - 1 \in 0 .. n
    BY <1>1
  <2> QED
    BY <1>4, <1>5, <2>1
<1>7. Is(f)
  <2>1. \A j \in 0 .. n : f[j] = IF j = 0 THEN 0 ELSE Markdown!Consume(f[j - 1], document[j])
    BY <1>1, <1>5, <1>6
  <2> QED
    BY <2>1
<1>8. Opened = CHOOSE g : Is(g)
  BY DEF Opened, n
<1>9. Is(Opened)
  <2> HIDE DEF Is
  <2> QED
    BY <1>7, <1>8
<1>10. Opened[0] = 0 /\ \A j \in 1 .. n : Opened[j] = Markdown!Consume(Opened[j - 1], document[j])
  BY <1>1, <1>9
<1>11. \A i : Markdown!Inside(i) <=> Opened[i - 1] # 0
  BY DEF Markdown!Inside, Opened
<1> QED
  BY <1>10, <1>11 DEF n

\* Slugs are titles or numbered ones; those taken are counted.
Slugs == Seq(Words \cup Nat) \ {<<>>}
Taken == {o \in UNION {[D -> Nat] : D \in SUBSET Slugs} : IsFiniteSet(DOMAIN o)}

SectionsRead == [path : Seq(Titles), slug : Seq(Words \cup Nat), lines : Seq(Nat)]
ReadStates == [sections : Seq(SectionsRead) \ {<<>>}, fence : Nat, h2 : Titles \cup {<<>>},
               titleSeen : BOOLEAN, occurrences : Taken]

\* One of more names than are taken is free, since no two numbers make one name.
LEMMA SlugFacts ==
  ASSUME NEW o \in Taken, NEW title \in Titles
  PROVE  LET s == Markdown!Slug(o, title)
         IN  /\ s.slug \in Slugs /\ s.slug \notin DOMAIN o
             /\ s.occurrences \in Taken /\ DOMAIN o \subseteq DOMAIN s.occurrences /\ s.slug \in DOMAIN s.occurrences
<1> DEFINE c == Cardinality(DOMAIN o)
           first == IF title \in DOMAIN o THEN o[title] ELSE 0
           name(n) == IF n = 0 THEN title ELSE Append(title, n)
           free == {n \in first .. first + c : name(n) \notin DOMAIN o}
           k == CHOOSE m \in free : \A j \in free : m <= j
           now == [t \in DOMAIN o \cup {title, name(k)} |-> IF t = name(k) THEN 0 ELSE IF t = title THEN k ELSE o[t]]
<1>1. o \in [DOMAIN o -> Nat] /\ DOMAIN o \subseteq Slugs /\ IsFiniteSet(DOMAIN o)
  BY DEF Taken
<1>2. c \in Nat /\ first \in Nat
  BY <1>1, FS_CardinalityType
<1>3. title \in Seq(Words \cup Nat) /\ title # <<>> /\ Len(title) \in Nat
  BY MarkdownAssumption
<1>4. \A n \in Nat : name(n) \in Slugs
  <2> SUFFICES ASSUME NEW n \in Nat PROVE name(n) \in Slugs
    OBVIOUS
  <2>1. Append(title, n) \in Seq(Words \cup Nat) /\ Len(Append(title, n)) = Len(title) + 1
    BY <1>3
  <2>2. Append(title, n) # <<>>
    BY <1>3, <2>1
  <2> QED
    BY <1>3, <2>1, <2>2 DEF Slugs
<1>5. ASSUME NEW m \in Nat, NEW n \in Nat, name(m) = name(n) PROVE m = n
  <2> DEFINE W == Words \cup Nat
  <2>1. title \in Seq(W) /\ m \in W /\ n \in W
    BY <1>3
  <2> HIDE DEF W
  <2>2. /\ Len(Append(title, m)) = Len(title) + 1 /\ Len(Append(title, n)) = Len(title) + 1
        /\ Append(title, m)[Len(title) + 1] = m /\ Append(title, n)[Len(title) + 1] = n
    BY <2>1
  <2>3. CASE m = 0 \/ n = 0
    <3>1. Len(name(m)) = Len(name(n))
      BY <1>5
    <3>2. \A i \in {m, n} : Len(name(i)) = Len(title) <=> i = 0
      BY <1>3, <2>2
    <3> HIDE DEF name
    <3> QED
      BY <2>3, <3>1, <3>2
  <2>4. CASE m # 0 /\ n # 0
    BY <1>5, <2>2, <2>4
  <2> QED
    BY <2>3, <2>4
<1> HIDE DEF c, first, name
<1>6. free # {}
  <2> SUFFICES ASSUME free = {} PROVE FALSE
    OBVIOUS
  <2> DEFINE T == first .. first + c
             f == [n \in T |-> name(n)]
  <2>1. IsFiniteSet(T) /\ Cardinality(T) = c + 1
    <3>1. first + c \in Int /\ first \in Int
      BY <1>2
    <3>2. IsFiniteSet(T) /\ Cardinality(T) = IF first > first + c THEN 0 ELSE (first + c) - first + 1
      BY <3>1, FS_Interval
    <3> QED
      BY <1>2, <3>2
  <2>2. f \in [T -> DOMAIN o]
    OBVIOUS
  <2>3. T \subseteq Nat
    BY <1>2
  <2> HIDE DEF T
  <2>4. Cardinality(DOMAIN o) < Cardinality(T)
    BY <1>2, <2>1 DEF c
  <2>5. \E x, y \in T : x # y /\ f[x] = f[y]
    <3> HIDE DEF f
    <3> QED
      BY <1>1, <2>1, <2>2, <2>4, FS_PigeonHole
  <2> QED
    BY <1>5, <2>3, <2>5
<1>7. free \in SUBSET Nat
  BY <1>2
<1> HIDE DEF free
<1>8. k \in free
  <2>1. \E m \in free : \A j \in free : m <= j
    BY <1>6, <1>7, Least
  <2> QED
    BY <2>1
<1> HIDE DEF k
<1>9. k \in Nat /\ name(k) \notin DOMAIN o
  BY <1>7, <1>8 DEF free
<1>10. Markdown!Slug(o, title) = [slug |-> name(k), occurrences |-> now]
  BY DEF Markdown!Slug, Markdown!Cardinality, Cardinality, c, name, free, k, first
<1>11. now \in Taken
  <2> DEFINE D == DOMAIN o \cup {title, name(k)}
  <2>1. D \in SUBSET Slugs
    BY <1>1, <1>3, <1>4, <1>9 DEF Slugs
  <2>2. IsFiniteSet(D)
    <3>1. IsFiniteSet(DOMAIN o \cup {title})
      BY <1>1, FS_AddElement
    <3>2. D = (DOMAIN o \cup {title}) \cup {name(k)}
      OBVIOUS
    <3> QED
      BY <3>1, <3>2, FS_AddElement
  <2>3. now \in [D -> Nat]
    BY <1>1, <1>9
  <2>4. DOMAIN now = D
    OBVIOUS
  <2> HIDE DEF D, now
  <2> QED
    BY <2>1, <2>2, <2>3, <2>4 DEF Taken
<1>12. DOMAIN now = DOMAIN o \cup {title, name(k)}
  OBVIOUS
<1> HIDE DEF now
<1> QED
  BY <1>4, <1>9, <1>10, <1>11, <1>12

\* A line goes to the last section ...
Grown(s, t, i) ==
  LET n == Len(s.sections)
  IN  /\ Len(t.sections) = n /\ t.h2 = s.h2
      /\ \A m \in 1 .. n : /\ t.sections[m].path = s.sections[m].path /\ t.sections[m].slug = s.sections[m].slug
                           /\ t.sections[m].lines = IF m = n THEN Append(s.sections[m].lines, i) ELSE s.sections[m].lines

\* ... or a heading begins one.
Begun(s, t, title, level) ==
  /\ t.sections = Append(s.sections, [path |-> IF level <= 2 \/ s.h2 = <<>> THEN <<title>> ELSE <<s.h2, title>>,
                                      slug |-> t.sections[Len(s.sections) + 1].slug, lines |-> <<>>])
  /\ t.sections[Len(s.sections) + 1].slug \in (Slugs \cap DOMAIN t.occurrences) \ DOMAIN s.occurrences
  /\ t.h2 = IF level <= 2 THEN title ELSE s.h2

\* What is known after a line is a record of its five fields, and has a section.
LEMMA StateFacts ==
  ASSUME NEW s \in ReadStates
  PROVE  /\ s = [sections |-> s.sections, fence |-> s.fence, h2 |-> s.h2, titleSeen |-> s.titleSeen,
                 occurrences |-> s.occurrences]
         /\ s.sections \in Seq(SectionsRead) /\ s.sections # <<>> /\ Len(s.sections) \in Nat \ {0}
         /\ DOMAIN s.sections = 1 .. Len(s.sections)
         /\ \A n \in 1 .. Len(s.sections) : s.sections[n] \in SectionsRead
         /\ s.fence \in Nat /\ s.h2 \in Titles \cup {<<>>} /\ s.titleSeen \in BOOLEAN /\ s.occurrences \in Taken
<1>1. /\ s = [sections |-> s.sections, fence |-> s.fence, h2 |-> s.h2, titleSeen |-> s.titleSeen,
              occurrences |-> s.occurrences]
      /\ s.sections \in Seq(SectionsRead) /\ s.sections # <<>>
      /\ s.fence \in Nat /\ s.h2 \in Titles \cup {<<>>} /\ s.titleSeen \in BOOLEAN /\ s.occurrences \in Taken
  BY DEF ReadStates
<1> DEFINE q == s.sections
<1>2. q \in Seq(SectionsRead) /\ q # <<>>
  BY <1>1
<1> HIDE DEF q
<1>3. Len(q) \in Nat \ {0} /\ DOMAIN q = 1 .. Len(q) /\ \A n \in 1 .. Len(q) : q[n] \in SectionsRead
  BY <1>2
<1> QED
  BY <1>1, <1>3 DEF q

\* A line that is put goes to the end of the last section, and the fence tracker sees it.
LEMMA PutFacts ==
  ASSUME NEW s \in ReadStates, document \in Seq(Markdown!Lines), NEW i \in 1 .. Len(document)
  PROVE  LET t == Markdown!Put(s, i)
         IN  /\ t \in ReadStates /\ Grown(s, t, i)
             /\ t.titleSeen = s.titleSeen /\ t.occurrences = s.occurrences
             /\ t.fence = Markdown!Consume(s.fence, document[i])
<1> DEFINE q == s.sections
           n == Len(q)
           x == [q[n] EXCEPT !.lines = Append(q[n].lines, i)]
           r == [q EXCEPT ![n] = x]
           fence == Markdown!Consume(s.fence, document[i])
           t == Markdown!Put(s, i)
<1>1. /\ s = [sections |-> q, fence |-> s.fence, h2 |-> s.h2, titleSeen |-> s.titleSeen, occurrences |-> s.occurrences]
      /\ q \in Seq(SectionsRead) /\ n \in Nat \ {0} /\ DOMAIN q = 1 .. n /\ \A m \in 1 .. n : q[m] \in SectionsRead
      /\ s.fence \in Nat /\ s.h2 \in Titles \cup {<<>>} /\ s.titleSeen \in BOOLEAN /\ s.occurrences \in Taken
  BY StateFacts
<1>2. fence \in Nat
  <2>1. document[i] \in Markdown!Lines
    BY DocumentFacts
  <2> QED
    BY <1>1, <2>1, LineFacts DEF Markdown!Consume
<1>3. t = [s EXCEPT !.sections = r, !.fence = fence]
  BY DEF Markdown!Put
<1>4. i \in Nat
  BY DocumentFacts
<1> HIDE DEF q, n, fence, t
<1>5. x = [path |-> q[n].path, slug |-> q[n].slug, lines |-> Append(q[n].lines, i)] /\ x \in SectionsRead
  <2> DEFINE old == q[n]
  <2>1. old \in SectionsRead
    BY <1>1
  <2> HIDE DEF old
  <2>2. /\ old = [path |-> old.path, slug |-> old.slug, lines |-> old.lines]
        /\ old.path \in Seq(Titles) /\ old.slug \in Seq(Words \cup Nat) /\ old.lines \in Seq(Nat)
    BY <2>1 DEF SectionsRead
  <2>3. Append(old.lines, i) \in Seq(Nat)
    BY <1>4, <2>2
  <2> DEFINE z == [old EXCEPT !.lines = Append(old.lines, i)]
  <2>4. z = [path |-> old.path, slug |-> old.slug, lines |-> Append(old.lines, i)]
    <3>1. old = [path |-> old.path, slug |-> old.slug, lines |-> old.lines]
      BY <2>2
    <3> DEFINE p == old.path
               g == old.slug
               l == old.lines
               v == Append(old.lines, i)
    <3>2. old = [path |-> p, slug |-> g, lines |-> l]
      BY <3>1
    <3> HIDE DEF p, g, l, v
    <3>3. z = [[path |-> p, slug |-> g, lines |-> l] EXCEPT !.lines = v]
      BY <3>2 DEF v
    <3>4. z = [path |-> p, slug |-> g, lines |-> v]
      BY <3>3
    <3> QED
      BY <3>4 DEF p, g, v
  <2>5. z \in SectionsRead
    BY <2>2, <2>3, <2>4 DEF SectionsRead
  <2>6. x = z
    BY DEF old
  <2> HIDE DEF z
  <2> QED
    BY <2>4, <2>5, <2>6 DEF old
<1>6. /\ DOMAIN r = 1 .. n /\ (\A m \in 1 .. n : m # n => r[m] = q[m]) /\ r[n] = x
  <2> HIDE DEF x
  <2> QED
    BY <1>1
<1> HIDE DEF r, x
<1>7. r \in Seq(SectionsRead) /\ Len(r) = n /\ r # <<>>
  <2>1. \A m \in 1 .. n : r[m] \in SectionsRead
    BY <1>1, <1>5, <1>6
  <2>2. r \in [1 .. n -> SectionsRead]
    <3>1. r = [m \in 1 .. n |-> r[m]]
      BY <1>6 DEF r
    <3> QED
      BY <2>1, <3>1
  <2>3. r \in Seq(SectionsRead) /\ Len(r) = n
    BY <1>1, <2>2
  <2> QED
    BY <1>1, <2>3
<1>8. t = [sections |-> r, fence |-> fence, h2 |-> s.h2, titleSeen |-> s.titleSeen, occurrences |-> s.occurrences]
  BY <1>1, <1>3
<1>9. t \in ReadStates
  BY <1>1, <1>2, <1>7, <1>8 DEF ReadStates
<1>10. t.sections = r /\ t.fence = fence /\ t.h2 = s.h2 /\ t.titleSeen = s.titleSeen /\ t.occurrences = s.occurrences
  BY <1>8
<1>11. \A m \in 1 .. n : /\ r[m].path = q[m].path /\ r[m].slug = q[m].slug
                         /\ r[m].lines = IF m = n THEN Append(q[m].lines, i) ELSE q[m].lines
  <2>1. x.path = q[n].path /\ x.slug = q[n].slug /\ x.lines = Append(q[n].lines, i)
    BY <1>5
  <2> QED
    BY <1>6, <2>1
<1>12. Grown(s, t, i)
  BY <1>7, <1>10, <1>11 DEF Grown, q, n
<1> QED
  BY <1>9, <1>10, <1>12 DEF t, fence

\* A cut adds an empty section and leaves all else.
LEMMA CutsFacts ==
  ASSUME NEW s \in ReadStates, NEW title \in Titles, NEW slug \in Slugs, NEW path \in Seq(Titles)
  PROVE  LET t == Markdown!Cut(s, path, slug)
         IN  /\ t \in ReadStates
             /\ t = [sections |-> Append(s.sections, [path |-> path, slug |-> slug, lines |-> <<>>]), fence |-> s.fence,
                     h2 |-> s.h2, titleSeen |-> s.titleSeen, occurrences |-> s.occurrences]
<1> DEFINE new == [path |-> path, slug |-> slug, lines |-> <<>>]
           r == Append(s.sections, new)
<1>1. new \in SectionsRead
  BY DEF SectionsRead, Slugs
<1>2. /\ s = [sections |-> s.sections, fence |-> s.fence, h2 |-> s.h2, titleSeen |-> s.titleSeen, occurrences |-> s.occurrences]
      /\ s.sections \in Seq(SectionsRead) /\ Len(s.sections) \in Nat \ {0}
      /\ s.fence \in Nat /\ s.h2 \in Titles \cup {<<>>} /\ s.titleSeen \in BOOLEAN /\ s.occurrences \in Taken
  BY StateFacts
<1>3. r \in Seq(SectionsRead) /\ r # <<>>
  <2> HIDE DEF new
  <2>1. r \in Seq(SectionsRead) /\ Len(r) = Len(s.sections) + 1
    BY <1>1, <1>2
  <2> QED
    BY <1>2, <2>1
<1>4. Markdown!Cut(s, path, slug) = [s EXCEPT !.sections = r]
  BY DEF Markdown!Cut
<1> HIDE DEF r
<1>5. Markdown!Cut(s, path, slug) = [sections |-> r, fence |-> s.fence, h2 |-> s.h2, titleSeen |-> s.titleSeen,
                                     occurrences |-> s.occurrences]
  BY <1>2, <1>4
<1>6. Markdown!Cut(s, path, slug) \in ReadStates
  BY <1>2, <1>3, <1>5 DEF ReadStates
<1> QED
  BY <1>5, <1>6 DEF r

\* A heading outside a fence is the title, or a cut, or a line like any other.
Titled(s, l) == l.kind = "heading" /\ s.fence = 0 /\ l.level = 1 /\ ~s.titleSeen /\ Len(s.sections) = 1
Cutting(s, l, entries) ==
  l.kind = "heading" /\ s.fence = 0 /\ ~Titled(s, l) /\ l.level <= IF entries THEN 2 ELSE 3

ReadOn(s, t, i, entries) ==
  LET l == document[i]
  IN  /\ t.fence = Markdown!Consume(s.fence, l)
      /\ t.titleSeen = (s.titleSeen \/ Titled(s, l))
      /\ DOMAIN s.occurrences \subseteq DOMAIN t.occurrences
      /\ Titled(s, l) => t.sections = s.sections /\ t.h2 = s.h2
      /\ Cutting(s, l, entries) => Begun(s, t, l.title, l.level)
      /\ ~Titled(s, l) /\ ~Cutting(s, l, entries) => Grown(s, t, i)

\* Every line is the title, a cut, or put; nothing else is done with it.
LEMMA ReadFacts ==
  ASSUME document \in Seq(Markdown!Lines), NEW s \in ReadStates, NEW i \in 1 .. Len(document), NEW entries \in BOOLEAN
  PROVE  Markdown!Read(s, i, entries) \in ReadStates /\ ReadOn(s, Markdown!Read(s, i, entries), i, entries)
<1> DEFINE l == document[i]
           t == Markdown!Read(s, i, entries)
           g == Markdown!Slug(s.occurrences, l.title)
           slugged == [s EXCEPT !.occurrences = g.occurrences]
           path == IF l.level <= 2 \/ s.h2 = <<>> THEN <<l.title>> ELSE <<s.h2, l.title>>
           cut == Markdown!Cut(slugged, path, g.slug)
<1>1. /\ s = [sections |-> s.sections, fence |-> s.fence, h2 |-> s.h2, titleSeen |-> s.titleSeen, occurrences |-> s.occurrences]
      /\ s.sections \in Seq(SectionsRead) /\ s.sections # <<>> /\ Len(s.sections) \in Nat \ {0}
      /\ s.fence \in Nat /\ s.h2 \in Titles \cup {<<>>} /\ s.titleSeen \in BOOLEAN /\ s.occurrences \in Taken
  BY StateFacts
<1>2. /\ l.kind \in {"heading", "fence", "text"}
      /\ l.kind = "heading" => l.level \in 1 .. 4 /\ l.title \in Titles
  BY DocumentFacts, LineFacts
<1>3. CASE ~(l.kind = "heading" /\ s.fence = 0)
  <2>1. t = Markdown!Put(s, i)
    BY <1>3 DEF Markdown!Read
  <2>2. ~Titled(s, l) /\ ~Cutting(s, l, entries)
    BY <1>3 DEF Titled, Cutting
  <2>3. t \in ReadStates /\ Grown(s, t, i) /\ t.titleSeen = s.titleSeen /\ t.occurrences = s.occurrences
        /\ t.fence = Markdown!Consume(s.fence, l)
    BY <2>1, PutFacts
  <2> HIDE DEF t
  <2> QED
    BY <1>1, <2>2, <2>3 DEF ReadOn, t
<1>4. CASE l.kind = "heading" /\ s.fence = 0
  <2>1. l.level \in 1 .. 4 /\ l.title \in Titles
    BY <1>2, <1>4
  <2>2. Markdown!Consume(s.fence, l) = s.fence
    BY <1>4 DEF Markdown!Consume
  <2>3. /\ g.slug \in Slugs /\ g.slug \notin DOMAIN s.occurrences
        /\ g.occurrences \in Taken /\ DOMAIN s.occurrences \subseteq DOMAIN g.occurrences
        /\ g.slug \in DOMAIN g.occurrences
    BY <1>1, <2>1, SlugFacts
  <2>4. t = IF Titled(s, l) THEN [slugged EXCEPT !.titleSeen = TRUE]
            ELSE IF l.level <= 2 THEN [Markdown!Cut(slugged, <<l.title>>, g.slug) EXCEPT !.h2 = l.title]
            ELSE IF l.level = 3 /\ ~entries
              THEN Markdown!Cut(slugged, IF slugged.h2 = <<>> THEN <<l.title>> ELSE <<slugged.h2, l.title>>, g.slug)
            ELSE Markdown!Put(slugged, i)
    <3>1. slugged.titleSeen = s.titleSeen /\ slugged.sections = s.sections
      BY <1>1
    <3> HIDE DEF slugged
    <3>2. t = Markdown!Heading(s, i, entries)
      BY <1>4 DEF Markdown!Read
    <3> HIDE DEF t
    <3> QED
      BY <1>4, <3>2 DEF Markdown!Heading, Markdown!Null, Titled, slugged
  <2> HIDE DEF t
  <2> DEFINE o == g.occurrences
  <2>5. slugged = [sections |-> s.sections, fence |-> s.fence, h2 |-> s.h2, titleSeen |-> s.titleSeen, occurrences |-> o]
    BY <1>1
  <2> HIDE DEF g, slugged
  <2>6. slugged \in ReadStates
    BY <1>1, <2>3, <2>5 DEF ReadStates
  <2>7. path \in Seq(Titles)
    BY <1>1, <2>1
  <2>8. /\ cut \in ReadStates
        /\ cut = [sections |-> Append(s.sections, [path |-> path, slug |-> g.slug, lines |-> <<>>]), fence |-> s.fence,
                  h2 |-> s.h2, titleSeen |-> s.titleSeen, occurrences |-> o]
    <3> DEFINE sg == g.slug
    <3>1. sg \in Slugs
      BY <2>3
    <3> HIDE DEF path, sg
    <3>2. LET c == Markdown!Cut(slugged, path, sg)
          IN  /\ c \in ReadStates
              /\ c = [sections |-> Append(slugged.sections, [path |-> path, slug |-> sg, lines |-> <<>>]), fence |-> slugged.fence,
                     h2 |-> slugged.h2, titleSeen |-> slugged.titleSeen, occurrences |-> slugged.occurrences]
      BY <2>1, <2>6, <2>7, <3>1, CutsFacts
    <3> QED
      BY <2>5, <3>2 DEF sg
  <2> HIDE DEF cut
  <2>9. CASE Titled(s, l)
    <3>1. t = [slugged EXCEPT !.titleSeen = TRUE]
      BY <2>4, <2>9
    <3>2. t = [sections |-> s.sections, fence |-> s.fence, h2 |-> s.h2, titleSeen |-> TRUE, occurrences |-> o]
      BY <2>5, <3>1
    <3>3. t \in ReadStates
      BY <1>1, <2>3, <3>2 DEF ReadStates
    <3>4. /\ t.sections = s.sections /\ t.fence = s.fence /\ t.h2 = s.h2 /\ t.titleSeen = TRUE /\ t.occurrences = o
      BY <3>2
    <3>5. ~Cutting(s, l, entries)
      BY <2>9 DEF Cutting
    <3> QED
      BY <2>2, <2>3, <2>9, <3>3, <3>4, <3>5 DEF ReadOn, t
  <2>10. CASE ~Titled(s, l) /\ l.level <= 2
    <3> DEFINE title == l.title
               r == Append(s.sections, [path |-> path, slug |-> g.slug, lines |-> <<>>])
    <3>1. t = [Markdown!Cut(slugged, <<title>>, g.slug) EXCEPT !.h2 = title] /\ path = <<title>>
      BY <2>4, <2>10
    <3>2. t = [cut EXCEPT !.h2 = title]
      BY <3>1 DEF cut
    <3>3. title \in Titles
      BY <2>1
    <3> HIDE DEF r, title
    <3>4. t = [sections |-> r, fence |-> s.fence, h2 |-> title, titleSeen |-> s.titleSeen, occurrences |-> o]
      BY <2>8, <3>2 DEF r
    <3>5. cut.sections = r
      BY <2>8 DEF r
    <3>6. r \in Seq(SectionsRead) \ {<<>>}
      BY <2>8, <3>5 DEF ReadStates
    <3>7. t \in ReadStates
      BY <1>1, <2>3, <3>3, <3>4, <3>6 DEF ReadStates
    <3>8. t.sections = r /\ t.fence = s.fence /\ t.h2 = title /\ t.titleSeen = s.titleSeen /\ t.occurrences = o
      BY <3>4
    <3>9. Cutting(s, l, entries)
      BY <1>4, <2>1, <2>10 DEF Cutting
    <3>10. Begun(s, t, title, l.level)
      <4>1. r[Len(s.sections) + 1].slug = g.slug
        <5> DEFINE new == [path |-> path, slug |-> g.slug, lines |-> <<>>]
        <5>1. new.slug = g.slug
          OBVIOUS
        <5> HIDE DEF new
        <5>2. r = Append(s.sections, new)
          BY DEF r, new
        <5>3. r[Len(s.sections) + 1] = new
          BY <1>1, <5>2
        <5> QED
          BY <5>1, <5>3
      <4>2. t.sections = Append(s.sections, [path |-> path, slug |-> t.sections[Len(s.sections) + 1].slug, lines |-> <<>>])
        BY <3>8, <4>1 DEF r
      <4>3. t.sections[Len(s.sections) + 1].slug \in (Slugs \cap DOMAIN t.occurrences) \ DOMAIN s.occurrences
        BY <2>3, <3>8, <4>1
      <4>4. path = IF l.level <= 2 \/ s.h2 = <<>> THEN <<title>> ELSE <<s.h2, title>>
        BY DEF title
      <4>5. t.h2 = IF l.level <= 2 THEN title ELSE s.h2
        BY <2>10, <3>8
      <4> HIDE DEF path
      <4> QED
        BY <4>2, <4>3, <4>4, <4>5 DEF Begun
    <3>11. Begun(s, t, l.title, l.level)
      BY <3>10 DEF title
    <3> QED
      BY <1>1, <2>2, <2>3, <2>10, <3>7, <3>8, <3>9, <3>11 DEF ReadOn, t
  <2>11. CASE ~Titled(s, l) /\ l.level = 3 /\ ~entries
    <3> DEFINE title == l.title
               r == Append(s.sections, [path |-> path, slug |-> g.slug, lines |-> <<>>])
    <3>1. t = Markdown!Cut(slugged, IF s.h2 = <<>> THEN <<title>> ELSE <<s.h2, title>>, g.slug)
          /\ path = IF s.h2 = <<>> THEN <<title>> ELSE <<s.h2, title>>
      <4>1. slugged.h2 = s.h2
        BY <2>5
      <4>2. ~(l.level <= 2)
        BY <2>11
      <4>3. t = Markdown!Cut(slugged, IF slugged.h2 = <<>> THEN <<title>> ELSE <<slugged.h2, title>>, g.slug)
        BY <2>4, <2>11, <4>2
      <4> QED
        BY <4>1, <4>2, <4>3
    <3>2. t = cut
      BY <3>1 DEF cut
    <3> HIDE DEF r, title
    <3>4. t = [sections |-> r, fence |-> s.fence, h2 |-> s.h2, titleSeen |-> s.titleSeen, occurrences |-> o]
      BY <2>8, <3>2 DEF r
    <3>7. t \in ReadStates
      BY <2>8, <3>2
    <3>8. t.sections = r /\ t.fence = s.fence /\ t.h2 = s.h2 /\ t.titleSeen = s.titleSeen /\ t.occurrences = o
      BY <3>4
    <3>9. Cutting(s, l, entries)
      BY <1>4, <2>1, <2>11 DEF Cutting
    <3>10. Begun(s, t, title, l.level)
      <4>1. r[Len(s.sections) + 1].slug = g.slug
        <5> DEFINE new == [path |-> path, slug |-> g.slug, lines |-> <<>>]
        <5>1. new.slug = g.slug
          OBVIOUS
        <5> HIDE DEF new
        <5>2. r = Append(s.sections, new)
          BY DEF r, new
        <5>3. r[Len(s.sections) + 1] = new
          BY <1>1, <5>2
        <5> QED
          BY <5>1, <5>3
      <4>2. t.sections = Append(s.sections, [path |-> path, slug |-> t.sections[Len(s.sections) + 1].slug, lines |-> <<>>])
        BY <3>8, <4>1 DEF r
      <4>3. t.sections[Len(s.sections) + 1].slug \in (Slugs \cap DOMAIN t.occurrences) \ DOMAIN s.occurrences
        BY <2>3, <3>8, <4>1
      <4>4. path = IF l.level <= 2 \/ s.h2 = <<>> THEN <<title>> ELSE <<s.h2, title>>
        BY DEF title
      <4>5. t.h2 = IF l.level <= 2 THEN title ELSE s.h2
        BY <2>11, <3>8
      <4> HIDE DEF path
      <4> QED
        BY <4>2, <4>3, <4>4, <4>5 DEF Begun
    <3>11. Begun(s, t, l.title, l.level)
      BY <3>10 DEF title
    <3> QED
      BY <1>1, <2>2, <2>3, <2>11, <3>7, <3>8, <3>9, <3>11 DEF ReadOn, t
  <2>12. CASE ~Titled(s, l) /\ ~(l.level <= 2) /\ ~(l.level = 3 /\ ~entries)
    <3>1. t = Markdown!Put(slugged, i)
      BY <2>4, <2>12
    <3>2. t \in ReadStates /\ Grown(slugged, t, i) /\ t.titleSeen = slugged.titleSeen /\ t.occurrences = slugged.occurrences
          /\ t.fence = Markdown!Consume(slugged.fence, l)
      BY <2>6, <3>1, PutFacts
    <3>3. slugged.sections = s.sections /\ slugged.h2 = s.h2 /\ slugged.titleSeen = s.titleSeen /\ slugged.fence = s.fence
          /\ slugged.occurrences = o
      BY <2>5
    <3>4. Grown(s, t, i)
      BY <3>2, <3>3 DEF Grown
    <3>5. ~Cutting(s, l, entries)
      BY <2>1, <2>12 DEF Cutting
    <3> QED
      BY <1>1, <2>2, <2>3, <2>12, <3>2, <3>3, <3>4, <3>5 DEF ReadOn, t
  <2> QED
    BY <2>9, <2>10, <2>11, <2>12
<1> QED
  BY <1>3, <1>4

\* So it is through the whole document.
LEMMA ReadingFacts ==
  ASSUME document \in Seq(Markdown!Lines), NEW entries \in BOOLEAN
  PROVE  LET state == Markdown!Reading(entries)
         IN  /\ state[0] = Markdown!NoSections
             /\ \A i \in 0 .. Len(document) : state[i] \in ReadStates
             /\ \A i \in 1 .. Len(document) : ReadOn(state[i - 1], state[i], i, entries)
<1> DEFINE n == Len(document)
           step == [p \in (1 .. n) \X ReadStates |-> Markdown!Read(p[2], p[1], entries)]
           Is(f) == f = [j \in 0 .. n |-> IF j = 0 THEN Markdown!NoSections ELSE Markdown!Read(f[j - 1], j, entries)]
           state == Markdown!Reading(entries)
<1>1. n \in Nat
  BY DocumentFacts
<1>2. \A j \in 1 .. n, s \in ReadStates : Markdown!Read(s, j, entries) \in ReadStates /\ ReadOn(s, Markdown!Read(s, j, entries), j, entries)
  BY ReadFacts
<1> HIDE DEF n
<1>3. step \in [(1 .. n) \X ReadStates -> ReadStates]
  BY <1>2
<1>4. \A j \in 1 .. n, s \in ReadStates : step[<<j, s>>] = Markdown!Read(s, j, entries)
  OBVIOUS
<1> HIDE DEF step
<1>5. Markdown!NoSections \in ReadStates
  <2>1. <<>> \in Taken
    <3> DEFINE o == <<>>
    <3>1. DOMAIN o = {} /\ o \in [{} -> Nat]
      OBVIOUS
    <3>2. IsFiniteSet({})
      BY FS_EmptySet
    <3> QED
      BY <3>1, <3>2 DEF Taken
  <2>2. <<>> \in Seq(Titles) /\ <<>> \in Seq(Words \cup Nat) /\ <<>> \in Seq(Nat)
    OBVIOUS
  <2> DEFINE first == [path |-> <<>>, slug |-> <<>>, lines |-> <<>>]
  <2>3. first \in SectionsRead
    BY <2>2 DEF SectionsRead
  <2> HIDE DEF first
  <2>4. <<first>> \in Seq(SectionsRead) /\ <<first>> # <<>>
    BY <2>3
  <2> QED
    BY <2>1, <2>4 DEF ReadStates, Markdown!NoSections, Markdown!Null, first
<1>6. PICK f \in [0 .. n -> ReadStates] : f[0] = Markdown!NoSections /\ \A i \in 1 .. n : f[i] = step[<<i, f[i - 1]>>]
  <2>1. Stepped(n, ReadStates, Markdown!NoSections, step)
    BY <1>1, <1>3, <1>5, Recursion
  <2> QED
    BY <2>1 DEF Stepped
<1>7. \A j \in 1 .. n : f[j] = Markdown!Read(f[j - 1], j, entries)
  <2> SUFFICES ASSUME NEW j \in 1 .. n PROVE f[j] = Markdown!Read(f[j - 1], j, entries)
    OBVIOUS
  <2>1. j - 1 \in 0 .. n
    BY <1>1
  <2> QED
    BY <1>4, <1>6, <2>1
<1>8. Is(f)
  <2>1. \A j \in 0 .. n : f[j] = IF j = 0 THEN Markdown!NoSections ELSE Markdown!Read(f[j - 1], j, entries)
    BY <1>1, <1>6, <1>7
  <2> QED
    BY <2>1
<1>9. state = CHOOSE g : Is(g)
  BY DEF Markdown!Reading, n
<1>10. Is(state)
  <2> HIDE DEF Is, state
  <2> QED
    BY <1>8, <1>9
<1> HIDE DEF state
<1>11. state[0] = Markdown!NoSections /\ \A j \in 1 .. n : state[j] = Markdown!Read(state[j - 1], j, entries)
  BY <1>1, <1>10
<1>12. \A i \in Nat : i <= n => state[i] \in ReadStates
  <2> DEFINE S == {i \in Nat : i <= n => state[i] \in ReadStates}
  <2>1. S \in SUBSET Nat /\ 0 \in S
    BY <1>5, <1>11
  <2>2. ASSUME NEW m \in S PROVE m + 1 \in S
    <3> SUFFICES ASSUME m + 1 <= n PROVE state[m + 1] \in ReadStates
      OBVIOUS
    <3>1. m \in Nat /\ m <= n /\ m + 1 \in 1 .. n /\ (m + 1) - 1 = m
      BY <1>1
    <3>2. state[m] \in ReadStates
      BY <3>1
    <3>3. state[m + 1] = Markdown!Read(state[m], m + 1, entries)
      BY <1>11, <3>1
    <3> QED
      BY <1>2, <3>1, <3>2, <3>3
  <2> HIDE DEF S
  <2>3. S = Nat
    BY <2>1, <2>2, NatSetInduction
  <2> QED
    BY <2>3 DEF S
<1>13. ASSUME NEW i \in 1 .. n PROVE ReadOn(state[i - 1], state[i], i, entries)
  <2>1. i - 1 \in Nat /\ i - 1 <= n
    BY <1>1
  <2> QED
    BY <1>2, <1>11, <1>12, <2>1
<1>14. \A i \in 0 .. n : state[i] \in ReadStates
  BY <1>1, <1>12
<1> QED
  BY <1>11, <1>13, <1>14 DEF n, state

\* The cuts among the first lines, the title aside, and those that are not below one of them.
Marked(entries, i) == {j \in 1 .. i : Markdown!Cuts(j, entries) /\ ~Markdown!IsTitle(j, entries)}
Tops(entries, i) == {j \in Marked(entries, i) : document[j].level <= 2}
Last(S) == CHOOSE j \in S : \A k \in S : k <= j

\* What is known after i lines says which of them are cuts ...
MarksTo(s, i, entries) ==
  /\ s.fence = Opened[i]
  /\ s.titleSeen <=> \E j \in 1 .. i : Markdown!IsTitle(j, entries)
  /\ Len(s.sections) = 1 <=> Marked(entries, i) = {}
  /\ s.h2 = IF Tops(entries, i) = {} THEN <<>> ELSE document[Last(Tops(entries, i))].title

\* ... every other line is in a section, in order ...
LinesTo(q, i, entries) ==
  /\ \A j \in 1 .. i : Markdown!Cuts(j, entries) <=> \A m \in 1 .. Len(q) : j \notin Markdown!ToSet(q[m].lines)
  /\ \A m \in 1 .. Len(q) : Markdown!ToSet(q[m].lines) \subseteq 1 .. i
  /\ \A m, n \in 1 .. Len(q) : \A a \in DOMAIN q[m].lines, b \in DOMAIN q[n].lines :
       m < n \/ (m = n /\ a < b) => q[m].lines[a] < q[n].lines[b]

\* ... under the headings above it ...
PathsTo(q, i, entries) ==
  /\ q[Len(q)].path = Markdown!Above(i, entries)
  /\ \A m \in 1 .. Len(q) : \A j \in Markdown!ToSet(q[m].lines) : q[m].path = Markdown!Above(j, entries)

\* ... and no two sections have one slug.
SlugsTo(q, o) ==
  /\ \A m \in 1 .. Len(q) : q[m].slug \in DOMAIN o \cup {<<>>}
  /\ \A m, n \in 1 .. Len(q) : m # n => q[m].slug # q[n].slug

\* The last of some numbers is the one no other exceeds.
LEMMA LastIs ==
  ASSUME NEW S \in SUBSET Nat, NEW m \in S, \A k \in S : k <= m
  PROVE  Last(S) = m
<1>1. Last(S) \in S /\ \A k \in S : k <= Last(S)
  <2>1. \E j \in S : \A k \in S : k <= j
    OBVIOUS
  <2> QED
    BY <2>1 DEF Last
<1>2. Last(S) \in Nat /\ m \in Nat /\ Last(S) <= m /\ m <= Last(S)
  BY <1>1
<1> QED
  BY <1>2

\* Above in terms of the cuts so far and of those of level 1 and 2.
LEMMA AboveIs ==
  ASSUME NEW i \in Nat, NEW entries \in BOOLEAN
  PROVE  Markdown!Above(i, entries) =
           IF Marked(entries, i) = {} THEN <<>>
           ELSE IF document[Last(Marked(entries, i))].level = 3 /\ Tops(entries, i) # {}
             THEN <<document[Last(Tops(entries, i))].title, document[Last(Marked(entries, i))].title>>
           ELSE <<document[Last(Marked(entries, i))].title>>
<1> DEFINE cuts == {j \in 1 .. i : Markdown!Cuts(j, entries) /\ ~Markdown!IsTitle(j, entries)}
           tops == {j \in cuts : document[j].level <= 2}
           last(S) == CHOOSE j \in S : \A k \in S : k <= j
<1>1. Markdown!Above(i, entries) =
        IF cuts = {} THEN <<>>
        ELSE IF document[last(cuts)].level = 3 /\ tops # {} THEN <<document[last(tops)].title, document[last(cuts)].title>>
        ELSE <<document[last(cuts)].title>>
  BY DEF Markdown!Above
<1>2. cuts = Marked(entries, i) /\ tops = Tops(entries, i)
  BY DEF Marked, Tops
<1>3. \A S : last(S) = Last(S)
  BY DEF Last
<1> HIDE DEF cuts, tops, last
<1> QED
  BY <1>1, <1>2, <1>3

\* The guard of the code tells the title, and a cut.
LEMMA HeadingIs ==
  ASSUME document \in Seq(Markdown!Lines), NEW entries \in BOOLEAN, NEW i \in 1 .. Len(document),
         NEW s \in ReadStates, MarksTo(s, i - 1, entries)
  PROVE  /\ Titled(s, document[i]) <=> Markdown!IsTitle(i, entries)
         /\ Cutting(s, document[i], entries) <=> Markdown!Cuts(i, entries) /\ ~Markdown!IsTitle(i, entries)
         /\ Markdown!IsTitle(i, entries) => Markdown!Cuts(i, entries)
         /\ Markdown!Cuts(i, entries) => document[i].level \in 1 .. 3 /\ document[i].title \in Titles
<1>1. Len(document) \in Nat /\ i \in Nat \ {0} /\ document[i] \in Markdown!Lines
  BY DocumentFacts
<1>2. s.titleSeen \in BOOLEAN
  BY StateFacts
<1>3. Markdown!IsHeading(i) <=> document[i].kind = "heading" /\ s.fence = 0
  <2>1. Markdown!Inside(i) <=> Opened[i - 1] # 0
    BY OpenedFacts
  <2> QED
    BY <2>1 DEF Markdown!IsHeading, MarksTo
<1>4. Markdown!IsHeading(i) => document[i].level \in 1 .. 4 /\ document[i].title \in Titles
  BY <1>1, LineFacts DEF Markdown!IsHeading
<1>5. Markdown!IsTitle(i, entries) <=>
        Markdown!IsHeading(i) /\ document[i].level = 1 /\ \A j \in 1 .. i - 1 : ~Markdown!Cuts(j, entries)
  BY DEF Markdown!IsTitle, Markdown!Cuts
<1>6. Markdown!Cuts(i, entries) <=> Markdown!IsHeading(i) /\ document[i].level <= IF entries THEN 2 ELSE 3
  BY DEF Markdown!Cuts
<1>7. Markdown!IsTitle(i, entries) => Markdown!Cuts(i, entries)
  BY <1>4, <1>5, <1>6
<1>8. (\A j \in 1 .. i - 1 : ~Markdown!Cuts(j, entries)) <=> ~s.titleSeen /\ Len(s.sections) = 1
  <2>1. \A j : Markdown!IsTitle(j, entries) => Markdown!Cuts(j, entries)
    BY DEF Markdown!IsTitle, Markdown!Cuts
  <2>2. s.titleSeen <=> \E j \in 1 .. i - 1 : Markdown!IsTitle(j, entries)
    BY DEF MarksTo
  <2>3. Len(s.sections) = 1 <=> \A j \in 1 .. i - 1 : ~(Markdown!Cuts(j, entries) /\ ~Markdown!IsTitle(j, entries))
    BY DEF MarksTo, Marked
  <2> QED
    BY <2>1, <2>2, <2>3
<1>9. Titled(s, document[i]) <=> Markdown!IsTitle(i, entries)
  BY <1>3, <1>5, <1>8 DEF Titled
<1>10. Cutting(s, document[i], entries) <=> Markdown!Cuts(i, entries) /\ ~Markdown!IsTitle(i, entries)
  BY <1>3, <1>6, <1>9 DEF Cutting
<1>11. Markdown!Cuts(i, entries) => document[i].level \in 1 .. 3 /\ document[i].title \in Titles
  BY <1>4, <1>6
<1> QED
  BY <1>7, <1>9, <1>10, <1>11

\* What a line does to the cuts.
LEMMA MarkedGrows ==
  ASSUME NEW entries \in BOOLEAN, NEW i \in Nat \ {0}
  PROVE  LET cut == Markdown!Cuts(i, entries) /\ ~Markdown!IsTitle(i, entries)
         IN  /\ Marked(entries, i - 1) \subseteq 1 .. i - 1 /\ Tops(entries, i - 1) \subseteq 1 .. i - 1
             /\ cut => Marked(entries, i) = Marked(entries, i - 1) \cup {i} /\ Last(Marked(entries, i)) = i
             /\ cut /\ document[i].level <= 2 => Tops(entries, i) = Tops(entries, i - 1) \cup {i} /\ Last(Tops(entries, i)) = i
             /\ cut /\ ~(document[i].level <= 2) => Tops(entries, i) = Tops(entries, i - 1)
             /\ ~cut => Marked(entries, i) = Marked(entries, i - 1) /\ Tops(entries, i) = Tops(entries, i - 1)
<1> DEFINE cut(j) == Markdown!Cuts(j, entries) /\ ~Markdown!IsTitle(j, entries)
           M == Marked(entries, i - 1)
           T == Tops(entries, i - 1)
           M1 == Marked(entries, i)
           T1 == Tops(entries, i)
<1>1. M = {j \in 1 .. i - 1 : cut(j)} /\ M1 = {j \in 1 .. i : cut(j)}
  BY DEF Marked
<1>2. T = {j \in M : document[j].level <= 2} /\ T1 = {j \in M1 : document[j].level <= 2}
  BY DEF Tops
<1>3. 1 .. i = (1 .. i - 1) \cup {i}
  OBVIOUS
<1> HIDE DEF cut, M, T, M1, T1
<1>4. M \subseteq 1 .. i - 1 /\ T \subseteq 1 .. i - 1
  BY <1>1, <1>2
<1>5. cut(i) => M1 = M \cup {i}
  BY <1>1, <1>3
<1>6. ~cut(i) => M1 = M
  BY <1>1, <1>3
<1>7. cut(i) /\ document[i].level <= 2 => T1 = T \cup {i}
  BY <1>2, <1>5
<1>8. cut(i) /\ ~(document[i].level <= 2) => T1 = T
  BY <1>2, <1>5
<1>9. cut(i) => Last(M1) = i
  <2> SUFFICES ASSUME cut(i) PROVE Last(M1) = i
    OBVIOUS
  <2>0. M1 = M \cup {i}
    BY <1>5
  <2>1. M1 \in SUBSET Nat /\ i \in M1 /\ \A k \in M1 : k <= i
    BY <1>4, <2>0
  <2> QED
    BY <2>1, LastIs
<1>10. cut(i) /\ document[i].level <= 2 => Last(T1) = i
  <2> SUFFICES ASSUME cut(i), document[i].level <= 2 PROVE Last(T1) = i
    OBVIOUS
  <2>0. T1 = T \cup {i}
    BY <1>7
  <2>1. T1 \in SUBSET Nat /\ i \in T1 /\ \A k \in T1 : k <= i
    BY <1>4, <2>0
  <2> QED
    BY <2>1, LastIs
<1>11. ~cut(i) => T1 = T
  BY <1>2, <1>6
<1> QED
  BY <1>4, <1>5, <1>6, <1>7, <1>8, <1>9, <1>10, <1>11 DEF cut, M, T, M1, T1

\* That the fence, the title and the H2 known are the reader's survives each line.
LEMMA MarksStep ==
  ASSUME document \in Seq(Markdown!Lines), NEW entries \in BOOLEAN, NEW i \in 1 .. Len(document),
         NEW s \in ReadStates, NEW t \in ReadStates, MarksTo(s, i - 1, entries), ReadOn(s, t, i, entries)
  PROVE  MarksTo(t, i, entries)
<1> DEFINE l == document[i]
           title == Markdown!IsTitle(i, entries)
           cut == Markdown!Cuts(i, entries) /\ ~Markdown!IsTitle(i, entries)
<1>1. i \in Nat \ {0}
  BY DocumentFacts
<1>2. (Titled(s, l) <=> title) /\ (Cutting(s, l, entries) <=> cut) /\ ~(title /\ cut)
  BY HeadingIs
<1>3. s.titleSeen \in BOOLEAN /\ t.titleSeen \in BOOLEAN /\ s.sections \in Seq(SectionsRead) /\ Len(s.sections) \in Nat \ {0}
  BY StateFacts
<1>4. t.fence = Opened[i]
  BY OpenedFacts DEF MarksTo, ReadOn
<1>5. t.titleSeen <=> \E j \in 1 .. i : Markdown!IsTitle(j, entries)
  <2>1. t.titleSeen <=> s.titleSeen \/ title
    BY <1>2, <1>3 DEF ReadOn
  <2>2. s.titleSeen <=> \E j \in 1 .. i - 1 : Markdown!IsTitle(j, entries)
    BY DEF MarksTo
  <2>3. 1 .. i = (1 .. i - 1) \cup {i}
    BY <1>1
  <2> QED
    BY <2>1, <2>2, <2>3
<1>6. Len(s.sections) = 1 <=> Marked(entries, i - 1) = {}
  BY DEF MarksTo
<1>7. s.h2 = IF Tops(entries, i - 1) = {} THEN <<>> ELSE document[Last(Tops(entries, i - 1))].title
  BY DEF MarksTo
<1>8. CASE cut
  <2>1. Begun(s, t, l.title, l.level)
    BY <1>2, <1>8 DEF ReadOn
  <2>2. Len(t.sections) # 1
    <3> DEFINE new == [path |-> IF l.level <= 2 \/ s.h2 = <<>> THEN <<l.title>> ELSE <<s.h2, l.title>>,
                       slug |-> t.sections[Len(s.sections) + 1].slug, lines |-> <<>>]
    <3>1. t.sections = Append(s.sections, new)
      BY <2>1 DEF Begun
    <3> HIDE DEF new
    <3>2. Len(t.sections) = Len(s.sections) + 1
      BY <1>3, <3>1
    <3> QED
      BY <1>3, <3>2
  <2>3. Marked(entries, i) # {}
    <3>1. Marked(entries, i) = Marked(entries, i - 1) \cup {i}
      BY <1>1, <1>8, MarkedGrows
    <3> QED
      BY <3>1
  <2>4. t.h2 = IF Tops(entries, i) = {} THEN <<>> ELSE document[Last(Tops(entries, i))].title
    <3>1. CASE l.level <= 2
      <4>1. Tops(entries, i) = Tops(entries, i - 1) \cup {i} /\ Last(Tops(entries, i)) = i
        BY <1>1, <1>8, <3>1, MarkedGrows
      <4>2. t.h2 = l.title
        BY <2>1, <3>1 DEF Begun
      <4> QED
        BY <4>1, <4>2
    <3>2. CASE ~(l.level <= 2)
      <4>1. Tops(entries, i) = Tops(entries, i - 1)
        BY <1>1, <1>8, <3>2, MarkedGrows
      <4>2. t.h2 = s.h2
        BY <2>1, <3>2 DEF Begun
      <4> QED
        BY <1>7, <4>1, <4>2
    <3> QED
      BY <3>1, <3>2
  <2> QED
    BY <1>4, <1>5, <2>2, <2>3, <2>4 DEF MarksTo
<1>9. CASE ~cut
  <2>1. Marked(entries, i) = Marked(entries, i - 1) /\ Tops(entries, i) = Tops(entries, i - 1)
    BY <1>1, <1>9, MarkedGrows
  <2>2. Len(t.sections) = Len(s.sections) /\ t.h2 = s.h2
    BY <1>2, <1>9 DEF ReadOn, Grown
  <2> QED
    BY <1>4, <1>5, <1>6, <1>7, <2>1, <2>2 DEF MarksTo
<1> QED
  BY <1>8, <1>9

\* The sections after a line.
LEMMA BegunIs ==
  ASSUME NEW s \in ReadStates, NEW t \in ReadStates, NEW title, NEW level, Begun(s, t, title, level)
  PROVE  /\ Len(t.sections) = Len(s.sections) + 1
         /\ \A m \in 1 .. Len(s.sections) : t.sections[m] = s.sections[m]
         /\ t.sections[Len(s.sections) + 1].lines = <<>>
         /\ t.sections[Len(s.sections) + 1].path = IF level <= 2 \/ s.h2 = <<>> THEN <<title>> ELSE <<s.h2, title>>
         /\ t.sections[Len(s.sections) + 1].slug \in (Slugs \cap DOMAIN t.occurrences) \ DOMAIN s.occurrences
<1> DEFINE q == s.sections
           r == t.sections
           n == Len(q)
<1>1. q \in Seq(SectionsRead) /\ n \in Nat \ {0} /\ DOMAIN q = 1 .. n /\ \A m \in 1 .. n : q[m] \in SectionsRead
  BY StateFacts
<1>2. /\ Len(r) = n + 1
      /\ \A m \in 1 .. n : r[m] = q[m]
      /\ r[n + 1].lines = <<>>
      /\ r[n + 1].path = IF level <= 2 \/ s.h2 = <<>> THEN <<title>> ELSE <<s.h2, title>>
      /\ r[n + 1].slug \in (Slugs \cap DOMAIN t.occurrences) \ DOMAIN s.occurrences
  <2> DEFINE path == IF level <= 2 \/ s.h2 = <<>> THEN <<title>> ELSE <<s.h2, title>>
             new == [path |-> path, slug |-> r[n + 1].slug, lines |-> <<>>]
  <2>1. r = Append(q, new) /\ r[n + 1].slug \in (Slugs \cap DOMAIN t.occurrences) \ DOMAIN s.occurrences
    BY DEF Begun
  <2> HIDE DEF path
  <2>2. new.lines = <<>> /\ new.path = path
    OBVIOUS
  <2> HIDE DEF q, r, n, new
  <2>3. Len(r) = n + 1 /\ (\A m \in 1 .. n : r[m] = q[m]) /\ r[n + 1] = new
    <3>1. r = Append(q, new) /\ n = Len(q)
      BY <2>1 DEF n
    <3> QED
      BY <1>1, <3>1
  <2> QED
    BY <2>1, <2>2, <2>3 DEF path
<1> QED
  BY <1>2

\* A line put is behind those of the last section, and the others are as they were.
LEMMA GrownIs ==
  ASSUME NEW s \in ReadStates, NEW t \in ReadStates, NEW i \in Nat, Grown(s, t, i)
  PROVE  /\ Len(t.sections) = Len(s.sections)
         /\ \A m \in 1 .. Len(s.sections) :
              /\ t.sections[m].path = s.sections[m].path /\ t.sections[m].slug = s.sections[m].slug
              /\ m # Len(s.sections) => t.sections[m].lines = s.sections[m].lines
         /\ LET old == s.sections[Len(s.sections)].lines
                new == t.sections[Len(s.sections)].lines
            IN  /\ old \in Seq(Nat) /\ Len(old) \in Nat /\ Len(new) = Len(old) + 1 /\ new[Len(old) + 1] = i
                /\ DOMAIN old = 1 .. Len(old) /\ DOMAIN new = 1 .. Len(old) + 1
                /\ \A a \in 1 .. Len(old) : new[a] = old[a]
                /\ Markdown!ToSet(new) = Markdown!ToSet(old) \cup {i}
<1> DEFINE q == s.sections
           r == t.sections
           n == Len(q)
<1>1. q \in Seq(SectionsRead) /\ n \in Nat \ {0} /\ DOMAIN q = 1 .. n /\ \A m \in 1 .. n : q[m] \in SectionsRead
  BY StateFacts
<1>3. /\ Len(r) = n
      /\ \A m \in 1 .. n : r[m].path = q[m].path /\ r[m].slug = q[m].slug /\ (m # n => r[m].lines = q[m].lines)
      /\ LET old == q[n].lines
             new == r[n].lines
         IN  /\ old \in Seq(Nat) /\ Len(old) \in Nat /\ Len(new) = Len(old) + 1 /\ new[Len(old) + 1] = i
             /\ DOMAIN old = 1 .. Len(old) /\ DOMAIN new = 1 .. Len(old) + 1
             /\ \A a \in 1 .. Len(old) : new[a] = old[a]
             /\ Markdown!ToSet(new) = Markdown!ToSet(old) \cup {i}
  <2> DEFINE old == q[n].lines
             new == r[n].lines
  <2>1. Len(r) = n /\ \A m \in 1 .. n : r[m].path = q[m].path /\ r[m].slug = q[m].slug /\ (m # n => r[m].lines = q[m].lines)
    BY DEF Grown
  <2>2. new = Append(old, i)
    <3>1. \A m \in 1 .. n : r[m].lines = IF m = n THEN Append(q[m].lines, i) ELSE q[m].lines
      BY DEF Grown
    <3>2. n \in 1 .. n
      BY <1>1
    <3> HIDE DEF q, r, n
    <3> QED
      BY <3>1, <3>2
  <2>3. old \in Seq(Nat)
    <3>1. q[n] \in SectionsRead
      BY <1>1
    <3> QED
      BY <3>1 DEF SectionsRead
  <2> HIDE DEF q, r, n, old, new
  <2>4. /\ Len(old) \in Nat /\ Len(new) = Len(old) + 1 /\ new[Len(old) + 1] = i
        /\ DOMAIN old = 1 .. Len(old) /\ DOMAIN new = 1 .. Len(old) + 1
        /\ \A a \in 1 .. Len(old) : new[a] = old[a]
    BY <2>2, <2>3
  <2>5. Markdown!ToSet(new) = Markdown!ToSet(old) \cup {i}
    <3>1. 1 .. Len(old) + 1 = (1 .. Len(old)) \cup {Len(old) + 1}
      BY <2>4
    <3>2. Markdown!ToSet(new) = {new[a] : a \in 1 .. Len(old) + 1}
      BY <2>4 DEF Markdown!ToSet
    <3>3. Markdown!ToSet(old) = {old[a] : a \in 1 .. Len(old)}
      BY <2>4 DEF Markdown!ToSet
    <3> QED
      BY <2>4, <3>1, <3>2, <3>3
  <2> QED
    BY <2>1, <2>3, <2>4, <2>5 DEF old, new
<1> QED
  BY <1>3

\* That every line read but the cuts is in one section, in order, survives each line.
LEMMA LinesStep ==
  ASSUME document \in Seq(Markdown!Lines), NEW entries \in BOOLEAN, NEW i \in 1 .. Len(document),
         NEW s \in ReadStates, NEW t \in ReadStates, MarksTo(s, i - 1, entries), ReadOn(s, t, i, entries),
         LinesTo(s.sections, i - 1, entries)
  PROVE  LinesTo(t.sections, i, entries)
<1> DEFINE l == document[i]
           q == s.sections
           r == t.sections
           n == Len(q)
           In(p, m) == Markdown!ToSet(p[m].lines)
           cuts(j) == Markdown!Cuts(j, entries)
           After(p) == \A m, k \in 1 .. Len(p) : \A a \in DOMAIN p[m].lines, b \in DOMAIN p[k].lines :
                         m < k \/ (m = k /\ a < b) => p[m].lines[a] < p[k].lines[b]
<1>1. i \in Nat \ {0} /\ 1 .. i = (1 .. i - 1) \cup {i}
  BY DocumentFacts
<1>2. n \in Nat \ {0}
  BY StateFacts
<1>3. /\ Titled(s, l) <=> Markdown!IsTitle(i, entries)
      /\ Cutting(s, l, entries) <=> cuts(i) /\ ~Markdown!IsTitle(i, entries)
      /\ Markdown!IsTitle(i, entries) => cuts(i)
  BY HeadingIs
<1>4. /\ \A j \in 1 .. i - 1 : cuts(j) <=> \A m \in 1 .. n : j \notin In(q, m)
      /\ \A m \in 1 .. n : In(q, m) \subseteq 1 .. i - 1
      /\ After(q)
  BY DEF LinesTo
<1>5. CASE Titled(s, l)
  <2>1. r = q
    BY <1>5 DEF ReadOn
  <2>2. cuts(i)
    BY <1>3, <1>5
  <2>3. \A m \in 1 .. n : In(q, m) \subseteq 1 .. i /\ i \notin In(q, m)
    <3>1. i \notin 1 .. i - 1
      BY <1>1
    <3> HIDE DEF In, n
    <3> QED
      BY <1>1, <1>4, <3>1
  <2>4. \A j \in 1 .. i : cuts(j) <=> \A m \in 1 .. n : j \notin In(q, m)
    <3> HIDE DEF cuts, In, n
    <3> QED
      BY <1>1, <1>4, <2>2, <2>3
  <2>5. LinesTo(q, i, entries)
    BY <1>4, <2>3, <2>4 DEF LinesTo
  <2> QED
    BY <2>1, <2>5
<1>6. CASE Cutting(s, l, entries)
  <2>1. Begun(s, t, l.title, l.level) /\ cuts(i)
    BY <1>3, <1>6 DEF ReadOn
  <2>2. Len(r) = n + 1 /\ (\A m \in 1 .. n : r[m] = q[m]) /\ r[n + 1].lines = <<>>
    <3>1. /\ Len(t.sections) = Len(s.sections) + 1
          /\ \A m \in 1 .. Len(s.sections) : t.sections[m] = s.sections[m]
          /\ t.sections[Len(s.sections) + 1].lines = <<>>
      BY <2>1, BegunIs, ZenonT(60)
    <3> QED
      BY <3>1
  <2>3. In(r, n + 1) = {} /\ DOMAIN r[n + 1].lines = {}
    BY <2>2 DEF Markdown!ToSet
  <2>4. \A m \in 1 .. n : In(r, m) = In(q, m)
    BY <2>2
  <2>5. 1 .. n + 1 = (1 .. n) \cup {n + 1}
    BY <1>2
  <2>6. \A m \in 1 .. n + 1 : In(r, m) \subseteq 1 .. i - 1
    <3> HIDE DEF In, n
    <3> QED
      BY <1>4, <2>3, <2>4, <2>5
  <2>7. \A m \in 1 .. n + 1 : In(r, m) \subseteq 1 .. i /\ i \notin In(r, m)
    BY <1>1, <2>6
  <2>8. \A j \in 1 .. i : cuts(j) <=> \A m \in 1 .. n + 1 : j \notin In(r, m)
    <3> HIDE DEF cuts, In, n
    <3>1. ASSUME NEW j \in 1 .. i - 1 PROVE cuts(j) <=> \A m \in 1 .. n + 1 : j \notin In(r, m)
      BY <1>4, <2>3, <2>4, <2>5
    <3> QED
      BY <1>1, <2>1, <2>7, <3>1
  <2>9. After(r)
    <3> SUFFICES ASSUME NEW m \in 1 .. n + 1, NEW k \in 1 .. n + 1,
                        NEW a \in DOMAIN r[m].lines, NEW b \in DOMAIN r[k].lines, m < k \/ (m = k /\ a < b)
                 PROVE  r[m].lines[a] < r[k].lines[b]
      BY <2>2
    <3>1. m # n + 1 /\ k # n + 1
      BY <2>3
    <3>2. m \in 1 .. n /\ k \in 1 .. n
      BY <1>2, <3>1
    <3>3. r[m] = q[m] /\ r[k] = q[k]
      BY <2>2, <3>2
    <3> HIDE DEF n
    <3> QED
      BY <1>4, <3>2, <3>3 DEF n
  <2> HIDE DEF q, r, n
  <2> QED
    BY <2>2, <2>7, <2>8, <2>9 DEF LinesTo, r
<1>7. CASE ~Titled(s, l) /\ ~Cutting(s, l, entries)
  <2> DEFINE old == q[n].lines
             new == r[n].lines
             c == Len(old)
  <2>1. Grown(s, t, i) /\ ~cuts(i)
    BY <1>3, <1>7 DEF ReadOn
  <2>2. /\ Len(r) = n
        /\ \A m \in 1 .. n : m # n => r[m].lines = q[m].lines
        /\ c \in Nat /\ new[c + 1] = i /\ DOMAIN old = 1 .. c /\ DOMAIN new = 1 .. c + 1
        /\ \A a \in 1 .. c : new[a] = old[a]
        /\ In(r, n) = In(q, n) \cup {i}
    <3>1. /\ Len(t.sections) = Len(s.sections)
          /\ \A m \in 1 .. Len(s.sections) :
               /\ t.sections[m].path = s.sections[m].path /\ t.sections[m].slug = s.sections[m].slug
               /\ m # Len(s.sections) => t.sections[m].lines = s.sections[m].lines
          /\ LET before == s.sections[Len(s.sections)].lines
                 now == t.sections[Len(s.sections)].lines
             IN  /\ before \in Seq(Nat) /\ Len(before) \in Nat /\ Len(now) = Len(before) + 1 /\ now[Len(before) + 1] = i
                 /\ DOMAIN before = 1 .. Len(before) /\ DOMAIN now = 1 .. Len(before) + 1
                 /\ \A a \in 1 .. Len(before) : now[a] = before[a]
                 /\ Markdown!ToSet(now) = Markdown!ToSet(before) \cup {i}
      <4>1. i \in Nat
        BY <1>1
      <4> QED
        BY <2>1, <4>1, GrownIs, ZenonT(60)
    <3> QED
      BY <3>1
  <2>3. n \in 1 .. n
    BY <1>2
  <2>4. \A m \in 1 .. n : m # n => In(r, m) = In(q, m)
    BY <2>2
  <2>5. \A m \in 1 .. n : In(r, m) \subseteq 1 .. i
    <3> HIDE DEF In, n
    <3> QED
      BY <1>1, <1>4, <2>2, <2>4
  <2>6. \A j \in 1 .. i : cuts(j) <=> \A m \in 1 .. n : j \notin In(r, m)
    <3> HIDE DEF cuts, In, n
    <3>1. ASSUME NEW j \in 1 .. i - 1 PROVE cuts(j) <=> \A m \in 1 .. n : j \notin In(r, m)
      <4>1. j # i
        BY <1>1
      <4>2. \A m \in 1 .. n : j \in In(r, m) <=> j \in In(q, m)
        BY <2>2, <2>4, <4>1
      <4> QED
        BY <1>4, <4>2
    <3>2. i \in In(r, n)
      BY <2>2
    <3> QED
      BY <1>1, <2>1, <2>3, <3>1, <3>2
  <2>7. After(r)
    <3> SUFFICES ASSUME NEW m \in 1 .. n, NEW k \in 1 .. n,
                        NEW a \in DOMAIN r[m].lines, NEW b \in DOMAIN r[k].lines, m < k \/ (m = k /\ a < b)
                 PROVE  r[m].lines[a] < r[k].lines[b]
      BY <2>2
    <3> DEFINE x == r[m].lines[a]
               y == r[k].lines[b]
    <3>1. ASSUME NEW p \in 1 .. n, NEW e \in DOMAIN r[p].lines, p # n \/ e # c + 1
          PROVE  e \in DOMAIN q[p].lines /\ r[p].lines[e] = q[p].lines[e] /\ r[p].lines[e] \in 1 .. i - 1
      <4>1. e \in DOMAIN q[p].lines /\ r[p].lines[e] = q[p].lines[e]
        <5>1. CASE p # n
          BY <2>2, <5>1
        <5>2. CASE p = n
          <6>1. e \in DOMAIN new /\ e # c + 1
            BY <3>1, <5>2
          <6>2. e \in 1 .. c
            BY <2>2, <6>1, SMTT(30)
          <6>3. e \in DOMAIN old /\ new[e] = old[e]
            BY <2>2, <6>2
          <6> QED
            BY <5>2, <6>3
        <5> QED
          BY <5>1, <5>2
      <4>2. q[p].lines[e] \in In(q, p)
        BY <4>1 DEF Markdown!ToSet
      <4> QED
        BY <1>4, <4>1, <4>2
    <3>2. CASE k = n /\ b = c + 1
      <4>1. y = i
        BY <2>2, <3>2
      <4>2. m # n \/ a # c + 1
        <5>1. CASE m < k
          BY <1>2, <3>2, <5>1
        <5>2. CASE m = k /\ a < b
          <6>1. a \in DOMAIN new
            BY <3>2, <5>2
          <6> QED
            BY <2>2, <3>2, <5>2, <6>1
        <5> QED
          BY <5>1, <5>2
      <4>3. x \in 1 .. i - 1
        BY <3>1, <4>2
      <4> HIDE DEF x, y
      <4>4. x < y
        BY <1>1, <4>1, <4>3
      <4> QED
        BY <4>4 DEF x, y
    <3>3. CASE ~(k = n /\ b = c + 1)
      <4>1. b \in DOMAIN q[k].lines /\ y = q[k].lines[b]
        BY <3>1, <3>3
      <4>2. m # n \/ a # c + 1
        <5> SUFFICES ASSUME m = n, a = c + 1 PROVE FALSE
          OBVIOUS
        <5>1. k = n
          BY <1>2
        <5>2. b \in DOMAIN new /\ a < b
          BY <1>2, <5>1
        <5> QED
          BY <2>2, <5>2
      <4>3. a \in DOMAIN q[m].lines /\ x = q[m].lines[a]
        BY <3>1, <4>2
      <4> QED
        BY <1>4, <4>1, <4>3
    <3> QED
      BY <3>2, <3>3
  <2> HIDE DEF q, r, n
  <2> QED
    BY <2>2, <2>5, <2>6, <2>7 DEF LinesTo, r
<1> QED
  BY <1>5, <1>6, <1>7

\* That every line read has the path of the headings above it survives each line.
LEMMA PathsStep ==
  ASSUME document \in Seq(Markdown!Lines), NEW entries \in BOOLEAN, NEW i \in 1 .. Len(document),
         NEW s \in ReadStates, NEW t \in ReadStates, MarksTo(s, i - 1, entries), ReadOn(s, t, i, entries),
         LinesTo(s.sections, i - 1, entries), PathsTo(s.sections, i - 1, entries)
  PROVE  PathsTo(t.sections, i, entries)
<1> DEFINE l == document[i]
           q == s.sections
           r == t.sections
           n == Len(q)
           M == Marked(entries, i - 1)
           M1 == Marked(entries, i)
           above == Markdown!Above(i - 1, entries)
           now == Markdown!Above(i, entries)
           In(p, m) == Markdown!ToSet(p[m].lines)
<1>1. i \in Nat \ {0} /\ i - 1 \in Nat
  BY DocumentFacts
<1>2. n \in Nat \ {0} /\ n \in 1 .. n
  BY StateFacts
<1>3. /\ Titled(s, l) => ~Cutting(s, l, entries)
      /\ Cutting(s, l, entries) <=> Markdown!Cuts(i, entries) /\ ~Markdown!IsTitle(i, entries)
      /\ Markdown!Cuts(i, entries) => l.level \in 1 .. 3 /\ l.title \in Titles
  BY HeadingIs
<1>4. q[n].path = above /\ \A m \in 1 .. n : \A j \in In(q, m) : q[m].path = Markdown!Above(j, entries)
  BY DEF PathsTo
<1>5. CASE ~Cutting(s, l, entries)
  <2>1. M1 = M /\ Tops(entries, i) = Tops(entries, i - 1)
    BY <1>1, <1>3, <1>5, MarkedGrows
  <2>2. now = above
    <3>1. now = IF M1 = {} THEN <<>>
                ELSE IF document[Last(M1)].level = 3 /\ Tops(entries, i) # {}
                  THEN <<document[Last(Tops(entries, i))].title, document[Last(M1)].title>>
                ELSE <<document[Last(M1)].title>>
      BY <1>1, AboveIs
    <3>2. above = IF M = {} THEN <<>>
                  ELSE IF document[Last(M)].level = 3 /\ Tops(entries, i - 1) # {}
                    THEN <<document[Last(Tops(entries, i - 1))].title, document[Last(M)].title>>
                  ELSE <<document[Last(M)].title>>
      BY <1>1, AboveIs
    <3> HIDE DEF now, above, M, M1
    <3> QED
      BY <2>1, <3>1, <3>2
  <2>3. CASE Titled(s, l)
    <3>1. r = q
      BY <2>3 DEF ReadOn
    <3> HIDE DEF q, r, n, now, above
    <3> QED
      BY <1>4, <2>2, <3>1 DEF PathsTo, n, r, now
  <2>4. CASE ~Titled(s, l)
    <3>1. Grown(s, t, i)
      BY <1>5, <2>4 DEF ReadOn
    <3>2. /\ Len(r) = n
          /\ \A m \in 1 .. n : r[m].path = q[m].path /\ (m # n => r[m].lines = q[m].lines)
          /\ In(r, n) = In(q, n) \cup {i}
      <4>0. i \in Nat
        BY <1>1
      <4>1. /\ Len(t.sections) = Len(s.sections)
            /\ \A m \in 1 .. Len(s.sections) :
                 /\ t.sections[m].path = s.sections[m].path /\ t.sections[m].slug = s.sections[m].slug
                 /\ m # Len(s.sections) => t.sections[m].lines = s.sections[m].lines
            /\ Markdown!ToSet(t.sections[Len(s.sections)].lines) = Markdown!ToSet(s.sections[Len(s.sections)].lines) \cup {i}
        BY <3>1, <4>0, GrownIs, ZenonT(60)
      <4> QED
        BY <4>1
    <3>3. ASSUME NEW m \in 1 .. n, NEW j \in In(r, m) PROVE r[m].path = Markdown!Above(j, entries)
      <4>1. CASE j \in In(q, m)
        BY <1>4, <3>2, <4>1
      <4>2. CASE j \notin In(q, m)
        <5>1. m = n /\ j = i
          BY <3>2, <3>3, <4>2
        <5> HIDE DEF In
        <5> QED
          BY <1>2, <1>4, <2>2, <3>2, <5>1
      <4> QED
        BY <4>1, <4>2
    <3>4. r[n].path = now
      BY <1>2, <1>4, <2>2, <3>2
    <3> HIDE DEF q, r, n, now
    <3> QED
      BY <3>2, <3>3, <3>4 DEF PathsTo, r, now
  <2> QED
    BY <2>3, <2>4
<1>6. CASE Cutting(s, l, entries)
  <2> DEFINE title == l.title
             level == l.level
             T == Tops(entries, i - 1)
             T1 == Tops(entries, i)
  <2>1. Begun(s, t, title, level)
    BY <1>3, <1>6 DEF ReadOn
  <2>2. /\ Len(r) = n + 1
        /\ \A m \in 1 .. n : r[m] = q[m]
        /\ r[n + 1].lines = <<>>
        /\ r[n + 1].path = IF level <= 2 \/ s.h2 = <<>> THEN <<title>> ELSE <<s.h2, title>>
    <3> HIDE DEF title, level
    <3> QED
      BY <2>1, BegunIs
  <2>3. r[n + 1].path = now
    <3>1. now = IF M1 = {} THEN <<>>
                ELSE IF document[Last(M1)].level = 3 /\ T1 # {}
                  THEN <<document[Last(T1)].title, document[Last(M1)].title>>
                ELSE <<document[Last(M1)].title>>
      BY <1>1, AboveIs
    <3>2. M1 # {} /\ Last(M1) = i
      <4>1. M1 = M \cup {i} /\ Last(M1) = i
        BY <1>1, <1>3, <1>6, MarkedGrows
      <4> QED
        BY <4>1
    <3>3. now = IF level = 3 /\ T1 # {} THEN <<document[Last(T1)].title, title>> ELSE <<title>>
      <4> HIDE DEF M1, T1, now
      <4> QED
        BY <3>1, <3>2
    <3>4. CASE level <= 2
      <4>1. level # 3
        BY <3>4
      <4> HIDE DEF now, title, level, T1
      <4> QED
        BY <2>2, <3>3, <3>4, <4>1
    <3>5. CASE ~(level <= 2)
      <4>1. level = 3
        BY <1>3, <1>6, <3>5
      <4>2. T1 = T
        BY <1>1, <1>3, <1>6, <3>5, MarkedGrows
      <4>3. s.h2 = IF T = {} THEN <<>> ELSE document[Last(T)].title
        BY DEF MarksTo
      <4>4. s.h2 = <<>> <=> T = {}
        <5>1. T # {} => document[Last(T)].title \in Titles
          <6> SUFFICES ASSUME T # {} PROVE document[Last(T)].title \in Titles
            OBVIOUS
          <6>1. s.h2 \in Titles \cup {<<>>}
            BY StateFacts
          <6>2. T \subseteq 1 .. i - 1 /\ T \subseteq M
            BY <1>1, MarkedGrows DEF Tops
          <6>3. \E m \in T : \A k \in T : k <= m
            <7>1. T \in SUBSET (1 .. i - 1)
              BY <6>2
            <7> HIDE DEF T
            <7> QED
              BY <1>1, <7>1, Greatest
          <6>4. Last(T) \in T
            <7> HIDE DEF T
            <7> QED
              BY <6>3 DEF Last
          <6>5. Last(T) \in 1 .. i - 1 /\ Markdown!Cuts(Last(T), entries)
            BY <6>2, <6>4 DEF Marked
          <6>6. Last(T) \in 1 .. Len(document)
            BY <1>1, <6>5, DocumentFacts
          <6>7. document[Last(T)] \in Markdown!Lines /\ document[Last(T)].kind = "heading"
            BY <6>5, <6>6, DocumentFacts DEF Markdown!Cuts, Markdown!IsHeading
          <6> QED
            BY <6>7, LineFacts
        <5>2. <<>> \notin Titles
          BY MarkdownAssumption
        <5> HIDE DEF T
        <5> QED
          BY <4>3, <5>1, <5>2
      <4> HIDE DEF now, title, T, T1
      <4>5. now = IF T # {} THEN <<s.h2, title>> ELSE <<title>>
        BY <3>3, <4>1, <4>2, <4>3
      <4>6. r[n + 1].path = IF s.h2 = <<>> THEN <<title>> ELSE <<s.h2, title>>
        BY <2>2, <3>5
      <4> QED
        BY <4>4, <4>5, <4>6
    <3> QED
      BY <3>4, <3>5
  <2>4. ASSUME NEW m \in 1 .. n + 1, NEW j \in In(r, m) PROVE r[m].path = Markdown!Above(j, entries)
    <3>1. m # n + 1
      <4>1. In(r, n + 1) = {}
        BY <2>2 DEF Markdown!ToSet
      <4> QED
        BY <2>4, <4>1
    <3>2. m \in 1 .. n
      BY <1>2, <3>1
    <3>3. r[m] = q[m]
      BY <2>2, <3>2
    <3> QED
      BY <1>4, <2>4, <3>2, <3>3
  <2> HIDE DEF q, r, n, now
  <2> QED
    BY <2>2, <2>3, <2>4 DEF PathsTo, r, now
<1> QED
  BY <1>5, <1>6

\* That the slugs of the sections are taken, and distinct, survives each line.
LEMMA SlugsStep ==
  ASSUME document \in Seq(Markdown!Lines), NEW entries \in BOOLEAN, NEW i \in 1 .. Len(document),
         NEW s \in ReadStates, NEW t \in ReadStates, ReadOn(s, t, i, entries), SlugsTo(s.sections, s.occurrences)
  PROVE  SlugsTo(t.sections, t.occurrences)
<1> DEFINE l == document[i]
           q == s.sections
           r == t.sections
           n == Len(q)
<1>1. i \in Nat /\ n \in Nat \ {0} /\ DOMAIN s.occurrences \subseteq DOMAIN t.occurrences
  BY DocumentFacts, StateFacts DEF ReadOn
<1>2. /\ \A m \in 1 .. n : q[m].slug \in DOMAIN s.occurrences \cup {<<>>}
      /\ \A m, k \in 1 .. n : m # k => q[m].slug # q[k].slug
  BY DEF SlugsTo
<1>3. CASE Titled(s, l)
  <2>1. r = q
    BY <1>3 DEF ReadOn
  <2> HIDE DEF q, r, n
  <2> QED
    BY <1>1, <1>2, <2>1 DEF SlugsTo, r, n
<1>4. CASE Cutting(s, l, entries)
  <2> DEFINE title == l.title
             level == l.level
             slug == r[n + 1].slug
  <2>1. Begun(s, t, title, level)
    BY <1>4 DEF ReadOn
  <2>2. Len(r) = n + 1 /\ (\A m \in 1 .. n : r[m] = q[m]) /\ slug \in (Slugs \cap DOMAIN t.occurrences) \ DOMAIN s.occurrences
    <3> HIDE DEF title, level
    <3> QED
      BY <2>1, BegunIs
  <2>3. slug \in DOMAIN t.occurrences /\ slug \notin DOMAIN s.occurrences /\ slug # <<>>
    BY <2>2 DEF Slugs
  <2>4. ASSUME NEW m \in 1 .. n + 1, m # n + 1
        PROVE  m \in 1 .. n /\ r[m].slug = q[m].slug /\ r[m].slug \in DOMAIN s.occurrences \cup {<<>>} /\ r[m].slug # slug
    <3>1. m \in 1 .. n
      BY <1>1, <2>4
    <3>2. r[m].slug = q[m].slug
      BY <2>2, <3>1
    <3>3. q[m].slug \in DOMAIN s.occurrences \cup {<<>>}
      BY <1>2, <3>1
    <3> HIDE DEF slug
    <3> QED
      BY <2>3, <3>1, <3>2, <3>3
  <2>5. \A m \in 1 .. n + 1 : r[m].slug \in DOMAIN t.occurrences \cup {<<>>}
    <3> HIDE DEF n, r
    <3> QED
      BY <1>1, <2>3, <2>4
  <2>6. ASSUME NEW m \in 1 .. n + 1, NEW k \in 1 .. n + 1, m # k PROVE r[m].slug # r[k].slug
    <3>1. CASE m = n + 1
      BY <2>4, <2>6, <3>1
    <3>2. CASE k = n + 1
      BY <2>4, <2>6, <3>2
    <3>3. CASE m # n + 1 /\ k # n + 1
      BY <1>2, <2>4, <2>6, <3>3
    <3> QED
      BY <3>1, <3>2, <3>3
  <2> HIDE DEF q, r, n
  <2> QED
    BY <2>2, <2>5, <2>6 DEF SlugsTo, r
<1>5. CASE ~Titled(s, l) /\ ~Cutting(s, l, entries)
  <2>1. Grown(s, t, i)
    BY <1>5 DEF ReadOn
  <2>2. Len(r) = n /\ \A m \in 1 .. n : r[m].slug = q[m].slug
    BY <1>1, <2>1, GrownIs
  <2> HIDE DEF q, r, n
  <2> QED
    BY <1>1, <1>2, <2>2 DEF SlugsTo, r
<1> QED
  BY <1>3, <1>4, <1>5

ReadTo(s, i, entries) ==
  /\ MarksTo(s, i, entries) /\ LinesTo(s.sections, i, entries) /\ PathsTo(s.sections, i, entries)
  /\ SlugsTo(s.sections, s.occurrences)

\* All of it holds of a document nothing has been read of.
LEMMA ReadFirst ==
  ASSUME document \in Seq(Markdown!Lines), NEW entries \in BOOLEAN
  PROVE  ReadTo(Markdown!NoSections, 0, entries)
<1> DEFINE s == Markdown!NoSections
           first == [path |-> <<>>, slug |-> <<>>, lines |-> <<>>]
<1>1. /\ s.sections = <<first>> /\ s.fence = 0 /\ s.h2 = <<>> /\ s.titleSeen = FALSE /\ s.occurrences = <<>>
      /\ first.path = <<>> /\ first.slug = <<>> /\ first.lines = <<>>
  BY DEF Markdown!NoSections, Markdown!Null
<1> HIDE DEF s, first
<1>2. Len(s.sections) = 1 /\ s.sections[1] = first
  BY <1>1
<1>3. 1 .. 0 = {} /\ 1 .. 1 = {1}
  OBVIOUS
<1>4. Marked(entries, 0) = {} /\ Tops(entries, 0) = {}
  BY <1>3 DEF Marked, Tops
<1>5. MarksTo(s, 0, entries)
  <2>1. Opened[0] = 0
    BY OpenedFacts
  <2> QED
    BY <1>1, <1>2, <1>3, <1>4, <2>1 DEF MarksTo
<1>6. Markdown!ToSet(first.lines) = {} /\ DOMAIN first.lines = {}
  BY <1>1 DEF Markdown!ToSet
<1>7. \A m \in 1 .. Len(s.sections) : m = 1 /\ s.sections[m] = first
  BY <1>2, <1>3
<1>8. LinesTo(s.sections, 0, entries)
  <2>1. \A j \in 1 .. 0 : FALSE
    BY <1>3
  <2>2. \A m \in 1 .. Len(s.sections) : Markdown!ToSet(s.sections[m].lines) \subseteq 1 .. 0
    BY <1>6, <1>7
  <2>3. \A m \in 1 .. Len(s.sections) : \A a \in DOMAIN s.sections[m].lines : FALSE
    BY <1>6, <1>7
  <2> QED
    BY <2>1, <2>2, <2>3 DEF LinesTo
<1>9. PathsTo(s.sections, 0, entries)
  <2>1. Markdown!Above(0, entries) = <<>>
    BY <1>4, AboveIs
  <2>2. s.sections[Len(s.sections)].path = Markdown!Above(0, entries)
    BY <1>1, <1>2, <2>1
  <2>3. \A m \in 1 .. Len(s.sections) : \A j \in Markdown!ToSet(s.sections[m].lines) : FALSE
    BY <1>6, <1>7
  <2> QED
    BY <2>2, <2>3 DEF PathsTo
<1>10. SlugsTo(s.sections, s.occurrences)
  <2>1. \A m \in 1 .. Len(s.sections) : s.sections[m].slug = <<>>
    BY <1>1, <1>7
  <2> QED
    BY <1>7, <2>1 DEF SlugsTo
<1> QED
  BY <1>5, <1>8, <1>9, <1>10 DEF ReadTo, s

\* Whatever the document, after each of its lines.
LEMMA ReadThrough ==
  ASSUME document \in Seq(Markdown!Lines), NEW entries \in BOOLEAN, NEW i \in 0 .. Len(document)
  PROVE  ReadTo(Markdown!Reading(entries)[i], i, entries)
<1> DEFINE n == Len(document)
           state == Markdown!Reading(entries)
           S == {k \in Nat : k <= n => ReadTo(state[k], k, entries)}
<1>1. n \in Nat
  BY DocumentFacts
<1>2. /\ state[0] = Markdown!NoSections
      /\ \A k \in 0 .. n : state[k] \in ReadStates
      /\ \A k \in 1 .. n : ReadOn(state[k - 1], state[k], k, entries)
  BY ReadingFacts
<1> HIDE DEF state
<1>3. S \in SUBSET Nat /\ 0 \in S
  BY <1>2, ReadFirst
<1>4. ASSUME NEW k \in S PROVE k + 1 \in S
  <2> SUFFICES ASSUME k + 1 <= n PROVE ReadTo(state[k + 1], k + 1, entries)
    OBVIOUS
  <2> DEFINE j == k + 1
             s == state[k]
             t == state[j]
  <2>1. k \in Nat /\ k <= n /\ k \in 0 .. n /\ j \in 0 .. n /\ j \in 1 .. n /\ j - 1 = k
    BY <1>1
  <2>2. ReadTo(s, k, entries)
    BY <2>1
  <2>3. s \in ReadStates /\ t \in ReadStates
    BY <1>2, <2>1
  <2>4. ReadOn(s, t, j, entries)
    <3>1. ReadOn(state[j - 1], state[j], j, entries)
      BY <1>2, <2>1
    <3> HIDE DEF j
    <3> QED
      BY <2>1, <3>1
  <2> HIDE DEF j, s, t
  <2>5. j \in 1 .. Len(document)
    BY <2>1 DEF n
  <2> HIDE DEF n
  <2>6. MarksTo(s, j - 1, entries) /\ LinesTo(s.sections, j - 1, entries) /\ PathsTo(s.sections, j - 1, entries)
        /\ SlugsTo(s.sections, s.occurrences)
    BY <2>1, <2>2 DEF ReadTo
  <2>7. MarksTo(t, j, entries)
    BY <2>3, <2>4, <2>5, <2>6, MarksStep
  <2>8. LinesTo(t.sections, j, entries)
    BY <2>3, <2>4, <2>5, <2>6, LinesStep
  <2>9. PathsTo(t.sections, j, entries)
    BY <2>3, <2>4, <2>5, <2>6, PathsStep
  <2>10. SlugsTo(t.sections, t.occurrences)
    BY <2>3, <2>4, <2>5, <2>6, SlugsStep
  <2>11. ReadTo(t, j, entries)
    BY <2>7, <2>8, <2>9, <2>10 DEF ReadTo
  <2> QED
    BY <2>11 DEF t, j
<1>5. S = Nat
  <2> HIDE DEF S
  <2> QED
    BY <1>3, <1>4, NatSetInduction
<1>6. i \in Nat /\ i <= n
  BY <1>1
<1>7. i \in S
  BY <1>5, <1>6
<1> QED
  BY <1>6, <1>7 DEF state

\* Every line but a cut is in one section, under the headings above it, and anchors are distinct.
LEMMA FaithfulSections ==
  ASSUME document \in Seq(Markdown!Lines)
  PROVE  Markdown!SectionsFaithful
<1> SUFFICES ASSUME NEW entries \in BOOLEAN PROVE Markdown!UnderItsHeading(entries) /\ Markdown!AnchorsDistinct(entries)
  BY DEF Markdown!SectionsFaithful
<1> DEFINE n == Len(document)
           s == Markdown!Reading(entries)[n]
           q == s.sections
<1>1. n \in Nat /\ DOMAIN document = 1 .. n /\ n \in 0 .. n
  BY DocumentFacts
<1>2. ReadTo(s, n, entries) /\ s \in ReadStates
  BY <1>1, ReadThrough, ReadingFacts
<1>3. Markdown!Sections(entries) = q
  BY DEF Markdown!Sections
<1> HIDE DEF n, s
<1>4. DOMAIN q = 1 .. Len(q)
  BY <1>2, StateFacts
<1>5. LinesTo(q, n, entries) /\ PathsTo(q, n, entries) /\ SlugsTo(q, s.occurrences)
  BY <1>2 DEF ReadTo
<1> HIDE DEF q
<1>6. Markdown!UnderItsHeading(entries)
  <2>1. \A i \in DOMAIN document : Markdown!Cuts(i, entries) <=> \A m \in DOMAIN q : i \notin Markdown!ToSet(q[m].lines)
    BY <1>1, <1>4, <1>5 DEF LinesTo
  <2>2. \A m, k \in DOMAIN q : \A a \in DOMAIN q[m].lines, b \in DOMAIN q[k].lines :
          m < k \/ (m = k /\ a < b) => q[m].lines[a] < q[k].lines[b]
    BY <1>4, <1>5 DEF LinesTo
  <2>3. \A m \in DOMAIN q : \A i \in Markdown!ToSet(q[m].lines) : q[m].path = Markdown!Above(i, entries)
    BY <1>4, <1>5 DEF PathsTo
  <2> QED
    BY <1>3, <2>1, <2>2, <2>3 DEF Markdown!UnderItsHeading
<1>7. Markdown!AnchorsDistinct(entries)
  BY <1>3, <1>4, <1>5 DEF Markdown!AnchorsDistinct, SlugsTo
<1> QED
  BY <1>6, <1>7

----------------------------------------------------------------------------
(* MarkdownChunks: the parts of a section *)

\* The length of what is joined, after each of the pieces.
Joining(lengths, separator) ==
  CHOOSE sum : sum = [n \in 0 .. Len(lengths) |->
                        IF n = 0 THEN 0 ELSE sum[n - 1] + lengths[n] + (IF n = 1 THEN 0 ELSE separator)]

\* The sum that Joined takes, step by step.
LEMMA JoiningFacts ==
  ASSUME NEW lengths \in Seq(Nat), NEW separator \in Nat
  PROVE  LET sum == Joining(lengths, separator)
         IN  /\ sum \in [0 .. Len(lengths) -> Nat] /\ sum[0] = 0
             /\ \A n \in 1 .. Len(lengths) : sum[n] = sum[n - 1] + lengths[n] + (IF n = 1 THEN 0 ELSE separator)
             /\ Markdown!Joined(lengths, separator) = sum[Len(lengths)]
<1> DEFINE c == Len(lengths)
           step == [p \in (1 .. c) \X Nat |-> p[2] + lengths[p[1]] + (IF p[1] = 1 THEN 0 ELSE separator)]
           Is(f) == f = [n \in 0 .. c |-> IF n = 0 THEN 0 ELSE f[n - 1] + lengths[n] + (IF n = 1 THEN 0 ELSE separator)]
           sum == Joining(lengths, separator)
<1>1. c \in Nat /\ \A n \in 1 .. c : lengths[n] \in Nat
  OBVIOUS
<1> HIDE DEF c
<1>2. step \in [(1 .. c) \X Nat -> Nat]
  BY <1>1
<1>3. \A n \in 1 .. c, x \in Nat : step[<<n, x>>] = x + lengths[n] + (IF n = 1 THEN 0 ELSE separator)
  OBVIOUS
<1> HIDE DEF step
<1>4. PICK f \in [0 .. c -> Nat] : f[0] = 0 /\ \A n \in 1 .. c : f[n] = step[<<n, f[n - 1]>>]
  <2>1. Stepped(c, Nat, 0, step)
    BY <1>1, <1>2, Recursion
  <2> QED
    BY <2>1 DEF Stepped
<1>5. \A n \in 1 .. c : f[n] = f[n - 1] + lengths[n] + (IF n = 1 THEN 0 ELSE separator)
  <2> SUFFICES ASSUME NEW n \in 1 .. c PROVE f[n] = f[n - 1] + lengths[n] + (IF n = 1 THEN 0 ELSE separator)
    OBVIOUS
  <2>1. n - 1 \in 0 .. c
    BY <1>1
  <2> QED
    BY <1>3, <1>4, <2>1
<1>6. Is(f)
  <2>1. \A n \in 0 .. c : f[n] = IF n = 0 THEN 0 ELSE f[n - 1] + lengths[n] + (IF n = 1 THEN 0 ELSE separator)
    BY <1>1, <1>4, <1>5
  <2> QED
    BY <2>1
<1>7. sum = CHOOSE g : Is(g)
  BY DEF Joining, c
<1>8. Is(sum)
  <2> HIDE DEF Is, sum
  <2> QED
    BY <1>6, <1>7
<1>9. Markdown!Joined(lengths, separator) = sum[c]
  BY DEF Markdown!Joined, Joining, c
<1> HIDE DEF sum
<1>10. sum[0] = 0 /\ \A n \in 1 .. c : sum[n] = sum[n - 1] + lengths[n] + (IF n = 1 THEN 0 ELSE separator)
  BY <1>1, <1>8
<1>11. \A n \in Nat : n <= c => sum[n] \in Nat
  <2> DEFINE S == {n \in Nat : n <= c => sum[n] \in Nat}
  <2>1. S \in SUBSET Nat /\ 0 \in S
    BY <1>10
  <2>2. ASSUME NEW m \in S PROVE m + 1 \in S
    <3> SUFFICES ASSUME m + 1 <= c PROVE sum[m + 1] \in Nat
      OBVIOUS
    <3>1. m \in Nat /\ m <= c /\ m + 1 \in 1 .. c /\ (m + 1) - 1 = m
      BY <1>1
    <3>2. sum[m] \in Nat
      BY <3>1
    <3>3. sum[m + 1] = sum[m] + lengths[m + 1] + (IF m + 1 = 1 THEN 0 ELSE separator)
      BY <1>10, <3>1
    <3> DEFINE gap == IF m + 1 = 1 THEN 0 ELSE separator
    <3>4. gap \in Nat /\ lengths[m + 1] \in Nat
      BY <1>1, <3>1
    <3>5. sum[m + 1] = sum[m] + lengths[m + 1] + gap
      BY <3>3
    <3> HIDE DEF gap
    <3> QED
      BY <3>2, <3>4, <3>5
  <2> HIDE DEF S
  <2>3. S = Nat
    BY <2>1, <2>2, NatSetInduction
  <2> QED
    BY <2>3 DEF S
<1>12. sum \in [0 .. c -> Nat]
  <2>1. \A n \in 0 .. c : sum[n] \in Nat
    BY <1>1, <1>11
  <2>2. sum = [n \in 0 .. c |-> sum[n]]
    <3>1. DOMAIN sum = 0 .. c
      BY <1>8
    <3>2. sum = [n \in DOMAIN sum |-> sum[n]]
      BY <1>8
    <3> QED
      BY <3>1, <3>2
  <2> QED
    BY <2>1, <2>2
<1> QED
  BY <1>9, <1>10, <1>12 DEF c, sum

\* A joined length is no less than any of its parts, and one part more adds its length and a separator.
LEMMA JoinedFacts ==
  ASSUME NEW lengths \in Seq(Nat), NEW separator \in Nat
  PROVE  /\ Markdown!Joined(lengths, separator) \in Nat
         /\ lengths = <<>> => Markdown!Joined(lengths, separator) = 0
         /\ \A k \in 1 .. Len(lengths) : lengths[k] <= Markdown!Joined(lengths, separator)
         /\ \A x \in Nat : Markdown!Joined(Append(lengths, x), separator) =
                             Markdown!Joined(lengths, separator) + x + (IF lengths = <<>> THEN 0 ELSE separator)
<1> DEFINE c == Len(lengths)
           sum == Joining(lengths, separator)
<1>1. c \in Nat /\ \A n \in 1 .. c : lengths[n] \in Nat
  OBVIOUS
<1>2. /\ sum \in [0 .. c -> Nat] /\ sum[0] = 0
      /\ \A n \in 1 .. c : sum[n] = sum[n - 1] + lengths[n] + (IF n = 1 THEN 0 ELSE separator)
      /\ Markdown!Joined(lengths, separator) = sum[c]
  BY JoiningFacts
<1>3. lengths = <<>> <=> c = 0
  OBVIOUS
<1> HIDE DEF c, sum
<1>4. sum[c] \in Nat
  BY <1>1, <1>2
<1>5. \A n \in Nat : n <= c => \A k \in 1 .. n : lengths[k] <= sum[n]
  <2> DEFINE S == {n \in Nat : n <= c => \A k \in 1 .. n : lengths[k] <= sum[n]}
  <2>1. S \in SUBSET Nat /\ 0 \in S
    OBVIOUS
  <2>2. ASSUME NEW m \in S PROVE m + 1 \in S
    <3> SUFFICES ASSUME m + 1 <= c, NEW k \in 1 .. m + 1 PROVE lengths[k] <= sum[m + 1]
      BY <2>1
    <3>1. m \in Nat /\ m <= c /\ m \in 0 .. c /\ m + 1 \in 1 .. c /\ (m + 1) - 1 = m /\ k \in 1 .. c
      BY <1>1, <2>1
    <3>2. \A j \in 1 .. m : lengths[j] <= sum[m]
      BY <3>1
    <3>3. sum[m + 1] = sum[m] + lengths[m + 1] + (IF m + 1 = 1 THEN 0 ELSE separator)
      BY <1>2, <3>1
    <3>4. sum[m] \in Nat /\ lengths[m + 1] \in Nat /\ lengths[k] \in Nat
      BY <1>1, <1>2, <3>1
    <3> HIDE DEF S
    <3>5. CASE k = m + 1
      BY <3>1, <3>3, <3>4, <3>5
    <3>6. CASE k # m + 1
      <4>1. k \in 1 .. m
        BY <3>1, <3>6
      <4>2. lengths[k] <= sum[m]
        BY <3>2, <4>1
      <4> QED
        BY <3>3, <3>4, <4>2
    <3> QED
      BY <3>5, <3>6
  <2> HIDE DEF S
  <2>3. S = Nat
    BY <2>1, <2>2, NatSetInduction
  <2> QED
    BY <2>3 DEF S
<1>6. ASSUME NEW x \in Nat
      PROVE  Markdown!Joined(Append(lengths, x), separator) = sum[c] + x + (IF c = 0 THEN 0 ELSE separator)
  <2> DEFINE longer == Append(lengths, x)
             up == Joining(longer, separator)
  <2>1. longer \in Seq(Nat) /\ Len(longer) = c + 1 /\ longer[c + 1] = x /\ \A n \in 1 .. c : longer[n] = lengths[n]
    BY DEF c
  <2> HIDE DEF longer
  <2>2. /\ up \in [0 .. c + 1 -> Nat] /\ up[0] = 0
        /\ \A n \in 1 .. c + 1 : up[n] = up[n - 1] + longer[n] + (IF n = 1 THEN 0 ELSE separator)
        /\ Markdown!Joined(longer, separator) = up[c + 1]
    <3>1. /\ up \in [0 .. Len(longer) -> Nat] /\ up[0] = 0
          /\ \A n \in 1 .. Len(longer) : up[n] = up[n - 1] + longer[n] + (IF n = 1 THEN 0 ELSE separator)
          /\ Markdown!Joined(longer, separator) = up[Len(longer)]
      BY <2>1, JoiningFacts
    <3> HIDE DEF up
    <3>2. Len(longer) = c + 1
      BY <2>1
    <3> QED
      BY <3>1, <3>2
  <2> HIDE DEF up
  <2> DEFINE S == {n \in Nat : n <= c => up[n] = sum[n]}
  <2>3. S \in SUBSET Nat /\ 0 \in S
    BY <1>2, <2>2
  <2>4. ASSUME NEW m \in S PROVE m + 1 \in S
    <3> SUFFICES ASSUME m + 1 <= c PROVE up[m + 1] = sum[m + 1]
      BY <2>3
    <3>1. m \in Nat /\ m <= c /\ m + 1 \in 1 .. c /\ m + 1 \in 1 .. c + 1 /\ (m + 1) - 1 = m
      BY <1>1, <2>3
    <3>2. up[m] = sum[m] /\ longer[m + 1] = lengths[m + 1]
      BY <2>1, <3>1
    <3>3. up[m + 1] = up[m] + longer[m + 1] + (IF m + 1 = 1 THEN 0 ELSE separator)
      BY <2>2, <3>1
    <3>4. sum[m + 1] = sum[m] + lengths[m + 1] + (IF m + 1 = 1 THEN 0 ELSE separator)
      BY <1>2, <3>1
    <3> QED
      BY <3>2, <3>3, <3>4
  <2> HIDE DEF S
  <2>5. S = Nat
    BY <2>3, <2>4, NatSetInduction
  <2>6. up[c] = sum[c]
    BY <1>1, <2>5 DEF S
  <2>7. up[c + 1] = up[c] + x + (IF c + 1 = 1 THEN 0 ELSE separator)
    <3>1. c + 1 \in 1 .. c + 1 /\ (c + 1) - 1 = c
      BY <1>1
    <3> QED
      BY <2>1, <2>2, <3>1
  <2>8. c + 1 = 1 <=> c = 0
    BY <1>1
  <2> QED
    BY <2>2, <2>6, <2>7, <2>8 DEF longer
<1>7. \A k \in 1 .. c : lengths[k] <= sum[c]
  BY <1>1, <1>5
<1>8. lengths = <<>> => sum[c] = 0
  BY <1>2, <1>3
<1> QED
  BY <1>2, <1>3, <1>4, <1>6, <1>7, <1>8 DEF c

\* No two places of a sequence have the same.
Distinct(s) == \A a, b \in DOMAIN s : a # b => s[a] # s[b]

\* One more at the end.
LEMMA AppendFacts ==
  ASSUME NEW X, NEW s \in Seq(X), NEW x \in X
  PROVE  /\ Append(s, x) \in Seq(X) /\ Len(s) \in Nat /\ Len(Append(s, x)) = Len(s) + 1
         /\ DOMAIN Append(s, x) = 1 .. Len(s) + 1
         /\ Append(s, x)[Len(s) + 1] = x /\ \A i \in 1 .. Len(s) : Append(s, x)[i] = s[i]
  OBVIOUS

\* Two sequences without repetition that share nothing make one.
LEMMA ConcatFacts ==
  ASSUME NEW X, NEW s \in Seq(X), NEW t \in Seq(X)
  PROVE  /\ s \o t \in Seq(X) /\ Markdown!ToSet(s \o t) = Markdown!ToSet(s) \cup Markdown!ToSet(t)
         /\ Distinct(s) /\ Distinct(t) /\ Markdown!ToSet(s) \cap Markdown!ToSet(t) = {} => Distinct(s \o t)
<1> DEFINE u == s \o t
           m == Len(s)
           n == Len(t)
<1>1. /\ m \in Nat /\ n \in Nat /\ DOMAIN s = 1 .. m /\ DOMAIN t = 1 .. n
      /\ u \in Seq(X) /\ Len(u) = m + n /\ DOMAIN u = 1 .. m + n
  OBVIOUS
<1>2. (\A k \in 1 .. m : u[k] = s[k]) /\ \A k \in 1 .. n : u[m + k] = t[k]
  OBVIOUS
<1> HIDE DEF u, m, n
<1>3. \A k \in 1 .. m + n : k \in 1 .. m \/ (k - m \in 1 .. n /\ k = m + (k - m))
  BY <1>1
<1>4. \A k \in 1 .. m + n : k \notin 1 .. m => u[k] = t[k - m] /\ k - m \in 1 .. n
  <2> SUFFICES ASSUME NEW k \in 1 .. m + n, k \notin 1 .. m PROVE u[k] = t[k - m] /\ k - m \in 1 .. n
    OBVIOUS
  <2>1. k - m \in 1 .. n /\ k = m + (k - m)
    BY <1>1
  <2>2. u[m + (k - m)] = t[k - m]
    BY <1>2, <2>1
  <2> QED
    BY <2>1, <2>2
<1>5. (\A k \in 1 .. m : k \in 1 .. m + n) /\ \A k \in 1 .. n : m + k \in 1 .. m + n
  BY <1>1
<1>6. Markdown!ToSet(u) = Markdown!ToSet(s) \cup Markdown!ToSet(t)
  <2>1. Markdown!ToSet(u) = {u[k] : k \in 1 .. m + n}
    BY <1>1 DEF Markdown!ToSet
  <2>2. Markdown!ToSet(s) = {s[k] : k \in 1 .. m}
    BY <1>1 DEF Markdown!ToSet
  <2>3. Markdown!ToSet(t) = {t[k] : k \in 1 .. n}
    BY <1>1 DEF Markdown!ToSet
  <2>4. ASSUME NEW x \in Markdown!ToSet(u) PROVE x \in Markdown!ToSet(s) \cup Markdown!ToSet(t)
    <3>1. PICK k \in 1 .. m + n : x = u[k]
      BY <2>1
    <3> QED
      BY <1>2, <1>4, <2>2, <2>3, <3>1
  <2>5. ASSUME NEW x \in Markdown!ToSet(s) PROVE x \in Markdown!ToSet(u)
    BY <1>2, <1>5, <2>1, <2>2
  <2>6. ASSUME NEW x \in Markdown!ToSet(t) PROVE x \in Markdown!ToSet(u)
    <3>1. PICK k \in 1 .. n : x = t[k]
      BY <2>3
    <3>2. x = u[m + k] /\ m + k \in 1 .. m + n
      BY <1>2, <1>5, <3>1
    <3> QED
      BY <2>1, <3>2
  <2> QED
    BY <2>4, <2>5, <2>6
<1>7. ASSUME Distinct(s), Distinct(t), Markdown!ToSet(s) \cap Markdown!ToSet(t) = {} PROVE Distinct(u)
  <2>1. \A a \in 1 .. m, b \in 1 .. n : s[a] # t[b]
    BY <1>1, <1>7 DEF Markdown!ToSet
  <2>2. (\A a, b \in 1 .. m : a # b => s[a] # s[b]) /\ \A a, b \in 1 .. n : a # b => t[a] # t[b]
    BY <1>1, <1>7 DEF Distinct
  <2>3. ASSUME NEW a \in 1 .. m + n, NEW b \in 1 .. m + n, a # b PROVE u[a] # u[b]
    <3>1. CASE a \in 1 .. m /\ b \in 1 .. m
      BY <1>2, <2>2, <2>3, <3>1
    <3>2. CASE a \in 1 .. m /\ b \notin 1 .. m
      BY <1>2, <1>4, <2>1, <3>2
    <3>3. CASE a \notin 1 .. m /\ b \in 1 .. m
      BY <1>2, <1>4, <2>1, <3>3
    <3>4. CASE a \notin 1 .. m /\ b \notin 1 .. m
      <4>1. a - m # b - m
        BY <1>1, <2>3
      <4> QED
        BY <1>4, <2>2, <3>4, <4>1
    <3> QED
      BY <3>1, <3>2, <3>3, <3>4
  <2> QED
    BY <1>1, <2>3 DEF Distinct
<1> QED
  BY <1>1, <1>6, <1>7 DEF u

\* What is put end to end.
LEMMA FlattenFacts ==
  ASSUME NEW X, NEW seqs \in Seq(Seq(X))
  PROVE  LET flat == Markdown!FlattenSeq(seqs)
         IN  /\ flat \in Seq(X)
             /\ Markdown!ToSet(flat) = UNION {Markdown!ToSet(seqs[j]) : j \in 1 .. Len(seqs)}
             /\ ( /\ \A j \in 1 .. Len(seqs) : Distinct(seqs[j])
                  /\ \A j, k \in 1 .. Len(seqs) : j # k => Markdown!ToSet(seqs[j]) \cap Markdown!ToSet(seqs[k]) = {} )
                => Distinct(flat)
<1> DEFINE c == Len(seqs)
           step == [p \in (1 .. c) \X Seq(X) |-> p[2] \o seqs[p[1]]]
           Is(f) == f = [i \in 1 .. c |-> IF i = 1 THEN seqs[i] ELSE f[i - 1] \o seqs[i]]
           all == CHOOSE f : Is(f)
           flat == Markdown!FlattenSeq(seqs)
           In(s) == Markdown!ToSet(s)
           Apart(i) == /\ \A j \in 1 .. i : Distinct(seqs[j])
                       /\ \A j, k \in 1 .. i : j # k => In(seqs[j]) \cap In(seqs[k]) = {}
           Flat(s, i) == s \in Seq(X) /\ In(s) = UNION {In(seqs[j]) : j \in 1 .. i} /\ (Apart(i) => Distinct(s))
<1>1. c \in Nat /\ \A i \in 1 .. c : seqs[i] \in Seq(X)
  OBVIOUS
<1>2. seqs = <<>> <=> c = 0
  OBVIOUS
<1>3. flat = IF c = 0 THEN seqs ELSE all[c]
  BY DEF Markdown!FlattenSeq
<1> HIDE DEF c
<1>4. \A i \in 1 .. c, s \in Seq(X) : s \o seqs[i] \in Seq(X)
  BY <1>1
<1>5. step \in [(1 .. c) \X Seq(X) -> Seq(X)]
  BY <1>4
<1>6. \A i \in 1 .. c, s \in Seq(X) : step[<<i, s>>] = s \o seqs[i]
  OBVIOUS
<1> HIDE DEF step
<1>7. PICK f \in [0 .. c -> Seq(X)] : f[0] = <<>> /\ \A i \in 1 .. c : f[i] = step[<<i, f[i - 1]>>]
  <2>1. <<>> \in Seq(X)
    OBVIOUS
  <2>2. Stepped(c, Seq(X), <<>>, step)
    BY <1>1, <1>5, <2>1, Recursion
  <2> QED
    BY <2>2 DEF Stepped
<1>8. \A i \in 1 .. c : f[i] = f[i - 1] \o seqs[i]
  <2> SUFFICES ASSUME NEW i \in 1 .. c PROVE f[i] = f[i - 1] \o seqs[i]
    OBVIOUS
  <2>1. i - 1 \in 0 .. c
    BY <1>1
  <2> QED
    BY <1>6, <1>7, <2>1
<1> DEFINE g == [i \in 1 .. c |-> f[i]]
<1>9. Is(g)
  <2>1. ASSUME NEW i \in 1 .. c PROVE g[i] = IF i = 1 THEN seqs[i] ELSE g[i - 1] \o seqs[i]
    <3>1. CASE i = 1
      <4>1. f[1] = <<>> \o seqs[1]
        <5>1. 1 \in 1 .. c /\ 1 - 1 = 0
          BY <3>1
        <5> QED
          BY <1>7, <1>8, <5>1
      <4>2. <<>> \o seqs[1] = seqs[1]
        BY <1>1, <3>1
      <4> QED
        BY <3>1, <4>1, <4>2
    <3>2. CASE i # 1
      <4>1. i - 1 \in 1 .. c
        BY <1>1, <3>2
      <4> QED
        BY <1>8, <3>2, <4>1
    <3> QED
      BY <3>1, <3>2
  <2> QED
    BY <2>1
<1>10. Is(all)
  <2> HIDE DEF Is, g
  <2> QED
    BY <1>9
<1> HIDE DEF all
<1>11. \A i \in Nat : i <= c => Flat(f[i], i)
  <2> DEFINE S == {i \in Nat : i <= c => Flat(f[i], i)}
  <2>1. 0 \in S
    <3>1. <<>> \in Seq(X) /\ In(<<>>) = {} /\ Distinct(<<>>)
      BY DEF Markdown!ToSet, Distinct
    <3>2. 1 .. 0 = {}
      OBVIOUS
    <3>3. UNION {In(seqs[j]) : j \in 1 .. 0} = {}
      BY <3>2
    <3> HIDE DEF In
    <3> QED
      BY <1>7, <3>1, <3>3
  <2>2. S \in SUBSET Nat
    OBVIOUS
  <2>3. ASSUME NEW m \in S PROVE m + 1 \in S
    <3>0. m \in Nat /\ m + 1 \in Nat
      BY <2>2
    <3> SUFFICES ASSUME m + 1 <= c PROVE Flat(f[m + 1], m + 1)
      <4> HIDE DEF Flat
      <4> QED
        BY <3>0
    <3>1. m \in Nat /\ m <= c /\ m \in 0 .. c /\ m + 1 \in 1 .. c /\ (m + 1) - 1 = m
      BY <1>1, <2>2
    <3> DEFINE s == f[m]
               t == seqs[m + 1]
    <3>2. Flat(s, m)
      BY <3>1
    <3>3. f[m + 1] = s \o t
      BY <1>8, <3>1
    <3>4. t \in Seq(X)
      BY <1>1, <3>1
    <3>5. 1 .. m + 1 = (1 .. m) \cup {m + 1} /\ m + 1 \notin 1 .. m
      BY <3>1
    <3>6. UNION {In(seqs[j]) : j \in 1 .. m + 1} = (UNION {In(seqs[j]) : j \in 1 .. m}) \cup In(t)
      <4>1. \A x : (\E j \in 1 .. m + 1 : x \in In(seqs[j])) <=> (\E j \in 1 .. m : x \in In(seqs[j])) \/ x \in In(t)
        <5> HIDE DEF In
        <5> QED
          BY <3>5
      <4>2. \A x : x \in UNION {In(seqs[j]) : j \in 1 .. m + 1} <=> \E j \in 1 .. m + 1 : x \in In(seqs[j])
        BY Zenon
      <4>3. \A x : x \in UNION {In(seqs[j]) : j \in 1 .. m} <=> \E j \in 1 .. m : x \in In(seqs[j])
        BY Zenon
      <4> DEFINE A == UNION {In(seqs[j]) : j \in 1 .. m + 1}
                 B == UNION {In(seqs[j]) : j \in 1 .. m}
                 C == In(t)
      <4>4. \A x : x \in A <=> x \in B \/ x \in C
        BY <4>1, <4>2, <4>3, Zenon
      <4> HIDE DEF A, B, C
      <4>5. A = B \cup C
        BY <4>4
      <4> QED
        BY <4>5 DEF A, B, C
    <3>7. s \o t \in Seq(X) /\ In(s \o t) = In(s) \cup In(t)
          /\ (Distinct(s) /\ Distinct(t) /\ In(s) \cap In(t) = {} => Distinct(s \o t))
      BY <3>2, <3>4, ConcatFacts
    <3>8. ASSUME Apart(m + 1) PROVE Distinct(s \o t)
      <4>1. Apart(m) /\ Distinct(t)
        BY <3>5, <3>8
      <4>2. \A j \in 1 .. m : In(seqs[j]) \cap In(t) = {}
        <5> SUFFICES ASSUME NEW j \in 1 .. m PROVE In(seqs[j]) \cap In(t) = {}
          OBVIOUS
        <5>1. j \in 1 .. m + 1 /\ m + 1 \in 1 .. m + 1 /\ j # m + 1
          BY <3>5
        <5> HIDE DEF In
        <5> QED
          BY <3>8, <5>1
      <4>3. Distinct(s)
        BY <3>2, <4>1
      <4>4. In(s) = UNION {In(seqs[j]) : j \in 1 .. m}
        BY <3>2
      <4>5. In(s) \cap In(t) = {}
        <5> HIDE DEF In, s, t
        <5> QED
          BY <4>2, <4>4
      <4> HIDE DEF In, s, t
      <4> QED
        BY <3>7, <4>1, <4>3, <4>5
    <3>9. In(s \o t) = UNION {In(seqs[j]) : j \in 1 .. m + 1}
      <4>1. In(s) = UNION {In(seqs[j]) : j \in 1 .. m}
        BY <3>2
      <4>2. In(s \o t) = In(s) \cup In(t)
        BY <3>7
      <4> DEFINE A == UNION {In(seqs[j]) : j \in 1 .. m + 1}
                 B == UNION {In(seqs[j]) : j \in 1 .. m}
      <4>3. A = B \cup In(t) /\ In(s) = B
        BY <3>6, <4>1
      <4> HIDE DEF A, B, In, s, t
      <4>4. In(s \o t) = A
        BY <4>2, <4>3
      <4> QED
        BY <4>4 DEF A
    <3> HIDE DEF s, t, In, Apart, S
    <3> QED
      BY <3>3, <3>7, <3>8, <3>9
  <2> HIDE DEF S
  <2>4. S = Nat
    BY <2>1, <2>2, <2>3, NatSetInduction
  <2> QED
    BY <2>4 DEF S
<1>12. ASSUME c # 0 PROVE all[c] = f[c]
  <2> DEFINE S == {i \in Nat : i + 1 <= c => all[i + 1] = f[i + 1]}
  <2>1. S \in SUBSET Nat
    OBVIOUS
  <2>2. 0 \in S
    <3>1. 1 \in 1 .. c
      BY <1>1, <1>12
    <3>2. all[1] = seqs[1] /\ g[1] = seqs[1]
      <4>1. all[1] = seqs[1]
        BY <1>10, <3>1
      <4>2. g[1] = seqs[1]
        <5> HIDE DEF g
        <5> QED
          BY <1>9, <3>1
      <4> QED
        BY <4>1, <4>2
    <3> QED
      BY <3>1, <3>2
  <2>3. ASSUME NEW i \in S PROVE i + 1 \in S
    <3> SUFFICES ASSUME (i + 1) + 1 <= c PROVE all[(i + 1) + 1] = f[(i + 1) + 1]
      BY <2>1
    <3> DEFINE k == (i + 1) + 1
    <3>1. i \in Nat /\ i + 1 <= c /\ k \in 1 .. c /\ k - 1 = i + 1 /\ k # 1
      BY <1>1, <2>1
    <3>2. all[i + 1] = f[i + 1]
      BY <3>1
    <3> HIDE DEF k, S
    <3>3. all[k] = all[k - 1] \o seqs[k]
      BY <1>10, <3>1
    <3>4. f[k] = f[k - 1] \o seqs[k]
      BY <1>8, <3>1
    <3>5. all[k] = f[k]
      BY <3>1, <3>2, <3>3, <3>4
    <3> QED
      BY <3>5 DEF k
  <2> HIDE DEF S
  <2>4. S = Nat
    BY <2>1, <2>2, <2>3, NatSetInduction
  <2>5. c - 1 \in S /\ (c - 1) + 1 = c
    BY <1>1, <1>12, <2>4
  <2>6. c - 1 + 1 <= c => all[c - 1 + 1] = f[c - 1 + 1]
    BY <2>5 DEF S
  <2> QED
    BY <1>1, <2>5, <2>6
<1>13. flat = f[c]
  <2> HIDE DEF flat
  <2>1. CASE c = 0
    BY <1>2, <1>3, <1>7, <2>1
  <2>2. CASE c # 0
    BY <1>3, <1>12, <2>2
  <2> QED
    BY <2>1, <2>2
<1>14. Flat(flat, c)
  <2>1. Flat(f[c], c)
    <3>1. c \in Nat /\ c <= c
      BY <1>1
    <3> HIDE DEF Flat
    <3> QED
      BY <1>11, <3>1
  <2> HIDE DEF Flat, flat
  <2> QED
    BY <1>13, <2>1
<1> QED
  BY <1>14 DEF c

Pieces == [line : Nat, from : Nat, length : Nat]
Paras == Seq(Pieces) \ {<<>>}

\* The lines of a body as pieces, each whole.
LEMMA BodyFacts ==
  ASSUME body \in Seq(Markdown!BodyLines)
  PROVE  /\ Len(body) \in Nat /\ DOMAIN body = 1 .. Len(body)
         /\ \A i \in 1 .. Len(body) : body[i].length \in Nat /\ (body[i].kind = "blank" => body[i].length = 0)
         /\ Markdown!Whole \in Seq(Pieces) /\ Len(Markdown!Whole) = Len(body)
         /\ \A i \in 1 .. Len(body) : Markdown!Whole[i] = [line |-> i, from |-> 0, length |-> body[i].length]
                                      /\ Markdown!Whole[i] \in Pieces
<1> DEFINE n == Len(body)
<1>1. n \in Nat /\ DOMAIN body = 1 .. n /\ \A i \in 1 .. n : body[i] \in Markdown!BodyLines
  OBVIOUS
<1>2. \A l \in Markdown!BodyLines : l.length \in Nat /\ (l.kind = "blank" => l.length = 0)
  <2> SUFFICES ASSUME NEW l \in Markdown!BodyLines PROVE l.length \in Nat /\ (l.kind = "blank" => l.length = 0)
    OBVIOUS
  <2>1. CASE l \in [kind : {"text", "row"}, length : LineLengths]
    <3>1. l.kind \in {"text", "row"} /\ l.length \in LineLengths
      BY <2>1
    <3> QED
      BY <3>1, MarkdownAssumption
  <2>2. CASE l = [kind |-> "separator", length |-> 1]
    <3>1. l.kind = "separator" /\ l.length = 1
      BY <2>2
    <3> QED
      BY <3>1
  <2>3. CASE l = [kind |-> "fence", length |-> 1]
    <3>1. l.kind = "fence" /\ l.length = 1
      BY <2>3
    <3> QED
      BY <3>1
  <2>4. CASE l = [kind |-> "blank", length |-> 0]
    <3>1. l.length = 0
      BY <2>4
    <3> QED
      BY <3>1
  <2> QED
    BY <2>1, <2>2, <2>3, <2>4 DEF Markdown!BodyLines
<1>3. \A i \in 1 .. n : body[i].length \in Nat /\ (body[i].kind = "blank" => body[i].length = 0)
  BY <1>1, <1>2
<1> HIDE DEF n
<1>4. Markdown!Whole = [i \in 1 .. n |-> [line |-> i, from |-> 0, length |-> body[i].length]]
  BY <1>1 DEF Markdown!Whole, Markdown!Piece
<1>5. \A i \in 1 .. n : [line |-> i, from |-> 0, length |-> body[i].length] \in Pieces
  BY <1>1, <1>3 DEF Pieces
<1>6. Markdown!Whole \in [1 .. n -> Pieces]
  BY <1>4, <1>5
<1>7. Markdown!Whole \in Seq(Pieces) /\ Len(Markdown!Whole) = n
  BY <1>1, <1>6
<1> QED
  BY <1>1, <1>3, <1>4, <1>5, <1>7 DEF n

\* The length of a paragraph: no line exceeds it, one line more adds its length and a newline.
LEMMA LengthFacts ==
  ASSUME NEW p \in Seq(Pieces)
  PROVE  /\ Markdown!Length(p) \in Nat
         /\ p = <<>> => Markdown!Length(p) = 0
         /\ \A k \in 1 .. Len(p) : p[k].length <= Markdown!Length(p)
         /\ \A x \in Pieces : Markdown!Length(Append(p, x)) = Markdown!Length(p) + x.length + (IF p = <<>> THEN 0 ELSE 1)
<1> DEFINE n == Len(p)
           lengths == [i \in DOMAIN p |-> p[i].length]
<1>1. n \in Nat /\ DOMAIN p = 1 .. n /\ \A i \in 1 .. n : p[i] \in Pieces
  OBVIOUS
<1>2. \A x \in Pieces : x.length \in Nat
  BY DEF Pieces
<1>3. lengths \in [1 .. n -> Nat]
  BY <1>1, <1>2
<1>4. lengths \in Seq(Nat) /\ Len(lengths) = n
  <2> HIDE DEF lengths, n
  <2> QED
    BY <1>1, <1>3
<1>5. (p = <<>> <=> n = 0) /\ (lengths = <<>> <=> n = 0)
  <2>1. p = <<>> <=> n = 0
    OBVIOUS
  <2> HIDE DEF lengths, n
  <2> QED
    BY <1>4, <2>1
<1>6. Markdown!Length(p) = Markdown!Joined(lengths, 1)
  BY DEF Markdown!Length
<1>7. \A k \in 1 .. n : lengths[k] = p[k].length
  BY <1>1
<1>8. ASSUME NEW x \in Pieces
      PROVE  Markdown!Length(Append(p, x)) = Markdown!Joined(Append(lengths, x.length), 1)
  <2> DEFINE q == Append(p, x)
             longer == Append(lengths, x.length)
  <2>1. q \in Seq(Pieces) /\ Len(q) = n + 1 /\ DOMAIN q = 1 .. n + 1 /\ q[n + 1] = x /\ \A k \in 1 .. n : q[k] = p[k]
    OBVIOUS
  <2>2. x.length \in Nat
    BY <1>2
  <2> HIDE DEF lengths
  <2>3. longer \in Seq(Nat) /\ Len(longer) = n + 1 /\ DOMAIN longer = 1 .. n + 1 /\ longer[n + 1] = x.length
        /\ \A k \in 1 .. n : longer[k] = lengths[k]
    BY <1>4, <2>2
  <2> HIDE DEF q, longer, n
  <2>4. \A k \in 1 .. n + 1 : longer[k] = q[k].length
    <3>1. 1 .. n + 1 = (1 .. n) \cup {n + 1}
      BY <1>1
    <3> QED
      BY <1>7, <2>1, <2>3, <3>1
  <2>5. longer = [k \in DOMAIN q |-> q[k].length]
    <3>1. longer = [k \in 1 .. n + 1 |-> longer[k]]
      BY <2>3
    <3> QED
      BY <2>1, <2>4, <3>1
  <2>6. Markdown!Length(q) = Markdown!Joined([k \in DOMAIN q |-> q[k].length], 1)
    BY DEF Markdown!Length
  <2> QED
    BY <2>5, <2>6 DEF q, longer
<1> HIDE DEF lengths
<1>9. /\ Markdown!Joined(lengths, 1) \in Nat
      /\ lengths = <<>> => Markdown!Joined(lengths, 1) = 0
      /\ \A k \in 1 .. n : lengths[k] <= Markdown!Joined(lengths, 1)
      /\ \A x \in Nat : Markdown!Joined(Append(lengths, x), 1) = Markdown!Joined(lengths, 1) + x + (IF lengths = <<>> THEN 0 ELSE 1)
  BY <1>4, JoinedFacts
<1> QED
  BY <1>2, <1>5, <1>6, <1>7, <1>8, <1>9

\* One paragraph is as long as it is; none has no length.
LEMMA JoinedLengthFacts ==
  /\ Markdown!JoinedLength(<<>>) = 0
  /\ \A p \in Seq(Pieces) : Markdown!JoinedLength(<<p>>) = Markdown!Length(p)
<1>1. Markdown!JoinedLength(<<>>) = 0
  <2>1. [i \in DOMAIN <<>> |-> Markdown!Length(<<>>[i])] = <<>>
    OBVIOUS
  <2>2. Markdown!Joined(<<>>, 2) = 0
    <3>1. <<>> \in Seq(Nat) /\ 2 \in Nat
      OBVIOUS
    <3> QED
      BY <3>1, JoinedFacts
  <2>3. Markdown!JoinedLength(<<>>) = Markdown!Joined([i \in DOMAIN <<>> |-> Markdown!Length(<<>>[i])], 2)
    BY DEF Markdown!JoinedLength
  <2> QED
    BY <2>1, <2>2, <2>3
<1>2. ASSUME NEW p \in Seq(Pieces) PROVE Markdown!JoinedLength(<<p>>) = Markdown!Length(p)
  <2> DEFINE x == Markdown!Length(p)
  <2>1. x \in Nat
    BY LengthFacts
  <2>2. [i \in DOMAIN <<p>> |-> Markdown!Length(<<p>>[i])] = <<x>>
    <3>1. DOMAIN <<p>> = 1 .. 1 /\ 1 .. 1 = {1} /\ <<p>>[1] = p
      OBVIOUS
    <3> HIDE DEF x
    <3>2. [i \in {1} |-> Markdown!Length(<<p>>[i])] = [i \in {1} |-> x]
      BY <3>1 DEF x
    <3>3. <<x>> = [i \in {1} |-> x]
      <4>1. <<x>> = [i \in 1 .. 1 |-> x]
        OBVIOUS
      <4> QED
        BY <3>1, <4>1
    <3> QED
      BY <3>1, <3>2, <3>3
  <2>3. Markdown!Joined(<<x>>, 2) = x
    <3> HIDE DEF x
    <3>1. <<>> \in Seq(Nat) /\ 2 \in Nat /\ Append(<<>>, x) = <<x>>
      OBVIOUS
    <3>2. Markdown!Joined(Append(<<>>, x), 2) = Markdown!Joined(<<>>, 2) + x + 0 /\ Markdown!Joined(<<>>, 2) = 0
      BY <2>1, <3>1, JoinedFacts
    <3> QED
      BY <2>1, <3>1, <3>2
  <2>4. Markdown!JoinedLength(<<p>>) = Markdown!Joined([i \in DOMAIN <<p>> |-> Markdown!Length(<<p>>[i])], 2)
    BY DEF Markdown!JoinedLength
  <2> QED
    BY <2>2, <2>3, <2>4
<1> QED
  BY <1>1, <1>2

GatherStates == [done : Seq(Paras), buffer : Seq(Pieces), inside : BOOLEAN]

\* The paragraphs so far, the one being read among them.
SoFar(s) == Append(s.done, s.buffer)

\* A blank line adds nothing, or ends a paragraph; any other is put at the end of the last.
GatherOn(s, t, i) ==
  LET all == SoFar(s)
      now == SoFar(t)
  IN  \/ body[i].kind = "blank" /\ now = all
      \/ body[i].kind = "blank" /\ now = Append(all, <<>>)
      \/ /\ Len(now) = Len(all) /\ now[Len(all)] = Append(all[Len(all)], Markdown!Whole[i])
         /\ \A a \in 1 .. Len(all) - 1 : now[a] = all[a]

\* The paragraphs done, and behind them the one being gathered.
LEMMA SoFarFacts ==
  ASSUME NEW s \in GatherStates
  PROVE  /\ s = [done |-> s.done, buffer |-> s.buffer, inside |-> s.inside]
         /\ s.done \in Seq(Paras) /\ s.buffer \in Seq(Pieces) /\ s.inside \in BOOLEAN
         /\ Len(s.done) \in Nat /\ Len(SoFar(s)) = Len(s.done) + 1
         /\ SoFar(s)[Len(s.done) + 1] = s.buffer
         /\ \A a \in 1 .. Len(s.done) : SoFar(s)[a] = s.done[a] /\ s.done[a] \in Paras
         /\ SoFar(s) \in Seq(Seq(Pieces))
<1>1. /\ s = [done |-> s.done, buffer |-> s.buffer, inside |-> s.inside]
      /\ s.done \in Seq(Paras) /\ s.buffer \in Seq(Pieces) /\ s.inside \in BOOLEAN
  BY DEF GatherStates
<1> DEFINE d == s.done
           b == s.buffer
<1>2. d \in Seq(Seq(Pieces)) /\ b \in Seq(Pieces)
  <2>1. Paras \subseteq Seq(Pieces)
    BY DEF Paras
  <2> QED
    BY <1>1, <2>1
<1> HIDE DEF d, b
<1>3. /\ Len(d) \in Nat /\ Len(Append(d, b)) = Len(d) + 1 /\ Append(d, b)[Len(d) + 1] = b
      /\ \A a \in 1 .. Len(d) : Append(d, b)[a] = d[a]
      /\ Append(d, b) \in Seq(Seq(Pieces))
  BY <1>2
<1>4. \A a \in 1 .. Len(d) : d[a] \in Paras
  BY <1>1 DEF d
<1> QED
  BY <1>1, <1>3, <1>4 DEF SoFar, d, b

\* A line ends a paragraph or joins the one being gathered.
LEMMA GatherFacts ==
  ASSUME body \in Seq(Markdown!BodyLines), NEW s \in GatherStates, NEW i \in 1 .. Len(body)
  PROVE  Markdown!Gather(s, i) \in GatherStates /\ GatherOn(s, Markdown!Gather(s, i), i)
<1> DEFINE t == Markdown!Gather(s, i)
           d == s.done
           b == s.buffer
           w == Markdown!Whole[i]
           n == Len(d)
<1>1. /\ s = [done |-> d, buffer |-> b, inside |-> s.inside] /\ d \in Seq(Paras) /\ b \in Seq(Pieces) /\ s.inside \in BOOLEAN
      /\ n \in Nat /\ Len(SoFar(s)) = n + 1 /\ SoFar(s)[n + 1] = b
      /\ \A a \in 1 .. n : SoFar(s)[a] = d[a]
  BY SoFarFacts
<1>2. w \in Pieces
  BY BodyFacts
<1>3. CASE ~s.inside /\ body[i].kind = "blank"
  <2> DEFINE x == IF b = <<>> THEN d ELSE Append(d, b)
  <2>1. t = [s EXCEPT !.done = x, !.buffer = <<>>]
    BY <1>3 DEF Markdown!Gather
  <2>2. x \in Seq(Paras)
    <3>1. b # <<>> => b \in Paras
      BY <1>1 DEF Paras
    <3> QED
      BY <1>1, <3>1
  <2> HIDE DEF x, t, d, b
  <2>3. t = [done |-> x, buffer |-> <<>>, inside |-> s.inside]
    BY <1>1, <2>1
  <2>4. <<>> \in Seq(Pieces)
    OBVIOUS
  <2>5. t \in GatherStates
    BY <1>1, <2>2, <2>3, <2>4 DEF GatherStates
  <2>6. SoFar(t) = Append(x, <<>>)
    BY <2>3 DEF SoFar
  <2>7. SoFar(s) = Append(d, b)
    BY DEF SoFar, d, b
  <2>8. CASE b = <<>>
    <3>1. SoFar(t) = SoFar(s)
      BY <2>6, <2>7, <2>8 DEF x
    <3> QED
      BY <1>3, <2>5, <3>1 DEF GatherOn, t
  <2>9. CASE b # <<>>
    <3>1. SoFar(t) = Append(SoFar(s), <<>>)
      BY <2>6, <2>7, <2>9 DEF x
    <3> QED
      BY <1>3, <2>5, <3>1 DEF GatherOn, t
  <2> QED
    BY <2>8, <2>9
<1>4. CASE ~(~s.inside /\ body[i].kind = "blank")
  <2> DEFINE x == Append(b, w)
  <2>0. PICK inside \in BOOLEAN : inside = IF body[i].kind = "fence" THEN ~s.inside ELSE s.inside
    <3>1. (IF body[i].kind = "fence" THEN ~s.inside ELSE s.inside) \in BOOLEAN
      BY <1>1
    <3> QED
      BY <3>1
  <2>1. t = [s EXCEPT !.buffer = x, !.inside = inside]
    <3>1. t = [s EXCEPT !.buffer = Append(@, w), !.inside = IF body[i].kind = "fence" THEN ~@ ELSE @]
      BY <1>4, Zenon DEF Markdown!Gather
    <3>2. CASE body[i].kind = "fence"
      <4>1. t = [s EXCEPT !.buffer = Append(@, w), !.inside = ~@]
        BY <3>1, <3>2, Zenon
      <4>2. inside = ~s.inside
        BY <2>0, <3>2
      <4> QED
        BY <4>1, <4>2
    <3>3. CASE body[i].kind # "fence"
      <4>1. t = [s EXCEPT !.buffer = Append(@, w), !.inside = @]
        BY <3>1, <3>3, Zenon
      <4>2. inside = s.inside
        BY <2>0, <3>3
      <4> QED
        BY <4>1, <4>2
    <3> QED
      BY <3>2, <3>3
  <2>2. x \in Seq(Pieces)
    BY <1>1, <1>2
  <2> HIDE DEF x, t, d, b, w
  <2>3. t = [done |-> d, buffer |-> x, inside |-> inside]
    <3> DEFINE v == s.inside
    <3>1. s = [done |-> d, buffer |-> b, inside |-> v]
      BY <1>1
    <3> HIDE DEF v
    <3>2. t = [[done |-> d, buffer |-> b, inside |-> v] EXCEPT !.buffer = x, !.inside = inside]
      BY <2>1, <3>1
    <3> QED
      BY <3>2
  <2>4. t \in GatherStates
    BY <1>1, <2>2, <2>3 DEF GatherStates
  <2>5. t.done = d /\ t.buffer = x
    BY <2>3
  <2>6. /\ Len(SoFar(t)) = n + 1 /\ SoFar(t)[n + 1] = x
        /\ \A a \in 1 .. n : SoFar(t)[a] = d[a]
    BY <2>4, <2>5, SoFarFacts
  <2>7. (n + 1) - 1 = n
    BY <1>1
  <2>8. /\ Len(SoFar(t)) = Len(SoFar(s)) /\ SoFar(t)[Len(SoFar(s))] = Append(SoFar(s)[Len(SoFar(s))], w)
        /\ \A a \in 1 .. Len(SoFar(s)) - 1 : SoFar(t)[a] = SoFar(s)[a]
    <3> HIDE DEF n
    <3> QED
      BY <1>1, <2>6, <2>7 DEF x
  <2>9. GatherOn(s, t, i)
    BY <2>8 DEF GatherOn, w
  <2> QED
    BY <2>4, <2>9 DEF t
<1> QED
  BY <1>3, <1>4

\* So it is through the whole body.
LEMMA GatheringFacts ==
  ASSUME body \in Seq(Markdown!BodyLines)
  PROVE  LET state == Markdown!Gathering
         IN  /\ state[0] = [done |-> <<>>, buffer |-> <<>>, inside |-> FALSE]
             /\ \A i \in 0 .. Len(body) : state[i] \in GatherStates
             /\ \A i \in 1 .. Len(body) : GatherOn(state[i - 1], state[i], i)
<1> DEFINE n == Len(body)
           first == [done |-> <<>>, buffer |-> <<>>, inside |-> FALSE]
           step == [p \in (1 .. n) \X GatherStates |-> Markdown!Gather(p[2], p[1])]
           Is(f) == f = [j \in 0 .. n |-> IF j = 0 THEN first ELSE Markdown!Gather(f[j - 1], j)]
           state == Markdown!Gathering
<1>1. n \in Nat
  BY BodyFacts
<1>2. \A j \in 1 .. n, s \in GatherStates : Markdown!Gather(s, j) \in GatherStates /\ GatherOn(s, Markdown!Gather(s, j), j)
  BY GatherFacts
<1>3. first \in GatherStates
  <2>1. <<>> \in Seq(Paras) /\ <<>> \in Seq(Pieces) /\ FALSE \in BOOLEAN
    OBVIOUS
  <2> QED
    BY <2>1 DEF GatherStates
<1>4. state = CHOOSE g : Is(g)
  BY DEF Markdown!Gathering, n
<1> HIDE DEF n, first
<1>5. step \in [(1 .. n) \X GatherStates -> GatherStates]
  BY <1>2
<1>6. \A j \in 1 .. n, s \in GatherStates : step[<<j, s>>] = Markdown!Gather(s, j)
  OBVIOUS
<1> HIDE DEF step
<1>7. PICK f \in [0 .. n -> GatherStates] : f[0] = first /\ \A i \in 1 .. n : f[i] = step[<<i, f[i - 1]>>]
  <2>1. Stepped(n, GatherStates, first, step)
    BY <1>1, <1>3, <1>5, Recursion
  <2> QED
    BY <2>1 DEF Stepped
<1>8. \A j \in 1 .. n : f[j] = Markdown!Gather(f[j - 1], j)
  <2> SUFFICES ASSUME NEW j \in 1 .. n PROVE f[j] = Markdown!Gather(f[j - 1], j)
    OBVIOUS
  <2>1. j - 1 \in 0 .. n
    BY <1>1
  <2> QED
    BY <1>6, <1>7, <2>1
<1>9. Is(f)
  <2>1. \A j \in 0 .. n : f[j] = IF j = 0 THEN first ELSE Markdown!Gather(f[j - 1], j)
    BY <1>1, <1>7, <1>8
  <2> QED
    BY <2>1
<1>10. Is(state)
  <2> HIDE DEF Is, state
  <2> QED
    BY <1>4, <1>9
<1> HIDE DEF state
<1>11. state[0] = first /\ \A j \in 1 .. n : state[j] = Markdown!Gather(state[j - 1], j)
  BY <1>1, <1>10
<1>12. \A i \in Nat : i <= n => state[i] \in GatherStates
  <2> DEFINE S == {i \in Nat : i <= n => state[i] \in GatherStates}
  <2>1. S \in SUBSET Nat /\ 0 \in S
    BY <1>3, <1>11
  <2>2. ASSUME NEW m \in S PROVE m + 1 \in S
    <3> SUFFICES ASSUME m + 1 <= n PROVE state[m + 1] \in GatherStates
      OBVIOUS
    <3>1. m \in Nat /\ m <= n /\ m + 1 \in 1 .. n /\ (m + 1) - 1 = m
      BY <1>1
    <3>2. state[m] \in GatherStates
      BY <3>1
    <3>3. state[m + 1] = Markdown!Gather(state[m], m + 1)
      BY <1>11, <3>1
    <3> QED
      BY <1>2, <3>1, <3>2, <3>3
  <2> HIDE DEF S
  <2>3. S = Nat
    BY <2>1, <2>2, NatSetInduction
  <2> QED
    BY <2>3 DEF S
<1>13. ASSUME NEW i \in 1 .. n PROVE GatherOn(state[i - 1], state[i], i)
  <2>1. i - 1 \in Nat /\ i - 1 <= n
    BY <1>1
  <2> QED
    BY <1>2, <1>11, <1>12, <2>1
<1>14. \A i \in 0 .. n : state[i] \in GatherStates
  BY <1>1, <1>12
<1> QED
  BY <1>11, <1>13, <1>14 DEF n, state, first

\* Every line with something on it is in one paragraph, once.
Gathered(all, i) ==
  /\ \A a \in 1 .. Len(all) : \A x \in DOMAIN all[a] :
       all[a][x].line \in 1 .. i /\ all[a][x] = Markdown!Whole[all[a][x].line]
  /\ \A a, b \in 1 .. Len(all) : \A x \in DOMAIN all[a], y \in DOMAIN all[b] :
       all[a][x].line = all[b][y].line => a = b /\ x = y
  /\ \A j \in 1 .. i : body[j].length > 0 => \E a \in 1 .. Len(all) : \E x \in DOMAIN all[a] : all[a][x].line = j

\* That every line with something on it is in one paragraph, once, survives each line.
LEMMA GatheredStep ==
  ASSUME body \in Seq(Markdown!BodyLines), NEW i \in 1 .. Len(body), NEW s \in GatherStates, NEW t \in GatherStates,
         GatherOn(s, t, i), Gathered(SoFar(s), i - 1)
  PROVE  Gathered(SoFar(t), i)
<1> DEFINE all == SoFar(s)
           now == SoFar(t)
           n == Len(all)
           w == Markdown!Whole[i]
           Goal == Gathered(now, i)
<1>1. i \in Nat \ {0} /\ 1 .. i = (1 .. i - 1) \cup {i} /\ i \notin 1 .. i - 1
  BY BodyFacts
<1>2. n \in Nat \ {0} /\ all \in Seq(Seq(Pieces)) /\ \A a \in 1 .. n : all[a] \in Seq(Pieces)
  <2>1. Len(s.done) \in Nat /\ n = Len(s.done) + 1 /\ all \in Seq(Seq(Pieces))
    BY SoFarFacts
  <2> HIDE DEF all
  <2> QED
    BY <2>1
<1>3. w.line = i /\ w \in Pieces
  <2>1. w = [line |-> i, from |-> 0, length |-> body[i].length] /\ w \in Pieces
    BY BodyFacts
  <2> HIDE DEF w
  <2> QED
    BY <2>1
<1>4. body[i].kind = "blank" => ~(body[i].length > 0)
  BY BodyFacts
<1>5. /\ \A a \in 1 .. n : \A x \in DOMAIN all[a] : all[a][x].line \in 1 .. i - 1 /\ all[a][x] = Markdown!Whole[all[a][x].line]
      /\ \A a, b \in 1 .. n : \A x \in DOMAIN all[a], y \in DOMAIN all[b] : all[a][x].line = all[b][y].line => a = b /\ x = y
      /\ \A j \in 1 .. i - 1 : body[j].length > 0 => \E a \in 1 .. n : \E x \in DOMAIN all[a] : all[a][x].line = j
  BY DEF Gathered
<1>6. \/ body[i].kind = "blank" /\ now = all
      \/ body[i].kind = "blank" /\ now = Append(all, <<>>)
      \/ Len(now) = n /\ now[n] = Append(all[n], w) /\ \A a \in 1 .. n - 1 : now[a] = all[a]
  BY DEF GatherOn
<1> HIDE DEF all, now, w
<1>7. CASE body[i].kind = "blank" /\ now = all
  <2>1. \A j \in 1 .. i : body[j].length > 0 => j \in 1 .. i - 1
    BY <1>1, <1>4, <1>7
  <2>2. \A a \in 1 .. n : \A x \in DOMAIN all[a] : all[a][x].line \in 1 .. i /\ all[a][x] = Markdown!Whole[all[a][x].line]
    BY <1>1, <1>5
  <2>3. Gathered(all, i)
    BY <1>5, <2>1, <2>2 DEF Gathered
  <2> QED
    BY <1>7, <2>3 DEF now
<1>8. CASE body[i].kind = "blank" /\ now = Append(all, <<>>)
  <2>1. Len(now) = n + 1 /\ now[n + 1] = <<>> /\ \A a \in 1 .. n : now[a] = all[a]
    BY <1>2, <1>8
  <2>2. \A a \in 1 .. n + 1 : \A x \in DOMAIN now[a] : a \in 1 .. n /\ x \in DOMAIN all[a] /\ now[a] = all[a]
    <3> SUFFICES ASSUME NEW a \in 1 .. n + 1, NEW x \in DOMAIN now[a] PROVE a \in 1 .. n /\ x \in DOMAIN all[a] /\ now[a] = all[a]
      OBVIOUS
    <3>1. a # n + 1
      BY <2>1
    <3>2. a \in 1 .. n
      BY <1>2, <3>1
    <3> QED
      BY <2>1, <3>2
  <2>3. \A a \in 1 .. n : a \in 1 .. n + 1 /\ now[a] = all[a]
    BY <1>2, <2>1
  <2>4. \A j \in 1 .. i : body[j].length > 0 => j \in 1 .. i - 1
    BY <1>1, <1>4, <1>8
  <2>5. \A a \in 1 .. n + 1 : \A x \in DOMAIN now[a] : now[a][x].line \in 1 .. i /\ now[a][x] = Markdown!Whole[now[a][x].line]
    BY <1>1, <1>5, <2>2
  <2>6. \A a, b \in 1 .. n + 1 : \A x \in DOMAIN now[a], y \in DOMAIN now[b] : now[a][x].line = now[b][y].line => a = b /\ x = y
    BY <1>5, <2>2, SMTT(30)
  <2>7. \A j \in 1 .. i : body[j].length > 0 => \E a \in 1 .. n + 1 : \E x \in DOMAIN now[a] : now[a][x].line = j
    BY <1>5, <2>3, <2>4
  <2> QED
    BY <2>1, <2>5, <2>6, <2>7 DEF Gathered, now
<1>9. CASE Len(now) = n /\ now[n] = Append(all[n], w) /\ \A a \in 1 .. n - 1 : now[a] = all[a]
  <2> DEFINE last == all[n]
             c == Len(last)
             longer == Append(last, w)
  <2>1. last \in Seq(Pieces) /\ n \in 1 .. n
    BY <1>2
  <2> HIDE DEF last
  <2>2. /\ c \in Nat /\ DOMAIN last = 1 .. c /\ DOMAIN longer = 1 .. c + 1 /\ longer[c + 1] = w
        /\ \A x \in 1 .. c : longer[x] = last[x]
    BY <1>3, <2>1
  <2>3. now[n] = longer
    BY <1>9 DEF last
  <2> HIDE DEF longer, c
  <2>4. \A a \in 1 .. n : a # n => now[a] = all[a]
    <3> SUFFICES ASSUME NEW a \in 1 .. n, a # n PROVE now[a] = all[a]
      OBVIOUS
    <3>1. a \in 1 .. n - 1
      BY <1>2
    <3> QED
      BY <1>9, <3>1
  <2>5. ASSUME NEW a \in 1 .. n, NEW x \in DOMAIN now[a]
        PROVE  \/ x \in DOMAIN all[a] /\ now[a][x] = all[a][x]
               \/ a = n /\ x = c + 1 /\ now[a][x] = w
    <3>1. CASE a # n
      BY <2>4, <2>5, <3>1
    <3>2. CASE a = n
      <4>1. x \in 1 .. c + 1
        BY <2>2, <2>3, <2>5, <3>2
      <4>2. CASE x = c + 1
        BY <2>2, <2>3, <3>2, <4>2
      <4>3. CASE x # c + 1
        <5>1. x \in 1 .. c
          BY <2>2, <4>1, <4>3
        <5> QED
          BY <2>2, <2>3, <3>2, <5>1 DEF last
      <4> QED
        BY <4>2, <4>3
    <3> QED
      BY <3>1, <3>2
  <2>6. ASSUME NEW a \in 1 .. n, NEW x \in DOMAIN all[a] PROVE x \in DOMAIN now[a] /\ now[a][x] = all[a][x]
    <3>1. CASE a # n
      BY <2>4, <2>6, <3>1
    <3>2. CASE a = n
      <4>1. x \in 1 .. c
        BY <2>2, <2>6, <3>2 DEF last
      <4>2. x \in 1 .. c + 1
        BY <2>2, <4>1
      <4> QED
        BY <2>2, <2>3, <3>2, <4>1, <4>2 DEF last
    <3> QED
      BY <3>1, <3>2
  <2>7. c + 1 \in DOMAIN now[n] /\ now[n][c + 1] = w
    <3>1. c + 1 \in 1 .. c + 1
      BY <2>2
    <3> QED
      BY <2>2, <2>3, <3>1
  <2>8. w = Markdown!Whole[i]
    BY DEF w
  <2>9. \A a \in 1 .. n : \A x \in DOMAIN now[a] : now[a][x].line \in 1 .. i /\ now[a][x] = Markdown!Whole[now[a][x].line]
    <3> SUFFICES ASSUME NEW a \in 1 .. n, NEW x \in DOMAIN now[a]
                 PROVE  now[a][x].line \in 1 .. i /\ now[a][x] = Markdown!Whole[now[a][x].line]
      OBVIOUS
    <3>1. CASE x \in DOMAIN all[a] /\ now[a][x] = all[a][x]
      BY <1>1, <1>5, <3>1
    <3>2. CASE now[a][x] = w
      BY <1>1, <1>3, <2>8, <3>2
    <3> QED
      BY <2>5, <3>1, <3>2
  <2>10. \A a, b \in 1 .. n : \A x \in DOMAIN now[a], y \in DOMAIN now[b] : now[a][x].line = now[b][y].line => a = b /\ x = y
    <3> SUFFICES ASSUME NEW a \in 1 .. n, NEW b \in 1 .. n, NEW x \in DOMAIN now[a], NEW y \in DOMAIN now[b],
                        now[a][x].line = now[b][y].line
                 PROVE  a = b /\ x = y
      OBVIOUS
    <3>1. x \in DOMAIN all[a] /\ now[a][x] = all[a][x] => now[a][x].line # i
      BY <1>1, <1>5
    <3>2. y \in DOMAIN all[b] /\ now[b][y] = all[b][y] => now[b][y].line # i
      BY <1>1, <1>5
    <3>3. CASE x \in DOMAIN all[a] /\ now[a][x] = all[a][x]
      <4>1. now[b][y] # w
        BY <1>3, <3>1, <3>3
      <4>2. y \in DOMAIN all[b] /\ now[b][y] = all[b][y]
        BY <2>5, <4>1
      <4> QED
        BY <1>5, <3>3, <4>2
    <3>4. CASE a = n /\ x = c + 1 /\ now[a][x] = w
      <4>1. b = n /\ y = c + 1
        BY <1>3, <2>5, <3>2, <3>4
      <4> QED
        BY <3>4, <4>1
    <3> QED
      BY <2>5, <3>3, <3>4
  <2>11. ASSUME NEW j \in 1 .. i, body[j].length > 0 PROVE \E a \in 1 .. n : \E x \in DOMAIN now[a] : now[a][x].line = j
    <3>1. CASE j = i
      BY <1>3, <2>1, <2>7, <3>1
    <3>2. CASE j # i
      <4>1. j \in 1 .. i - 1
        BY <1>1, <3>2
      <4> QED
        BY <1>5, <2>6, <2>11, <4>1
    <3> QED
      BY <3>1, <3>2
  <2> QED
    BY <1>9, <2>9, <2>10, <2>11 DEF Gathered, now
<1> QED
  BY <1>6, <1>7, <1>8, <1>9 DEF now

\* The paragraphs of a body: each has lines of it, none two, and those with something on them are all there.
LEMMA ParagraphsFacts ==
  ASSUME body \in Seq(Markdown!BodyLines)
  PROVE  Markdown!Paragraphs \in Seq(Paras) /\ Gathered(Markdown!Paragraphs, Len(body))
<1> DEFINE n == Len(body)
           state == Markdown!Gathering
           S == {k \in Nat : k <= n => Gathered(SoFar(state[k]), k)}
           end == state[n]
           all == SoFar(end)
           d == end.done
           P == Markdown!Paragraphs
<1>1. n \in Nat
  BY BodyFacts
<1>2. /\ state[0] = [done |-> <<>>, buffer |-> <<>>, inside |-> FALSE]
      /\ \A k \in 0 .. n : state[k] \in GatherStates
      /\ \A k \in 1 .. n : GatherOn(state[k - 1], state[k], k)
  BY GatheringFacts
<1> HIDE DEF state
<1>3. S \in SUBSET Nat
  OBVIOUS
<1>4. 0 \in S
  <2>1. SoFar(state[0]) = <<<<>>>>
    <3>1. state[0].done = <<>> /\ state[0].buffer = <<>>
      BY <1>2
    <3>2. Append(<<>>, <<>>) = <<<<>>>>
      OBVIOUS
    <3> QED
      BY <3>1, <3>2 DEF SoFar
  <2>2. Len(<<<<>>>>) = 1 /\ 1 .. 1 = {1} /\ 1 .. 0 = {} /\ <<<<>>>>[1] = <<>> /\ DOMAIN <<>> = {}
    OBVIOUS
  <2>3. \A a \in 1 .. Len(<<<<>>>>) : \A x \in DOMAIN <<<<>>>>[a] : FALSE
    BY <2>2
  <2>4. Gathered(<<<<>>>>, 0)
    BY <2>2, <2>3 DEF Gathered
  <2> QED
    BY <2>1, <2>4
<1>5. ASSUME NEW k \in S PROVE k + 1 \in S
  <2>0. k \in Nat /\ k + 1 \in Nat
    BY <1>3
  <2> SUFFICES ASSUME k + 1 <= n PROVE Gathered(SoFar(state[k + 1]), k + 1)
    BY <2>0
  <2> DEFINE j == k + 1
             s == state[k]
             t == state[j]
  <2>1. k <= n /\ k \in 0 .. n /\ j \in 0 .. n /\ j \in 1 .. n /\ j - 1 = k
    BY <1>1, <2>0
  <2>2. Gathered(SoFar(s), k)
    BY <2>0, <2>1
  <2>3. s \in GatherStates /\ t \in GatherStates
    BY <1>2, <2>1
  <2>4. GatherOn(s, t, j)
    <3>1. GatherOn(state[j - 1], state[j], j)
      BY <1>2, <2>1
    <3> HIDE DEF j
    <3> QED
      BY <2>1, <3>1
  <2> HIDE DEF j, s, t
  <2>5. j \in 1 .. Len(body) /\ Gathered(SoFar(s), j - 1)
    BY <2>1, <2>2
  <2> HIDE DEF n
  <2>6. Gathered(SoFar(t), j)
    BY <2>3, <2>4, <2>5, GatheredStep
  <2> QED
    BY <2>6 DEF t, j
<1>6. S = Nat
  <2> HIDE DEF S
  <2> QED
    BY <1>3, <1>4, <1>5, NatSetInduction
<1>7. Gathered(all, n)
  <2>1. n \in S
    BY <1>1, <1>6
  <2> HIDE DEF n
  <2> QED
    BY <1>1, <2>1
<1>8. end \in GatherStates
  BY <1>1, <1>2
<1>9. P = IF end.buffer = <<>> THEN d ELSE all
  BY DEF Markdown!Paragraphs, SoFar, state
<1> HIDE DEF S, n, end, P
<1>10. /\ d \in Seq(Paras) /\ end.buffer \in Seq(Pieces) /\ Len(d) \in Nat /\ Len(all) = Len(d) + 1
       /\ all[Len(d) + 1] = end.buffer /\ all = Append(d, end.buffer)
       /\ \A a \in 1 .. Len(d) : all[a] = d[a]
  BY <1>8, SoFarFacts DEF SoFar
<1> HIDE DEF all, d
<1>11. CASE end.buffer = <<>>
  <2>1. P = d
    BY <1>9, <1>11
  <2> DEFINE m == Len(d)
  <2>2. \A a \in 1 .. m : a \in 1 .. Len(all) /\ all[a] = d[a]
    BY <1>10
  <2>3. \A a \in 1 .. Len(all) : \A x \in DOMAIN all[a] : a \in 1 .. m /\ all[a] = d[a]
    <3> SUFFICES ASSUME NEW a \in 1 .. Len(all), NEW x \in DOMAIN all[a] PROVE a \in 1 .. m /\ all[a] = d[a]
      OBVIOUS
    <3>1. DOMAIN <<>> = {}
      OBVIOUS
    <3>2. a # m + 1
      BY <1>10, <1>11, <3>1
    <3>3. a \in 1 .. m
      BY <1>10, <3>2
    <3> QED
      BY <1>10, <3>3
  <2> HIDE DEF m
  <2>4. \A a \in 1 .. m : \A x \in DOMAIN d[a] : d[a][x].line \in 1 .. n /\ d[a][x] = Markdown!Whole[d[a][x].line]
    <3> SUFFICES ASSUME NEW a \in 1 .. m, NEW x \in DOMAIN d[a] PROVE d[a][x].line \in 1 .. n /\ d[a][x] = Markdown!Whole[d[a][x].line]
      OBVIOUS
    <3>1. a \in 1 .. Len(all) /\ all[a] = d[a]
      BY <2>2
    <3> QED
      BY <1>7, <3>1 DEF Gathered
  <2>5. ASSUME NEW a \in 1 .. m, NEW b \in 1 .. m, NEW x \in DOMAIN d[a], NEW y \in DOMAIN d[b], d[a][x].line = d[b][y].line
        PROVE  a = b /\ x = y
    <3>1. a \in 1 .. Len(all) /\ all[a] = d[a] /\ b \in 1 .. Len(all) /\ all[b] = d[b]
      BY <2>2
    <3> QED
      BY <1>7, <2>5, <3>1 DEF Gathered
  <2>6. ASSUME NEW j \in 1 .. n, body[j].length > 0 PROVE \E a \in 1 .. m : \E x \in DOMAIN d[a] : d[a][x].line = j
    <3>1. PICK a \in 1 .. Len(all) : \E x \in DOMAIN all[a] : all[a][x].line = j
      BY <1>7, <2>6 DEF Gathered
    <3>2. a \in 1 .. m /\ all[a] = d[a]
      BY <2>3, <3>1
    <3> QED
      BY <3>1, <3>2
  <2>7. Gathered(d, n)
    BY <2>4, <2>5, <2>6 DEF Gathered, m
  <2> QED
    BY <1>10, <2>1, <2>7 DEF P, n
<1>12. CASE end.buffer # <<>>
  <2>1. P = all
    BY <1>9, <1>12
  <2>2. end.buffer \in Paras
    BY <1>10, <1>12 DEF Paras
  <2>3. all \in Seq(Paras)
    BY <1>10, <2>2
  <2> QED
    BY <1>7, <2>1, <2>3 DEF P, n
<1> QED
  BY <1>11, <1>12

\* How many pieces a line is cut into.
LEMMA CutNumber ==
  ASSUME NEW m \in Nat \ {0}, NEW x \in Nat \ {0}
  PROVE  LET n == (x + m - 1) \div m
         IN  n \in Nat \ {0} /\ x <= n * m /\ (n - 1) * m < x
<1> DEFINE y == x + m - 1
           n == y \div m
           r == y % m
<1>1. y \in Nat /\ y >= m
  OBVIOUS
<1> HIDE DEF y
<1>2. n \in Int /\ r \in 0 .. m - 1 /\ y = m * n + r
  BY <1>1
<1> HIDE DEF n, r
<1>3. y < m * n + m /\ m * n <= y
  BY <1>1, <1>2
<1>4. n >= 1
  <2> SUFFICES ASSUME n <= 0 PROVE FALSE
    BY <1>2
  <2>1. m * n <= 0
    BY <1>2
  <2> QED
    BY <1>1, <1>2, <2>1
<1>5. m * n = n * m /\ (n - 1) * m = n * m - m
  BY <1>2
<1>6. y = x + m - 1
  BY DEF y
<1>7. n * m \in Int /\ (n - 1) * m \in Int
  BY <1>2
<1>8. x <= n * m /\ (n - 1) * m < x
  BY <1>1, <1>2, <1>3, <1>5, <1>6, <1>7
<1> QED
  BY <1>2, <1>4, <1>8 DEF n, y

\* The piece of a line a character is in.
LEMMA CutPlace ==
  ASSUME NEW m \in Nat \ {0}, NEW c \in Nat
  PROVE  \E k \in Nat \ {0} : (k - 1) * m <= c /\ c < k * m
<1> DEFINE U == {k \in Nat : c < k * m}
<1>1. c + 1 \in U
  <2>1. (c + 1) * m >= c + 1
    OBVIOUS
  <2> QED
    BY <2>1
<1>2. PICK k \in U : \A j \in U : k <= j
  <2>1. U \in SUBSET Nat /\ U # {}
    BY <1>1
  <2> HIDE DEF U
  <2> QED
    BY <2>1, Least
<1>3. k \in Nat /\ c < k * m
  BY <1>2
<1>4. k # 0
  BY <1>3
<1>5. (k - 1) * m <= c
  <2> SUFFICES ASSUME c < (k - 1) * m PROVE FALSE
    <3>1. (k - 1) * m \in Int
      BY <1>3
    <3> QED
      BY <3>1
  <2>1. k - 1 \in U
    BY <1>3, <1>4
  <2> HIDE DEF U
  <2> QED
    BY <1>2, <1>3, <2>1
<1> QED
  BY <1>3, <1>4, <1>5

Holds(piece, i, c) == piece.line = i /\ piece.from <= c /\ c < piece.from + piece.length

\* A line cut at the limit: no slice exceeds it, none is there twice, every character is in one.
LEMMA CutLineFacts ==
  ASSUME NEW piece \in Pieces
  PROVE  LET cut == Markdown!CutLine(piece)
         IN  /\ cut \in Seq(Pieces) /\ cut # <<>> /\ Distinct(cut)
             /\ \A k \in DOMAIN cut : cut[k].line = piece.line /\ cut[k].length <= MaxChars
             /\ \A c \in 0 .. piece.length - 1 : \E k \in DOMAIN cut : Holds(cut[k], piece.line, c)
<1> DEFINE M == MaxChars
           x == piece.length
           n == IF x = 0 THEN 1 ELSE (x + M - 1) \div M
           len(k) == IF k < n THEN M ELSE x - (k - 1) * M
           cut == Markdown!CutLine(piece)
<1>1. M \in Nat \ {0} /\ x \in Nat /\ piece.line \in Nat
  BY MarkdownAssumption DEF Pieces
<1>2. n \in Nat \ {0} /\ x <= n * M /\ (x # 0 => (n - 1) * M < x) /\ (x = 0 => n = 1)
  <2>1. CASE x = 0
    BY <1>1, <2>1
  <2>2. CASE x # 0
    BY <1>1, <2>2, CutNumber
  <2> QED
    BY <2>1, <2>2
<1>3. cut = [k \in 1 .. n |-> [line |-> piece.line, from |-> (k - 1) * M, length |-> len(k)]]
  BY DEF Markdown!CutLine, Markdown!Piece
<1> HIDE DEF cut, M, x, n
<1>4. ASSUME NEW k \in 1 .. n PROVE (k - 1) * M \in Nat /\ len(k) \in Nat /\ len(k) <= M
  <2>1. (k - 1) * M \in Nat
    <3>1. k - 1 \in Nat
      BY <1>2
    <3> QED
      BY <1>1, <3>1
  <2>2. CASE k < n
    BY <1>1, <2>1, <2>2
  <2>3. CASE ~(k < n)
    <3>1. k = n
      BY <1>2, <2>3
    <3>2. n * M = (n - 1) * M + M
      BY <1>1, <1>2
    <3>3. len(k) = x - (n - 1) * M
      BY <3>1
    <3>4. (n - 1) * M <= x
      <4>1. CASE x = 0
        BY <1>1, <1>2, <4>1
      <4>2. CASE x # 0
        BY <1>1, <1>2, <2>1, <3>1, <4>2
      <4> QED
        BY <4>1, <4>2
    <3>5. (n - 1) * M \in Nat
      BY <2>1, <3>1
    <3> HIDE DEF len
    <3> QED
      BY <1>1, <1>2, <2>1, <3>2, <3>3, <3>4, <3>5
  <2> QED
    BY <2>2, <2>3
<1> HIDE DEF len
<1>5. \A k \in 1 .. n : cut[k] = [line |-> piece.line, from |-> (k - 1) * M, length |-> len(k)]
  <2> DEFINE at(k) == [line |-> piece.line, from |-> (k - 1) * M, length |-> len(k)]
  <2>1. cut = [k \in 1 .. n |-> at(k)]
    BY <1>3 DEF len
  <2> HIDE DEF at
  <2>2. \A k \in 1 .. n : cut[k] = at(k)
    BY <2>1
  <2> QED
    BY <2>2 DEF at
<1>6. \A k \in 1 .. n : cut[k] \in Pieces /\ cut[k].line = piece.line /\ cut[k].from = (k - 1) * M /\ cut[k].length = len(k)
  <2> SUFFICES ASSUME NEW k \in 1 .. n
               PROVE  cut[k] \in Pieces /\ cut[k].line = piece.line /\ cut[k].from = (k - 1) * M /\ cut[k].length = len(k)
    OBVIOUS
  <2> DEFINE from == (k - 1) * M
             length == len(k)
             i == piece.line
  <2>1. from \in Nat /\ length \in Nat /\ i \in Nat
    BY <1>1, <1>4
  <2>2. cut[k] = [line |-> i, from |-> from, length |-> length]
    BY <1>5
  <2> HIDE DEF from, length, i
  <2>3. cut[k] \in Pieces /\ cut[k].line = i /\ cut[k].from = from /\ cut[k].length = length
    BY <2>1, <2>2 DEF Pieces
  <2> QED
    BY <2>3 DEF from, length, i
<1>7. cut \in Seq(Pieces) /\ Len(cut) = n /\ DOMAIN cut = 1 .. n /\ cut # <<>>
  <2>1. cut \in [1 .. n -> Pieces]
    <3>1. DOMAIN cut = 1 .. n /\ cut = [k \in 1 .. n |-> cut[k]]
      BY <1>3
    <3> QED
      BY <1>6, <3>1
  <2>2. cut \in Seq(Pieces) /\ Len(cut) = n /\ DOMAIN cut = 1 .. n
    BY <1>2, <2>1
  <2> QED
    BY <1>2, <2>2
<1>8. Distinct(cut)
  <2> SUFFICES ASSUME NEW a \in 1 .. n, NEW b \in 1 .. n, a # b PROVE cut[a] # cut[b]
    BY <1>7 DEF Distinct
  <2>1. (a - 1) * M # (b - 1) * M
    <3>1. (a - 1) * M - (b - 1) * M = (a - b) * M
      BY <1>1, <1>2
    <3>2. (a - b) * M # 0
      <4>1. CASE a > b
        BY <1>1, <1>2, <4>1
      <4>2. CASE a < b
        BY <1>1, <1>2, <4>2
      <4> QED
        BY <1>2, <4>1, <4>2
    <3> QED
      BY <1>1, <1>2, <1>4, <3>1, <3>2
  <2> QED
    BY <1>6, <2>1
<1>9. ASSUME NEW c \in 0 .. x - 1 PROVE \E k \in 1 .. n : Holds(cut[k], piece.line, c)
  <2>1. c \in Nat /\ c < x /\ x # 0
    BY <1>1
  <2>2. PICK k \in Nat \ {0} : (k - 1) * M <= c /\ c < k * M
    BY <1>1, <2>1, CutPlace
  <2>3. k <= n
    <3> SUFFICES ASSUME k - 1 >= n PROVE FALSE
      BY <1>2
    <3>1. (k - 1) * M >= n * M
      BY <1>1, <1>2
    <3>2. (k - 1) * M \in Int /\ n * M \in Int
      BY <1>1, <1>2
    <3> QED
      BY <1>1, <1>2, <2>1, <2>2, <3>1, <3>2
  <2>4. k \in 1 .. n
    BY <1>2, <2>3
  <2>5. c < (k - 1) * M + len(k)
    <3>1. CASE k < n
      <4>1. len(k) = M
        BY <3>1 DEF len
      <4>2. (k - 1) * M + M = k * M
        BY <1>1
      <4> QED
        BY <2>2, <4>1, <4>2
    <3>2. CASE ~(k < n)
      <4>1. len(k) = x - (k - 1) * M
        BY <3>2 DEF len
      <4> QED
        BY <1>1, <1>4, <2>1, <2>4, <4>1
    <3> QED
      BY <3>1, <3>2
  <2>6. Holds(cut[k], piece.line, c)
    BY <1>6, <2>2, <2>4, <2>5 DEF Holds
  <2> QED
    BY <2>4, <2>6
<1>10. \A k \in 1 .. n : cut[k].line = piece.line /\ cut[k].length <= M
  BY <1>4, <1>6
<1> QED
  BY <1>7, <1>8, <1>9, <1>10 DEF cut, M, x

\* The first two of a sequence.
LEMMA FirstTwo ==
  ASSUME NEW q \in Seq(Pieces), Len(q) >= 2
  PROVE  SubSeq(q, 1, 2) = <<q[1], q[2]>>
<1> DEFINE x == q[1]
           y == q[2]
           s == SubSeq(q, 1, 2)
<1>1. x \in Pieces /\ y \in Pieces
  OBVIOUS
<1>2. s \in Seq(Pieces) /\ Len(s) = 2 /\ s[1] = x /\ s[2] = y
  OBVIOUS
<1>3. <<x, y>> \in Seq(Pieces) /\ Len(<<x, y>>) = 2 /\ <<x, y>>[1] = x /\ <<x, y>>[2] = y
  BY <1>1
<1> HIDE DEF x, y, s
<1>4. 1 .. 2 = {1, 2}
  OBVIOUS
<1> DEFINE t == <<x, y>>
<1>5. t \in Seq(Pieces) /\ Len(t) = 2 /\ \A i \in 1 .. 2 : s[i] = t[i]
  BY <1>2, <1>3, <1>4
<1> HIDE DEF t
<1>6. s = t
  BY <1>2, <1>5
<1> QED
  BY <1>6 DEF s, t, x, y

\* A header is the first lines of its paragraph, is shorter than the limit, and is that of any piece it is put on.
LEMMA HeaderFacts ==
  ASSUME NEW p \in Paras
  PROVE  LET h == Markdown!Header(p)
         IN  /\ h \in Seq(Pieces) /\ Len(h) \in Nat /\ Len(h) <= Len(p) /\ (h = <<>> <=> Len(h) = 0)
             /\ \A k \in 1 .. Len(h) : h[k] = p[k]
             /\ h # <<>> => Markdown!Length(h) \in 1 .. MaxChars - 1
             /\ h # <<>> => \A x \in Pieces : Markdown!Header(Append(h, x)) = h
<1> DEFINE h == Markdown!Header(p)
           Table(q) == Len(q) >= 2 /\ body[q[1].line].kind = "row" /\ body[q[2].line].kind = "separator"
                       /\ 2 * (q[1].length + q[2].length + 2) < MaxChars
<1>1. p \in Seq(Pieces) /\ Len(p) \in Nat /\ \A k \in 1 .. Len(p) : p[k] \in Pieces
  BY DEF Paras
<1>2. \A q : Markdown!Header(q) = IF Table(q) THEN SubSeq(q, 1, 2) ELSE <<>>
  BY DEF Markdown!Header
<1>3. CASE ~Table(p)
  <2>1. h = <<>>
    BY <1>2, <1>3
  <2>2. <<>> \in Seq(Pieces) /\ Len(<<>>) = 0 /\ 1 .. 0 = {}
    OBVIOUS
  <2> HIDE DEF h, Table
  <2> QED
    BY <1>1, <2>1, <2>2 DEF h
<1>4. CASE Table(p)
  <2> DEFINE a == p[1]
             b == p[2]
  <2>1. Len(p) >= 2 /\ a \in Pieces /\ b \in Pieces
    BY <1>1, <1>4
  <2>2. SubSeq(p, 1, 2) = <<a, b>>
    BY <1>1, <2>1, FirstTwo
  <2>3. h = <<a, b>>
    <3> HIDE DEF Table
    <3> QED
      BY <1>2, <1>4, <2>2
  <2>4. a.length \in Nat /\ b.length \in Nat
    BY <2>1 DEF Pieces
  <2>5. 2 * (a.length + b.length + 2) < MaxChars /\ body[a.line].kind = "row" /\ body[b.line].kind = "separator"
    BY <1>4
  <2> HIDE DEF a, b, h
  <2>6. /\ <<a, b>> \in Seq(Pieces) /\ Len(<<a, b>>) = 2 /\ <<a, b>> # <<>>
        /\ <<a, b>>[1] = a /\ <<a, b>>[2] = b /\ 1 .. 2 = {1, 2}
    BY <2>1
  <2>7. Markdown!Length(<<a, b>>) = a.length + b.length + 1
    <3>1. <<>> \in Seq(Pieces) /\ <<a>> \in Seq(Pieces) /\ <<a>> # <<>>
      BY <2>1
    <3>2. Append(<<>>, a) = <<a>> /\ Append(<<a>>, b) = <<a, b>>
      <4>1. Append(<<>>, a) = <<a>>
        BY <2>1
      <4> DEFINE r == <<a>>
                 s == Append(r, b)
                 t == <<a, b>>
      <4>2. r \in Seq(Pieces) /\ Len(r) = 1 /\ r[1] = a
        BY <2>1
      <4> HIDE DEF r
      <4>3. s \in Seq(Pieces) /\ Len(s) = 2 /\ s[1] = a /\ s[2] = b
        <5>1. /\ s \in Seq(Pieces) /\ Len(s) = Len(r) + 1 /\ s[Len(r) + 1] = b
              /\ \A i \in 1 .. Len(r) : s[i] = r[i]
          <6>1. r \in Seq(Pieces) /\ b \in Pieces
            BY <2>1, <4>2
          <6>2. /\ Append(r, b) \in Seq(Pieces) /\ Len(Append(r, b)) = Len(r) + 1 /\ Append(r, b)[Len(r) + 1] = b
                /\ \A i \in 1 .. Len(r) : Append(r, b)[i] = r[i]
            BY <6>1, AppendFacts
          <6> QED
            BY <6>2
        <5> HIDE DEF s
        <5>2. 1 \in 1 .. 1 /\ 1 + 1 = 2
          OBVIOUS
        <5> QED
          BY <4>2, <5>1, <5>2
      <4>4. t \in Seq(Pieces) /\ Len(t) = 2 /\ t[1] = a /\ t[2] = b
        BY <2>6
      <4> HIDE DEF s, t
      <4>5. \A i \in 1 .. 2 : s[i] = t[i]
        BY <2>6, <4>3, <4>4
      <4>6. s = t
        BY <4>3, <4>4, <4>5
      <4> QED
        BY <4>1, <4>6 DEF r, s, t
    <3>3. Markdown!Length(<<a>>) = a.length
      <4>1. Markdown!Length(<<>>) = 0
        BY <3>1, LengthFacts
      <4>2. Markdown!Length(Append(<<>>, a)) = Markdown!Length(<<>>) + a.length + 0
        BY <2>1, <3>1, LengthFacts
      <4>3. Markdown!Length(<<a>>) = 0 + a.length + 0
        BY <3>2, <4>1, <4>2
      <4> QED
        BY <2>4, <4>3
    <3>4. Markdown!Length(Append(<<a>>, b)) = Markdown!Length(<<a>>) + b.length + 1
      <4> DEFINE r == <<a>>
      <4>1. r \in Seq(Pieces) /\ r # <<>>
        BY <3>1
      <4> HIDE DEF r
      <4>2. Markdown!Length(Append(r, b)) = Markdown!Length(r) + b.length + 1
        BY <2>1, <4>1, LengthFacts
      <4> QED
        BY <4>2 DEF r
    <3>5. Markdown!Length(<<a, b>>) = a.length + b.length + 1
      BY <3>2, <3>3, <3>4
    <3> QED
      BY <3>5
  <2>8. Markdown!Length(<<a, b>>) \in 1 .. MaxChars - 1
    <3>1. MaxChars \in Nat
      BY MarkdownAssumption
    <3> QED
      BY <2>4, <2>5, <2>7, <3>1
  <2>9. ASSUME NEW x \in Pieces PROVE Markdown!Header(Append(<<a, b>>, x)) = <<a, b>>
    <3> DEFINE q == Append(<<a, b>>, x)
    <3>1. q \in Seq(Pieces) /\ Len(q) = 3 /\ q[1] = a /\ q[2] = b
      BY <2>1, <2>6
    <3> HIDE DEF q
    <3>2. SubSeq(q, 1, 2) = <<a, b>>
      <4>1. SubSeq(q, 1, 2) = <<q[1], q[2]>>
        BY <3>1, FirstTwo
      <4> QED
        BY <3>1, <4>1
    <3>3. Table(q)
      BY <2>5, <3>1
    <3> HIDE DEF Table
    <3>4. Markdown!Header(q) = <<a, b>>
      BY <1>2, <3>2, <3>3
    <3> QED
      BY <3>4 DEF q
  <2>10. \A k \in 1 .. 2 : <<a, b>>[k] = p[k]
    BY <2>6 DEF a, b
  <2> HIDE DEF Table
  <2> QED
    BY <2>1, <2>3, <2>6, <2>8, <2>9, <2>10 DEF h
<1> QED
  BY <1>3, <1>4

\* A paragraph has whole lines, none twice.
WholeLines(p) == p \in Paras /\ \A x, y \in DOMAIN p : p[x].line = p[y].line => x = y

\* The lines of a paragraph below its header, cut at the limit.
LEMMA SlicesFacts ==
  ASSUME NEW p, WholeLines(p)
  PROVE  LET h == Markdown!Header(p)
             slices == Markdown!Slices(p)
         IN  /\ slices \in Seq(Pieces) /\ Distinct(slices)
             /\ \A k \in DOMAIN slices : slices[k].length <= MaxChars /\ \E x \in DOMAIN p : slices[k].line = p[x].line
             /\ \A x \in DOMAIN p : x > Len(h) =>
                  \A c \in 0 .. p[x].length - 1 : \E k \in DOMAIN slices : Holds(slices[k], p[x].line, c)
             /\ Len(p) > Len(h) => slices # <<>>
<1> DEFINE m == Len(Markdown!Header(p))
           n == Len(p)
           cut(j) == Markdown!CutLine(p[j + m])
           seqs == [j \in 1 .. n - m |-> cut(j)]
           slices == Markdown!Slices(p)
           In(s) == Markdown!ToSet(s)
<1>1. p \in Seq(Pieces) /\ n \in Nat /\ DOMAIN p = 1 .. n /\ \A x \in 1 .. n : p[x] \in Pieces
  BY DEF WholeLines, Paras
<1>2. m \in Nat /\ m <= n
  <2>1. p \in Paras
    BY DEF WholeLines
  <2> QED
    BY <2>1, HeaderFacts
<1>3. slices = Markdown!FlattenSeq(seqs)
  BY DEF Markdown!Slices
<1> HIDE DEF m, n, slices
<1>4. \A j \in 1 .. n - m : j + m \in 1 .. n
  BY <1>1, <1>2
<1>5. ASSUME NEW j \in 1 .. n - m
      PROVE  /\ cut(j) \in Seq(Pieces) /\ cut(j) # <<>> /\ Distinct(cut(j))
             /\ \A k \in DOMAIN cut(j) : cut(j)[k].line = p[j + m].line /\ cut(j)[k].length <= MaxChars
             /\ \A c \in 0 .. p[j + m].length - 1 : \E k \in DOMAIN cut(j) : Holds(cut(j)[k], p[j + m].line, c)
  <2>1. p[j + m] \in Pieces
    BY <1>1, <1>4
  <2> DEFINE piece == p[j + m]
  <2> HIDE DEF piece
  <2>2. piece \in Pieces
    BY <2>1 DEF piece
  <2>3. LET c0 == Markdown!CutLine(piece)
        IN  /\ c0 \in Seq(Pieces) /\ c0 # <<>> /\ Distinct(c0)
            /\ \A k \in DOMAIN c0 : c0[k].line = piece.line /\ c0[k].length <= MaxChars
            /\ \A c \in 0 .. piece.length - 1 : \E k \in DOMAIN c0 : Holds(c0[k], piece.line, c)
    BY <2>2, CutLineFacts
  <2> QED
    BY <2>3 DEF piece
<1> HIDE DEF cut
<1>6. seqs \in Seq(Seq(Pieces)) /\ Len(seqs) = n - m /\ \A j \in 1 .. n - m : seqs[j] = cut(j)
  <2>1. seqs \in [1 .. n - m -> Seq(Pieces)] /\ n - m \in Nat
    BY <1>1, <1>2, <1>5
  <2>2. \A j \in 1 .. n - m : seqs[j] = cut(j)
    OBVIOUS
  <2> HIDE DEF seqs
  <2> QED
    BY <2>1, <2>2
<1> HIDE DEF seqs
<1>7. /\ slices \in Seq(Pieces)
      /\ In(slices) = UNION {In(seqs[j]) : j \in 1 .. Len(seqs)}
      /\ ( /\ \A j \in 1 .. Len(seqs) : Distinct(seqs[j])
           /\ \A j, k \in 1 .. Len(seqs) : j # k => In(seqs[j]) \cap In(seqs[k]) = {} )
         => Distinct(slices)
  <2> DEFINE flat == Markdown!FlattenSeq(seqs)
  <2>1. /\ flat \in Seq(Pieces)
        /\ In(flat) = UNION {In(seqs[j]) : j \in 1 .. Len(seqs)}
        /\ ( /\ \A j \in 1 .. Len(seqs) : Distinct(seqs[j])
             /\ \A j, k \in 1 .. Len(seqs) : j # k => In(seqs[j]) \cap In(seqs[k]) = {} )
           => Distinct(flat)
    BY <1>6, FlattenFacts
  <2>2. slices = flat
    BY <1>3 DEF seqs, cut
  <2> HIDE DEF flat, In
  <2> QED
    BY <2>1, <2>2
<1>8. ASSUME NEW j \in 1 .. n - m, NEW y \in In(seqs[j]) PROVE y.line = p[j + m].line /\ y.length <= MaxChars
  <2>1. PICK k \in DOMAIN cut(j) : y = cut(j)[k]
    BY <1>6 DEF Markdown!ToSet
  <2> QED
    BY <1>5, <2>1
<1>9. Distinct(slices)
  <2>1. \A j \in 1 .. n - m : Distinct(seqs[j])
    BY <1>5, <1>6
  <2>2. ASSUME NEW j \in 1 .. n - m, NEW k \in 1 .. n - m, j # k PROVE In(seqs[j]) \cap In(seqs[k]) = {}
    <3> SUFFICES ASSUME NEW y, y \in In(seqs[j]), y \in In(seqs[k]) PROVE FALSE
      OBVIOUS
    <3>1. y.line = p[j + m].line /\ y.line = p[k + m].line
      BY <1>8
    <3>2. j + m \in DOMAIN p /\ k + m \in DOMAIN p /\ j + m # k + m
      BY <1>1, <1>2, <1>4, <2>2
    <3> HIDE DEF In
    <3> QED
      BY <3>1, <3>2 DEF WholeLines
  <2> HIDE DEF In
  <2> QED
    BY <1>6, <1>7, <2>1, <2>2
<1>10. \A y : y \in In(slices) <=> \E j \in 1 .. n - m : y \in In(seqs[j])
  <2>1. Len(seqs) = n - m
    BY <1>6
  <2>2. In(slices) = UNION {In(seqs[j]) : j \in 1 .. n - m}
    BY <1>7, <2>1
  <2> HIDE DEF In
  <2> QED
    BY <2>2, Zenon
<1>11. \A k \in DOMAIN slices : slices[k] \in In(slices)
  BY DEF Markdown!ToSet
<1>12. \A y \in In(slices) : \E k \in DOMAIN slices : y = slices[k]
  BY DEF Markdown!ToSet
<1>13. ASSUME NEW k \in DOMAIN slices PROVE slices[k].length <= MaxChars /\ \E x \in DOMAIN p : slices[k].line = p[x].line
  <2>1. PICK j \in 1 .. n - m : slices[k] \in In(seqs[j])
    <3> HIDE DEF In
    <3> QED
      BY <1>10, <1>11
  <2>2. slices[k].line = p[j + m].line /\ slices[k].length <= MaxChars
    BY <1>8, <2>1
  <2>3. j + m \in DOMAIN p
    BY <1>1, <1>4
  <2> QED
    BY <2>2, <2>3
<1>14. ASSUME NEW x \in DOMAIN p, x > m, NEW c \in 0 .. p[x].length - 1
       PROVE  \E k \in DOMAIN slices : Holds(slices[k], p[x].line, c)
  <2> DEFINE j == x - m
  <2>1. j \in 1 .. n - m /\ j + m = x
    BY <1>1, <1>2, <1>14
  <2> HIDE DEF j
  <2>2. PICK k \in DOMAIN cut(j) : Holds(cut(j)[k], p[x].line, c)
    BY <1>5, <2>1
  <2>3. cut(j)[k] \in In(seqs[j])
    BY <1>6, <2>1 DEF Markdown!ToSet
  <2>4. cut(j)[k] \in In(slices)
    <3> HIDE DEF In
    <3> QED
      BY <1>10, <2>1, <2>3
  <2> HIDE DEF In
  <2> QED
    BY <1>12, <2>2, <2>4
<1>15. ASSUME n > m PROVE slices # <<>>
  <2>1. 1 \in 1 .. n - m
    BY <1>1, <1>2, <1>15
  <2>2. cut(1) \in Seq(Pieces) /\ cut(1) # <<>>
    BY <1>5, <2>1
  <2>3. 1 \in DOMAIN cut(1)
    BY <2>2
  <2>4. cut(1)[1] \in In(seqs[1])
    BY <1>6, <2>1, <2>3 DEF Markdown!ToSet
  <2>5. cut(1)[1] \in In(slices)
    <3> HIDE DEF In
    <3> QED
      BY <1>10, <2>1, <2>4
  <2>6. \E k \in DOMAIN slices : TRUE
    <3> HIDE DEF In
    <3> QED
      BY <1>12, <2>5
  <2>7. DOMAIN <<>> = {}
    OBVIOUS
  <2> QED
    BY <2>6, <2>7
<1> QED
  BY <1>7, <1>9, <1>13, <1>14, <1>15 DEF slices, m, n

\* A block fits, or is a piece of a table with the header before it.
BlockFits(b) ==
  \/ Markdown!Length(b) <= MaxChars
  \/ Markdown!Header(b) # <<>> /\ Markdown!Length(b) <= MaxChars + (Markdown!Length(Markdown!Header(b)) + 1)

FillStates == {s \in [done : Seq(Paras), buffer : Seq(Pieces), rows : BOOLEAN] : s.rows => s.buffer # <<>>}

\* The pieces so far, the one being filled among them.
Rows(s) == Append(s.done, s.buffer)

\* The pieces done, and behind them the one being filled.
LEMMA RowsFacts ==
  ASSUME NEW s \in FillStates
  PROVE  /\ s = [done |-> s.done, buffer |-> s.buffer, rows |-> s.rows]
         /\ s.done \in Seq(Paras) /\ s.buffer \in Seq(Pieces) /\ s.rows \in BOOLEAN
         /\ s.rows => s.buffer \in Paras
         /\ Rows(s) \in Seq(Seq(Pieces)) /\ Len(s.done) \in Nat /\ Len(Rows(s)) = Len(s.done) + 1
         /\ Rows(s)[Len(s.done) + 1] = s.buffer
         /\ \A a \in 1 .. Len(s.done) : Rows(s)[a] = s.done[a]
<1>1. /\ s = [done |-> s.done, buffer |-> s.buffer, rows |-> s.rows]
      /\ s.done \in Seq(Paras) /\ s.buffer \in Seq(Pieces) /\ s.rows \in BOOLEAN
      /\ s.rows => s.buffer # <<>>
  BY DEF FillStates
<1> DEFINE d == s.done
           b == s.buffer
<1>2. d \in Seq(Seq(Pieces)) /\ b \in Seq(Pieces)
  <2>1. Paras \subseteq Seq(Pieces)
    BY DEF Paras
  <2> QED
    BY <1>1, <2>1
<1> HIDE DEF d, b
<1>3. /\ Len(d) \in Nat /\ Len(Append(d, b)) = Len(d) + 1 /\ Append(d, b)[Len(d) + 1] = b
      /\ \A a \in 1 .. Len(d) : Append(d, b)[a] = d[a]
      /\ Append(d, b) \in Seq(Seq(Pieces))
  BY <1>2
<1>4. s.rows => s.buffer \in Paras
  BY <1>1 DEF Paras
<1> QED
  BY <1>1, <1>3, <1>4 DEF Rows, d, b

\* A header with one slice exceeds the limit by no more than a piece may.
LEMMA HeaderFits ==
  ASSUME NEW p \in Paras, NEW piece \in Pieces, piece.length <= MaxChars
  PROVE  BlockFits(Append(Markdown!Header(p), piece))
<1> DEFINE h == Markdown!Header(p)
           b == Append(h, piece)
<1>1. /\ h \in Seq(Pieces)
      /\ h # <<>> => Markdown!Length(h) \in 1 .. MaxChars - 1
      /\ h # <<>> => Markdown!Header(b) = h
  BY HeaderFacts
<1>2. /\ Markdown!Length(h) \in Nat /\ (h = <<>> => Markdown!Length(h) = 0)
      /\ Markdown!Length(b) = Markdown!Length(h) + piece.length + (IF h = <<>> THEN 0 ELSE 1)
  BY <1>1, LengthFacts
<1>3. piece.length \in Nat /\ MaxChars \in Nat
  BY MarkdownAssumption DEF Pieces
<1> HIDE DEF h, b
<1>4. CASE h = <<>>
  <2>1. Markdown!Length(b) <= MaxChars
    BY <1>2, <1>3, <1>4
  <2> QED
    BY <2>1 DEF BlockFits, b, h
<1>5. CASE h # <<>>
  <2>1. Markdown!Header(b) = h
    BY <1>1, <1>5
  <2>2. Markdown!Length(b) <= MaxChars + (Markdown!Length(h) + 1)
    BY <1>2, <1>3, <1>5
  <2>3. BlockFits(b)
    BY <1>5, <2>1, <2>2 DEF BlockFits
  <2> QED
    BY <2>3 DEF b, h
<1> QED
  BY <1>4, <1>5

\* A slice begins a piece behind the header, or joins the one being filled if it fits.
LEMMA FillFacts ==
  ASSUME NEW s \in FillStates, NEW h \in Seq(Pieces), NEW piece \in Pieces
  PROVE  LET t == Markdown!Fill(s, h, piece)
         IN  /\ t \in FillStates /\ t.rows
             /\ \/ s.rows /\ t.done = Append(s.done, s.buffer) /\ t.buffer = Append(h, piece)
                \/ /\ t.done = s.done
                   /\ t.buffer = Append(IF Markdown!Length(s.buffer) = 0 THEN <<>> ELSE s.buffer, piece)
                   /\ s.rows => Markdown!Length(s.buffer) + 1 + piece.length <= MaxChars
<1> DEFINE t == Markdown!Fill(s, h, piece)
           d == s.done
           b == s.buffer
           r == s.rows
           Over == Markdown!Length(b) + 1 + piece.length > MaxChars
<1>1. s = [done |-> d, buffer |-> b, rows |-> r] /\ d \in Seq(Paras) /\ b \in Seq(Pieces) /\ (r => b \in Paras)
  BY RowsFacts
<1>2. /\ Markdown!Length(b) \in Nat /\ piece.length \in Nat /\ MaxChars \in Nat
  BY <1>1, LengthFacts, MarkdownAssumption DEF Pieces
<1>3. Append(<<>>, piece) = <<piece>> /\ <<>> \in Seq(Pieces)
  OBVIOUS
<1>4. \A q \in Seq(Pieces) : Append(q, piece) \in Seq(Pieces) /\ Append(q, piece) # <<>>
  <2> SUFFICES ASSUME NEW q \in Seq(Pieces) PROVE Append(q, piece) \in Seq(Pieces) /\ Append(q, piece) # <<>>
    OBVIOUS
  <2>1. Append(q, piece) \in Seq(Pieces) /\ Len(Append(q, piece)) = Len(q) + 1 /\ Len(q) \in Nat
    OBVIOUS
  <2>2. Len(q) + 1 # 0 /\ Len(<<>>) = 0
    BY <2>1
  <2> QED
    BY <2>1, <2>2
<1>5. t = IF r /\ Over THEN [s EXCEPT !.done = Append(@, b), !.buffer = Append(h, piece)]
          ELSE [s EXCEPT !.buffer = IF Markdown!Length(@) = 0 THEN <<piece>> ELSE Append(@, piece), !.rows = TRUE]
  BY DEF Markdown!Fill
<1>6. CASE r /\ Over
  <2> DEFINE x == Append(d, b)
             y == Append(h, piece)
  <2>1. x \in Seq(Paras) /\ y \in Seq(Pieces) /\ y # <<>>
    BY <1>1, <1>4, <1>6
  <2>2. t = [s EXCEPT !.done = x, !.buffer = y]
    <3>1. t = [s EXCEPT !.done = Append(@, b), !.buffer = Append(h, piece)]
      BY <1>5, <1>6, Zenon
    <3> HIDE DEF t
    <3> QED
      BY <3>1
  <2> HIDE DEF t, x, y, d, b, r, Over
  <2>3. t = [done |-> x, buffer |-> y, rows |-> r]
    <3>1. t = [[done |-> d, buffer |-> b, rows |-> r] EXCEPT !.done = x, !.buffer = y]
      BY <1>1, <2>2
    <3> QED
      BY <3>1
  <2>4. r \in BOOLEAN
    BY DEF r, FillStates
  <2>5. t.done = x /\ t.buffer = y /\ t.rows = r
    BY <2>3
  <2>6. t \in FillStates
    BY <2>1, <2>3, <2>4, <2>5 DEF FillStates
  <2>7. t.rows
    BY <1>6, <2>5
  <2>8. t.done = Append(d, b) /\ t.buffer = Append(h, piece) /\ r
    BY <1>6, <2>5 DEF x, y
  <2> QED
    BY <2>6, <2>7, <2>8 DEF t, d, b, r
<1>7. CASE ~(r /\ Over)
  <2> DEFINE from == IF Markdown!Length(b) = 0 THEN <<>> ELSE b
             y == Append(from, piece)
             v == TRUE
  <2>1. y \in Seq(Pieces) /\ y # <<>>
    <3>1. from \in Seq(Pieces)
      BY <1>1, <1>3
    <3> HIDE DEF from
    <3> QED
      BY <1>4, <3>1
  <2>2. t = [s EXCEPT !.buffer = y, !.rows = v]
    <3>1. t = [s EXCEPT !.buffer = IF Markdown!Length(@) = 0 THEN <<piece>> ELSE Append(@, piece), !.rows = TRUE]
      BY <1>5, <1>7, Zenon
    <3> DEFINE z == IF Markdown!Length(b) = 0 THEN <<piece>> ELSE Append(b, piece)
    <3>2. y = z
      BY <1>3
    <3>3. t = [s EXCEPT !.buffer = z, !.rows = TRUE]
      BY <3>1, Zenon
    <3> HIDE DEF t, z, y
    <3> QED
      BY <3>2, <3>3, Zenon
  <2> HIDE DEF t, y, d, b, r, v, Over, from
  <2>3. t = [done |-> d, buffer |-> y, rows |-> v]
    <3>1. t = [[done |-> d, buffer |-> b, rows |-> r] EXCEPT !.buffer = y, !.rows = v]
      BY <1>1, <2>2
    <3> QED
      BY <3>1
  <2>4. v \in BOOLEAN /\ v
    BY DEF v
  <2>5. t.done = d /\ t.buffer = y /\ t.rows = v
    BY <2>3
  <2>6. t \in FillStates
    BY <1>1, <2>1, <2>3, <2>4, <2>5 DEF FillStates
  <2>7. t.rows
    BY <2>4, <2>5
  <2>8. t.done = d /\ t.buffer = Append(from, piece) /\ (r => ~Over)
    BY <1>7, <2>5 DEF y
  <2>9. r => Markdown!Length(b) + 1 + piece.length <= MaxChars
    <3>1. ~Over => Markdown!Length(b) + 1 + piece.length <= MaxChars
      BY <1>2 DEF Over
    <3> QED
      BY <2>8, <3>1
  <2> QED
    BY <2>6, <2>7, <2>8, <2>9 DEF t, d, b, r, from
<1> QED
  BY <1>6, <1>7

\* So it is through all the slices.
LEMMA FillingFacts ==
  ASSUME NEW p, WholeLines(p)
  PROVE  LET state == Markdown!Filling(p)
             slices == Markdown!Slices(p)
         IN  /\ state[0] = [done |-> <<>>, buffer |-> Markdown!Header(p), rows |-> FALSE]
             /\ \A i \in 0 .. Len(slices) : state[i] \in FillStates
             /\ \A i \in 1 .. Len(slices) : state[i].rows /\ state[i] = Markdown!Fill(state[i - 1], Markdown!Header(p), slices[i])
<1> DEFINE h == Markdown!Header(p)
           slices == Markdown!Slices(p)
           n == Len(slices)
           first == [done |-> <<>>, buffer |-> h, rows |-> FALSE]
           step == [q \in (1 .. n) \X FillStates |-> Markdown!Fill(q[2], h, slices[q[1]])]
           Is(f) == f = [j \in 0 .. n |-> IF j = 0 THEN first ELSE Markdown!Fill(f[j - 1], h, slices[j])]
           state == Markdown!Filling(p)
<1>1. n \in Nat /\ h \in Seq(Pieces) /\ \A j \in 1 .. n : slices[j] \in Pieces
  <2>1. p \in Paras
    BY DEF WholeLines
  <2>2. h \in Seq(Pieces)
    BY <2>1, HeaderFacts
  <2>3. slices \in Seq(Pieces)
    BY SlicesFacts
  <2> HIDE DEF slices
  <2> QED
    BY <2>2, <2>3
<1>2. state = CHOOSE g : Is(g)
  BY DEF Markdown!Filling
<1> HIDE DEF n, h, slices
<1>3. \A j \in 1 .. n, s \in FillStates : Markdown!Fill(s, h, slices[j]) \in FillStates /\ Markdown!Fill(s, h, slices[j]).rows
  BY <1>1, FillFacts
<1>4. first \in FillStates
  <2>1. <<>> \in Seq(Paras) /\ FALSE \in BOOLEAN
    OBVIOUS
  <2>2. first.rows = FALSE
    OBVIOUS
  <2> QED
    BY <1>1, <2>1, <2>2 DEF FillStates
<1> HIDE DEF first
<1>5. step \in [(1 .. n) \X FillStates -> FillStates]
  BY <1>3
<1>6. \A j \in 1 .. n, s \in FillStates : step[<<j, s>>] = Markdown!Fill(s, h, slices[j])
  OBVIOUS
<1> HIDE DEF step
<1>7. PICK f \in [0 .. n -> FillStates] : f[0] = first /\ \A i \in 1 .. n : f[i] = step[<<i, f[i - 1]>>]
  <2>1. Stepped(n, FillStates, first, step)
    BY <1>1, <1>4, <1>5, Recursion
  <2> QED
    BY <2>1 DEF Stepped
<1>8. \A j \in 1 .. n : f[j] = Markdown!Fill(f[j - 1], h, slices[j])
  <2> SUFFICES ASSUME NEW j \in 1 .. n PROVE f[j] = Markdown!Fill(f[j - 1], h, slices[j])
    OBVIOUS
  <2>1. j - 1 \in 0 .. n
    BY <1>1
  <2> QED
    BY <1>6, <1>7, <2>1
<1>9. Is(f)
  <2>1. \A j \in 0 .. n : f[j] = IF j = 0 THEN first ELSE Markdown!Fill(f[j - 1], h, slices[j])
    BY <1>1, <1>7, <1>8
  <2> QED
    BY <2>1
<1>10. Is(state)
  <2> HIDE DEF Is, state
  <2> QED
    BY <1>2, <1>9
<1> HIDE DEF state
<1>11. state[0] = first /\ \A j \in 1 .. n : state[j] = Markdown!Fill(state[j - 1], h, slices[j])
  BY <1>1, <1>10
<1>12. \A i \in Nat : i <= n => state[i] \in FillStates
  <2> DEFINE S == {i \in Nat : i <= n => state[i] \in FillStates}
  <2>1. S \in SUBSET Nat /\ 0 \in S
    BY <1>4, <1>11
  <2>2. ASSUME NEW m \in S PROVE m + 1 \in S
    <3> SUFFICES ASSUME m + 1 <= n PROVE state[m + 1] \in FillStates
      OBVIOUS
    <3>1. m \in Nat /\ m <= n /\ m + 1 \in 1 .. n /\ (m + 1) - 1 = m
      BY <1>1
    <3>2. state[m] \in FillStates
      BY <3>1
    <3>3. state[m + 1] = Markdown!Fill(state[m], h, slices[m + 1])
      BY <1>11, <3>1
    <3> QED
      BY <1>3, <3>1, <3>2, <3>3
  <2> HIDE DEF S
  <2>3. S = Nat
    BY <2>1, <2>2, NatSetInduction
  <2> QED
    BY <2>3 DEF S
<1>13. ASSUME NEW i \in 1 .. n PROVE state[i].rows
  <2>1. i - 1 \in Nat /\ i - 1 <= n
    BY <1>1
  <2> QED
    BY <1>3, <1>11, <1>12, <2>1
<1>14. \A i \in 0 .. n : state[i] \in FillStates
  BY <1>1, <1>12
<1> QED
  BY <1>11, <1>13, <1>14 DEF n, state, first, h, slices

\* The line i is put at the end of a new piece, after the header; or at the end of the last, of which
\* nothing with any length is left out.
FillOn(all, now, h, x, i) ==
  \/ i # 1 /\ now = Append(all, Append(h, x))
  \/ /\ Len(now) = Len(all) /\ \A a \in 1 .. Len(all) - 1 : now[a] = all[a]
     /\ \E base \in Seq(Pieces) :
          /\ now[Len(all)] = Append(base, x) /\ BlockFits(Append(base, x))
          /\ Markdown!ToSet(base) \subseteq Markdown!ToSet(all[Len(all)])
          /\ \A y \in Markdown!ToSet(all[Len(all)]) : y.length > 0 => y \in Markdown!ToSet(base)

\* The same said of the pieces, the one being filled among them.
LEMMA FillOnFacts ==
  ASSUME NEW p, WholeLines(p), NEW i \in 1 .. Len(Markdown!Slices(p))
  PROVE  LET state == Markdown!Filling(p)
         IN  FillOn(Rows(state[i - 1]), Rows(state[i]), Markdown!Header(p), Markdown!Slices(p)[i], i)
<1> DEFINE h == Markdown!Header(p)
           slices == Markdown!Slices(p)
           n == Len(slices)
           x == slices[i]
           s == Markdown!Filling(p)[i - 1]
           t == Markdown!Filling(p)[i]
           d == s.done
           b == s.buffer
           m == Len(d)
           In(q) == Markdown!ToSet(q)
<1>1. /\ p \in Paras /\ h \in Seq(Pieces) /\ (h # <<>> => Markdown!Length(h) \in 1 .. MaxChars - 1)
  <2>1. p \in Paras
    BY DEF WholeLines
  <2> QED
    BY <2>1, HeaderFacts
<1>2. n \in Nat /\ x \in Pieces /\ x.length <= MaxChars
  <2>1. slices \in Seq(Pieces) /\ \A k \in DOMAIN slices : slices[k].length <= MaxChars
    BY SlicesFacts
  <2>2. i \in 1 .. n
    OBVIOUS
  <2> HIDE DEF slices
  <2> QED
    BY <2>1, <2>2
<1>3. /\ s \in FillStates /\ t \in FillStates /\ t = Markdown!Fill(s, h, x)
      /\ i # 1 => s.rows
      /\ i = 1 => s = [done |-> <<>>, buffer |-> h, rows |-> FALSE]
  <2>1. /\ Markdown!Filling(p)[0] = [done |-> <<>>, buffer |-> h, rows |-> FALSE]
        /\ \A j \in 0 .. n : Markdown!Filling(p)[j] \in FillStates
        /\ \A j \in 1 .. n : Markdown!Filling(p)[j].rows /\ Markdown!Filling(p)[j] = Markdown!Fill(Markdown!Filling(p)[j - 1], h, slices[j])
    BY FillingFacts
  <2>2. i \in 0 .. n /\ i - 1 \in 0 .. n /\ (i # 1 => i - 1 \in 1 .. n) /\ (i = 1 => i - 1 = 0)
    BY <1>2
  <2> HIDE DEF h, slices, n
  <2> QED
    BY <2>1, <2>2
<1>4. BlockFits(Append(h, x))
  BY <1>1, <1>2, HeaderFits
<1> HIDE DEF h, x, s, t, n
<1>5. /\ t.rows
      /\ \/ s.rows /\ t.done = Append(d, b) /\ t.buffer = Append(h, x)
         \/ /\ t.done = d
            /\ t.buffer = Append(IF Markdown!Length(b) = 0 THEN <<>> ELSE b, x)
            /\ s.rows => Markdown!Length(b) + 1 + x.length <= MaxChars
  BY <1>1, <1>2, <1>3, FillFacts
<1>6. /\ d \in Seq(Paras) /\ b \in Seq(Pieces) /\ m \in Nat
      /\ Len(Rows(s)) = m + 1 /\ Rows(s)[m + 1] = b /\ (\A a \in 1 .. m : Rows(s)[a] = d[a])
  BY <1>3, RowsFacts
<1>7. Rows(s) = Append(d, b) /\ Rows(t) = Append(t.done, t.buffer)
  BY DEF Rows
<1>8. CASE i # 1 /\ t.done = Append(d, b) /\ t.buffer = Append(h, x)
  <2>1. Rows(t) = Append(Rows(s), Append(h, x))
    BY <1>7, <1>8
  <2>2. FillOn(Rows(s), Rows(t), h, x, i)
    BY <1>8, <2>1 DEF FillOn
  <2> QED
    BY <2>2 DEF s, t, h, x
<1>9. CASE /\ t.done = d
           /\ t.buffer = Append(IF Markdown!Length(b) = 0 THEN <<>> ELSE b, x)
           /\ s.rows => Markdown!Length(b) + 1 + x.length <= MaxChars
  <2> DEFINE base == IF Markdown!Length(b) = 0 THEN <<>> ELSE b
  <2>1. base \in Seq(Pieces) /\ t.buffer = Append(base, x)
    BY <1>6, <1>9
  <2>2. In(base) \subseteq In(b)
    BY DEF Markdown!ToSet
  <2>3. \A y \in In(b) : y.length > 0 => y \in In(base)
    <3>1. CASE Markdown!Length(b) = 0
      <4>1. \A k \in 1 .. Len(b) : b[k].length <= 0 /\ b[k] \in Pieces
        BY <1>6, <3>1, LengthFacts
      <4>2. \A y \in In(b) : ~(y.length > 0)
        <5>1. DOMAIN b = 1 .. Len(b)
          BY <1>6
        <5>2. \A k \in DOMAIN b : b[k].length \in Nat
          BY <4>1, <5>1 DEF Pieces
        <5> QED
          BY <4>1, <5>1, <5>2 DEF Markdown!ToSet
      <4> QED
        BY <4>2
    <3>2. CASE Markdown!Length(b) # 0
      BY <3>2
    <3> QED
      BY <3>1, <3>2
  <2>4. BlockFits(Append(base, x))
    <3>1. MaxChars \in Nat /\ x.length \in Nat
      BY <1>2, MarkdownAssumption DEF Pieces
    <3>2. Markdown!Length(base) \in Nat
          /\ Markdown!Length(Append(base, x)) = Markdown!Length(base) + x.length + (IF base = <<>> THEN 0 ELSE 1)
      <4> HIDE DEF base
      <4> QED
        BY <1>2, <2>1, LengthFacts
    <3>3. CASE base = <<>>
      <4>1. Markdown!Length(base) = 0
        BY <2>1, <3>3, LengthFacts
      <4> HIDE DEF base
      <4>2. Markdown!Length(Append(base, x)) <= MaxChars
        BY <1>2, <3>1, <3>2, <3>3, <4>1
      <4> QED
        BY <4>2 DEF BlockFits
    <3>4. CASE base # <<>> /\ s.rows
      <4>1. base = b
        BY <3>4
      <4>2. Markdown!Length(b) + 1 + x.length <= MaxChars
        BY <1>9, <3>4
      <4> HIDE DEF base
      <4>3. Markdown!Length(Append(base, x)) <= MaxChars
        BY <3>1, <3>2, <3>4, <4>1, <4>2
      <4> QED
        BY <4>3 DEF BlockFits
    <3>5. CASE base # <<>> /\ ~s.rows
      <4>1. base = b
        BY <3>5
      <4>2. b = h
        BY <1>3, <3>5
      <4> QED
        BY <1>4, <4>1, <4>2
    <3> QED
      BY <3>3, <3>4, <3>5, Zenon
  <2> HIDE DEF base
  <2>5. /\ Len(Rows(t)) = m + 1 /\ Rows(t)[m + 1] = Append(base, x) /\ (\A a \in 1 .. m : Rows(t)[a] = d[a])
    <3>1. /\ Len(Rows(t)) = Len(t.done) + 1 /\ Rows(t)[Len(t.done) + 1] = t.buffer
          /\ \A a \in 1 .. Len(t.done) : Rows(t)[a] = t.done[a]
      BY <1>3, RowsFacts
    <3>2. t.done = d /\ t.buffer = Append(base, x)
      BY <1>9, <2>1
    <3> QED
      BY <3>1, <3>2
  <2>6. (m + 1) - 1 = m
    BY <1>6
  <2>7. Len(Rows(t)) = Len(Rows(s)) /\ \A a \in 1 .. Len(Rows(s)) - 1 : Rows(t)[a] = Rows(s)[a]
    BY <1>6, <2>5, <2>6
  <2>8. /\ Rows(t)[Len(Rows(s))] = Append(base, x)
        /\ In(base) \subseteq In(Rows(s)[Len(Rows(s))])
        /\ \A y \in In(Rows(s)[Len(Rows(s))]) : y.length > 0 => y \in In(base)
    <3> HIDE DEF In
    <3> QED
      BY <1>6, <2>2, <2>3, <2>5
  <2>9. FillOn(Rows(s), Rows(t), h, x, i)
    BY <2>1, <2>4, <2>7, <2>8 DEF FillOn
  <2> QED
    BY <2>9 DEF s, t, h, x
<1> QED
  BY <1>3, <1>5, <1>8, <1>9

Ending(q) == q[Len(q)]

\* Every piece of a paragraph cut at its lines ends with a line no other ends with; together they have
\* the header and every line.
Filled(all, i, h, slices) ==
  /\ i = 0 => Len(all) = 1
  /\ i # 0 => \A a \in 1 .. Len(all) : all[a] # <<>> /\ BlockFits(all[a]) /\ \E j \in 1 .. i : Ending(all[a]) = slices[j]
  /\ i # 0 => \A a, b \in 1 .. Len(all) : a # b => Ending(all[a]) # Ending(all[b])
  /\ \A a \in 1 .. Len(all) : Markdown!ToSet(all[a]) \subseteq Markdown!ToSet(h) \cup Markdown!ToSet(slices)
  /\ \A x \in Markdown!ToSet(h) : x.length > 0 => \E a \in 1 .. Len(all) : x \in Markdown!ToSet(all[a])
  /\ \A j \in 1 .. i : slices[j].length > 0 => \E a \in 1 .. Len(all) : slices[j] \in Markdown!ToSet(all[a])

\* What was appended is at the end.
LEMMA AtTheEnd ==
  ASSUME NEW q \in Seq(Pieces), NEW x \in Pieces
  PROVE  /\ Append(q, x) # <<>> /\ Ending(Append(q, x)) = x
         /\ Markdown!ToSet(Append(q, x)) = Markdown!ToSet(q) \cup {x}
<1> DEFINE u == Append(q, x)
           n == Len(q)
<1>1. n \in Nat /\ DOMAIN q = 1 .. n /\ Len(u) = n + 1 /\ DOMAIN u = 1 .. n + 1 /\ u[n + 1] = x /\ \A k \in 1 .. n : u[k] = q[k]
  OBVIOUS
<1>2. Len(<<>>) = 0
  OBVIOUS
<1> HIDE DEF u, n
<1>3. u # <<>> /\ Ending(u) = x
  BY <1>1, <1>2 DEF Ending
<1>4. 1 .. n + 1 = (1 .. n) \cup {n + 1}
  BY <1>1
<1>5. Markdown!ToSet(u) = Markdown!ToSet(q) \cup {x}
  <2>1. \A y : y \in Markdown!ToSet(u) <=> \E k \in 1 .. n + 1 : y = u[k]
    BY <1>1 DEF Markdown!ToSet
  <2>2. \A y : y \in Markdown!ToSet(q) <=> \E k \in 1 .. n : y = q[k]
    BY <1>1 DEF Markdown!ToSet
  <2>3. \A y : (\E k \in 1 .. n + 1 : y = u[k]) <=> (\E k \in 1 .. n : y = q[k]) \/ y = x
    BY <1>1, <1>4
  <2> QED
    BY <2>1, <2>2, <2>3
<1> QED
  BY <1>3, <1>5 DEF u

\* That pieces fit, end differently and have every slice between them survives each slice.
LEMMA FilledStep ==
  ASSUME NEW all \in Seq(Seq(Pieces)), NEW now, NEW h \in Seq(Pieces), NEW slices \in Seq(Pieces), Distinct(slices),
         NEW i \in 1 .. Len(slices), all # <<>>, BlockFits(Append(h, slices[i])),
         FillOn(all, now, h, slices[i], i), Filled(all, i - 1, h, slices)
  PROVE  Filled(now, i, h, slices)
<1> DEFINE n == Len(all)
           x == slices[i]
           In(q) == Markdown!ToSet(q)
           c == Len(slices)
<1>1. n \in Nat \ {0} /\ \A a \in 1 .. n : all[a] \in Seq(Pieces)
  OBVIOUS
<1>2. /\ x \in Pieces /\ x \in In(slices) /\ i \in Nat /\ i # 0 /\ 1 .. i = (1 .. i - 1) \cup {i} /\ i \in 1 .. i
      /\ i - 1 = 0 <=> i = 1
      /\ \A j \in 1 .. i - 1 : slices[j] # x
  <2>1. c \in Nat /\ DOMAIN slices = 1 .. c /\ x \in Pieces
    OBVIOUS
  <2>2. x \in In(slices)
    BY <2>1 DEF Markdown!ToSet
  <2>3. i \in Nat /\ i # 0 /\ 1 .. i = (1 .. i - 1) \cup {i} /\ i \in 1 .. i /\ (i - 1 = 0 <=> i = 1)
    BY <2>1
  <2>4. \A j \in 1 .. i - 1 : j \in 1 .. c /\ i \in 1 .. c /\ j # i
    BY <2>1
  <2>5. \A j \in 1 .. i - 1 : slices[j] # slices[i]
    BY <2>1, <2>4 DEF Distinct
  <2> HIDE DEF In
  <2> QED
    BY <2>1, <2>2, <2>3, <2>5
<1>3. /\ i = 1 => n = 1
      /\ i # 1 => \A a \in 1 .. n : all[a] # <<>> /\ BlockFits(all[a]) /\ \E j \in 1 .. i - 1 : Ending(all[a]) = slices[j]
      /\ i # 1 => \A a, b \in 1 .. n : a # b => Ending(all[a]) # Ending(all[b])
      /\ \A a \in 1 .. n : In(all[a]) \subseteq In(h) \cup In(slices)
      /\ \A y \in In(h) : y.length > 0 => \E a \in 1 .. n : y \in In(all[a])
      /\ \A j \in 1 .. i - 1 : slices[j].length > 0 => \E a \in 1 .. n : slices[j] \in In(all[a])
  <2> HIDE DEF In, n
  <2> QED
    BY <1>2 DEF Filled, n, In
<1>4. \/ i # 1 /\ now = Append(all, Append(h, x))
      \/ /\ Len(now) = n /\ \A a \in 1 .. n - 1 : now[a] = all[a]
         /\ \E base \in Seq(Pieces) :
              /\ now[n] = Append(base, x) /\ BlockFits(Append(base, x))
              /\ In(base) \subseteq In(all[n])
              /\ \A y \in In(all[n]) : y.length > 0 => y \in In(base)
  BY DEF FillOn
\* It is enough that the piece x was put to is good, and that the others were there before.
<1>5. ASSUME NEW m \in Nat \ {0}, Len(now) = m, NEW base \in Seq(Pieces), now[m] = Append(base, x), BlockFits(Append(base, x)),
             In(base) \subseteq In(h) \cup In(slices),
             \A a \in 1 .. m - 1 : i # 1 /\ a \in 1 .. n /\ now[a] = all[a],
             \A a \in 1 .. n : \A y \in In(all[a]) : y.length > 0 => \E b \in 1 .. m : y \in In(now[b])
      PROVE  Filled(now, i, h, slices)
  <2>1. Append(base, x) # <<>> /\ Ending(Append(base, x)) = x /\ In(Append(base, x)) = In(base) \cup {x}
    BY <1>2, <1>5, AtTheEnd
  <2>2. 1 .. m = (1 .. m - 1) \cup {m}
    BY <1>5
  <2> HIDE DEF In, x, n
  <2>3. \A a \in 1 .. m : now[a] # <<>> /\ BlockFits(now[a]) /\ \E j \in 1 .. i : Ending(now[a]) = slices[j]
    <3> SUFFICES ASSUME NEW a \in 1 .. m PROVE now[a] # <<>> /\ BlockFits(now[a]) /\ \E j \in 1 .. i : Ending(now[a]) = slices[j]
      OBVIOUS
    <3>1. CASE a = m
      BY <1>2, <1>5, <2>1, <3>1 DEF x
    <3>2. CASE a \in 1 .. m - 1
      <4>1. i # 1 /\ a \in 1 .. n /\ now[a] = all[a]
        BY <1>5, <3>2
      <4>2. all[a] # <<>> /\ BlockFits(all[a]) /\ \E j \in 1 .. i - 1 : Ending(all[a]) = slices[j]
        BY <1>3, <4>1
      <4>3. PICK j \in 1 .. i - 1 : Ending(all[a]) = slices[j]
        BY <4>2
      <4>4. j \in 1 .. i
        BY <1>2
      <4> QED
        BY <4>1, <4>2, <4>3, <4>4
    <3> QED
      BY <2>2, <3>1, <3>2
  <2>4. \A a \in 1 .. m - 1 : Ending(now[a]) # Ending(now[m])
    <3> SUFFICES ASSUME NEW a \in 1 .. m - 1 PROVE Ending(now[a]) # x
      BY <1>5, <2>1
    <3>1. i # 1 /\ a \in 1 .. n /\ now[a] = all[a]
      BY <1>5
    <3>2. PICK j \in 1 .. i - 1 : Ending(all[a]) = slices[j]
      BY <1>3, <3>1
    <3>3. slices[j] # x
      BY <1>2
    <3> QED
      BY <3>1, <3>2, <3>3
  <2>5. \A a, b \in 1 .. m : a # b => Ending(now[a]) # Ending(now[b])
    <3> SUFFICES ASSUME NEW a \in 1 .. m, NEW b \in 1 .. m, a # b PROVE Ending(now[a]) # Ending(now[b])
      OBVIOUS
    <3>1. CASE a = m \/ b = m
      BY <2>2, <2>4, <3>1
    <3>2. CASE a \in 1 .. m - 1 /\ b \in 1 .. m - 1
      BY <1>3, <1>5, <3>2
    <3> QED
      BY <2>2, <3>1, <3>2
  <2>6. \A a \in 1 .. m : In(now[a]) \subseteq In(h) \cup In(slices)
    <3> SUFFICES ASSUME NEW a \in 1 .. m PROVE In(now[a]) \subseteq In(h) \cup In(slices)
      OBVIOUS
    <3>1. CASE a = m
      <4>1. In(now[m]) = In(base) \cup {x}
        BY <1>5, <2>1
      <4> QED
        BY <1>2, <1>5, <3>1, <4>1
    <3>2. CASE a \in 1 .. m - 1
      BY <1>3, <1>5, <3>2
    <3> QED
      BY <2>2, <3>1, <3>2
  <2>7. \A y \in In(h) : y.length > 0 => \E a \in 1 .. m : y \in In(now[a])
    BY <1>3, <1>5
  <2>8. \A j \in 1 .. i : slices[j].length > 0 => \E a \in 1 .. m : slices[j] \in In(now[a])
    <3> SUFFICES ASSUME NEW j \in 1 .. i, slices[j].length > 0 PROVE \E a \in 1 .. m : slices[j] \in In(now[a])
      OBVIOUS
    <3>1. CASE j = i
      <4>1. x \in In(now[m]) /\ m \in 1 .. m
        BY <1>5, <2>1
      <4> QED
        BY <3>1, <4>1 DEF x
    <3>2. CASE j \in 1 .. i - 1
      BY <1>3, <1>5, <3>2
    <3> QED
      BY <1>2, <3>1, <3>2
  <2>9. Len(now) = m /\ i # 0
    BY <1>2, <1>5
  <2> QED
    BY <2>3, <2>5, <2>6, <2>7, <2>8, <2>9 DEF Filled, In
<1>6. CASE i # 1 /\ now = Append(all, Append(h, x))
  <2> DEFINE new == Append(h, x)
  <2>1. new \in Seq(Pieces)
    BY <1>2
  <2> HIDE DEF new
  <2>2. Len(now) = n + 1 /\ now[n + 1] = new /\ \A a \in 1 .. n : now[a] = all[a]
    BY <1>6, <2>1 DEF new
  <2>3. n + 1 \in Nat \ {0} /\ (n + 1) - 1 = n /\ \A a \in 1 .. n : a \in 1 .. n + 1
    BY <1>1
  <2>4. \A a \in 1 .. n : \A y \in In(all[a]) : y.length > 0 => \E b \in 1 .. n + 1 : y \in In(now[b])
    <3> HIDE DEF In, n
    <3> QED
      BY <2>2, <2>3
  <2>5. BlockFits(Append(h, x)) /\ now[n + 1] = Append(h, x)
    BY <2>2 DEF new
  <2>6. \A a \in 1 .. (n + 1) - 1 : i # 1 /\ a \in 1 .. n /\ now[a] = all[a]
    BY <1>6, <2>2, <2>3
  <2> HIDE DEF In, n, x
  <2> QED
    BY <1>5, <2>2, <2>3, <2>4, <2>5, <2>6
<1>7. CASE /\ Len(now) = n /\ \A a \in 1 .. n - 1 : now[a] = all[a]
           /\ \E base \in Seq(Pieces) :
                /\ now[n] = Append(base, x) /\ BlockFits(Append(base, x))
                /\ In(base) \subseteq In(all[n])
                /\ \A y \in In(all[n]) : y.length > 0 => y \in In(base)
  <2>1. PICK base \in Seq(Pieces) :
          /\ now[n] = Append(base, x) /\ BlockFits(Append(base, x))
          /\ In(base) \subseteq In(all[n])
          /\ \A y \in In(all[n]) : y.length > 0 => y \in In(base)
    BY <1>7
  <2>2. In(Append(base, x)) = In(base) \cup {x}
    BY <1>2, AtTheEnd
  <2> HIDE DEF In, n, x
  <2>3. n \in 1 .. n /\ \A a \in 1 .. n : a # n => a \in 1 .. n - 1
    BY <1>1
  <2>4. \A a \in 1 .. n - 1 : a \in 1 .. n /\ n # 1
    BY <1>1
  <2>5. In(base) \subseteq In(h) \cup In(slices)
    BY <1>3, <2>1, <2>3
  <2>6. \A a \in 1 .. n - 1 : i # 1 /\ a \in 1 .. n /\ now[a] = all[a]
    BY <1>3, <1>7, <2>4
  <2>7. ASSUME NEW a \in 1 .. n, NEW y \in In(all[a]), y.length > 0 PROVE \E b \in 1 .. n : y \in In(now[b])
    <3>1. CASE a = n
      BY <2>1, <2>2, <2>3, <2>7, <3>1
    <3>2. CASE a # n
      BY <1>7, <2>3, <2>7, <3>2
    <3> QED
      BY <3>1, <3>2
  <2>8. \A a \in 1 .. n : \A y \in In(all[a]) : y.length > 0 => \E b \in 1 .. n : y \in In(now[b])
    BY <2>7
  <2> QED
    BY <1>1, <1>5, <1>7, <2>1, <2>5, <2>6, <2>8
<1> HIDE DEF In, n, x
<1> QED
  BY <1>4, <1>6, <1>7

\* A paragraph too long to be a block, cut at its lines.
LEMMA HardSplitFacts ==
  ASSUME NEW p, WholeLines(p), \A x \in DOMAIN p : p[x].from = 0, Markdown!Length(p) > MaxChars
  PROVE  LET out == Markdown!HardSplit(p)
         IN  /\ out \in Seq(Paras) /\ Distinct(out)
             /\ \A a \in 1 .. Len(out) : BlockFits(out[a])
             /\ \A a \in 1 .. Len(out) : \A y \in Markdown!ToSet(out[a]) : \E x \in DOMAIN p : y.line = p[x].line
             /\ \A x \in DOMAIN p : \A c \in 0 .. p[x].length - 1 :
                  \E a \in 1 .. Len(out) : \E y \in Markdown!ToSet(out[a]) : Holds(y, p[x].line, c)
<1> DEFINE h == Markdown!Header(p)
           slices == Markdown!Slices(p)
           n == Len(slices)
           state == Markdown!Filling(p)
           out == Markdown!HardSplit(p)
           In(q) == Markdown!ToSet(q)
<1>1. p \in Paras /\ p \in Seq(Pieces) /\ p # <<>> /\ Len(p) \in Nat /\ DOMAIN p = 1 .. Len(p) /\ \A x \in DOMAIN p : p[x] \in Pieces
  BY DEF WholeLines, Paras
<1>2. /\ h \in Seq(Pieces) /\ Len(h) \in Nat /\ Len(h) <= Len(p) /\ (h = <<>> <=> Len(h) = 0)
      /\ \A k \in 1 .. Len(h) : h[k] = p[k]
      /\ h # <<>> => Markdown!Length(h) \in 1 .. MaxChars - 1
  BY <1>1, HeaderFacts
<1>3. /\ slices \in Seq(Pieces) /\ Distinct(slices)
      /\ \A k \in DOMAIN slices : slices[k].length <= MaxChars /\ \E x \in DOMAIN p : slices[k].line = p[x].line
      /\ \A x \in DOMAIN p : x > Len(h) =>
           \A c \in 0 .. p[x].length - 1 : \E k \in DOMAIN slices : Holds(slices[k], p[x].line, c)
      /\ Len(p) > Len(h) => slices # <<>>
  BY SlicesFacts
<1>4. /\ state[0] = [done |-> <<>>, buffer |-> h, rows |-> FALSE]
      /\ \A i \in 0 .. n : state[i] \in FillStates
      /\ \A i \in 1 .. n : state[i].rows
  BY FillingFacts
<1>5. out = IF state[n].rows THEN Rows(state[n]) ELSE state[n].done
  BY DEF Markdown!HardSplit, Rows
<1>6. \A i \in 1 .. n : FillOn(Rows(state[i - 1]), Rows(state[i]), h, slices[i], i)
  BY FillOnFacts
<1>7. n \in Nat /\ DOMAIN slices = 1 .. n /\ \A i \in 1 .. n : slices[i] \in Pieces
  <2> HIDE DEF slices
  <2> QED
    BY <1>3
<1>8. \A i \in 1 .. n : BlockFits(Append(h, slices[i]))
  <2> SUFFICES ASSUME NEW i \in 1 .. n PROVE BlockFits(Append(h, slices[i]))
    OBVIOUS
  <2> DEFINE x == slices[i]
  <2>1. x \in Pieces /\ x.length <= MaxChars
    BY <1>3, <1>7
  <2> HIDE DEF x
  <2>2. BlockFits(Append(h, x))
    BY <1>1, <2>1, HeaderFits
  <2> QED
    BY <2>2 DEF x
<1> HIDE DEF h, slices, n, state, out
<1>9. Len(p) > Len(h)
  <2> SUFFICES ASSUME Len(p) = Len(h) PROVE FALSE
    BY <1>1, <1>2
  <2>1. h = p
    BY <1>1, <1>2
  <2>2. Markdown!Length(p) \in 1 .. MaxChars - 1 /\ MaxChars \in Nat
    BY <1>1, <1>2, <2>1, MarkdownAssumption
  <2> QED
    BY <2>2
<1>10. n # 0 /\ n \in 1 .. n
  <2>1. slices # <<>>
    BY <1>3, <1>9
  <2>2. n # 0
    BY <1>3, <2>1 DEF n
  <2> QED
    BY <1>7, <2>2
<1>11. \A i \in Nat : i <= n => Filled(Rows(state[i]), i, h, slices)
  <2> DEFINE S == {i \in Nat : i <= n => Filled(Rows(state[i]), i, h, slices)}
  <2>1. S \in SUBSET Nat
    OBVIOUS
  <2>2. 0 \in S
    <3>1. Rows(state[0]) = <<h>>
      <4>1. state[0].done = <<>> /\ state[0].buffer = h
        BY <1>4
      <4>2. Append(<<>>, h) = <<h>>
        BY <1>2
      <4> QED
        BY <4>1, <4>2 DEF Rows
    <3>2. Len(<<h>>) = 1 /\ <<h>>[1] = h /\ 1 .. 1 = {1} /\ 1 .. 0 = {}
      OBVIOUS
    <3> DEFINE one == <<h>>
    <3>3. Len(one) = 1 /\ one[1] = h
      BY <3>2
    <3> HIDE DEF one
    <3>4. Filled(one, 0, h, slices)
      <4>1. \A a \in 1 .. Len(one) : In(one[a]) \subseteq In(h) \cup In(slices)
        BY <3>2, <3>3
      <4>2. \A x \in In(h) : x.length > 0 => \E a \in 1 .. Len(one) : x \in In(one[a])
        BY <3>2, <3>3
      <4> QED
        BY <3>2, <3>3, <4>1, <4>2 DEF Filled
    <3>5. Filled(Rows(state[0]), 0, h, slices)
      BY <3>1, <3>4 DEF one
    <3> QED
      BY <3>5
  <2>3. ASSUME NEW m \in S PROVE m + 1 \in S
    <3> SUFFICES ASSUME m + 1 <= n PROVE Filled(Rows(state[m + 1]), m + 1, h, slices)
      OBVIOUS
    <3>1. m \in Nat /\ m <= n /\ m + 1 \in 1 .. n /\ (m + 1) - 1 = m /\ m \in 0 .. n
      BY <1>7
    <3>2. Filled(Rows(state[m]), m, h, slices)
      BY <3>1
    <3> DEFINE all == Rows(state[m])
               now == Rows(state[m + 1])
               i == m + 1
    <3>3. all \in Seq(Seq(Pieces)) /\ all # <<>>
      <4>1. state[m] \in FillStates
        BY <1>4, <3>1
      <4>2. all \in Seq(Seq(Pieces)) /\ Len(all) = Len(state[m].done) + 1 /\ Len(state[m].done) \in Nat
        BY <4>1, RowsFacts
      <4> HIDE DEF all
      <4>3. Len(all) # 0 /\ Len(<<>>) = 0
        BY <4>2
      <4> QED
        BY <4>2, <4>3
    <3>4. FillOn(all, now, h, slices[i], i)
      BY <1>6, <3>1
    <3>5. Filled(all, i - 1, h, slices) /\ i \in 1 .. Len(slices) /\ BlockFits(Append(h, slices[i]))
      BY <1>8, <3>1, <3>2 DEF n
    <3> HIDE DEF all, now, i, S
    <3>6. Filled(now, i, h, slices)
      BY <1>2, <1>3, <3>3, <3>4, <3>5, FilledStep
    <3> QED
      BY <3>6 DEF now, i
  <2> HIDE DEF S
  <2>4. S = Nat
    BY <2>1, <2>2, <2>3, NatSetInduction
  <2> QED
    BY <2>4 DEF S
<1>12. Filled(out, n, h, slices) /\ out \in Seq(Paras)
  <2>1. state[n].rows /\ state[n] \in FillStates
    BY <1>4, <1>7, <1>10
  <2>2. out = Rows(state[n])
    BY <1>5, <2>1
  <2>3. Filled(Rows(state[n]), n, h, slices)
    BY <1>7, <1>11
  <2>4. state[n].done \in Seq(Paras) /\ state[n].buffer \in Paras
    BY <2>1, RowsFacts
  <2>5. Rows(state[n]) \in Seq(Paras)
    BY <2>4 DEF Rows
  <2> QED
    BY <2>2, <2>3, <2>5
<1>13. /\ \A a \in 1 .. Len(out) : BlockFits(out[a])
       /\ \A a, b \in 1 .. Len(out) : a # b => Ending(out[a]) # Ending(out[b])
       /\ \A a \in 1 .. Len(out) : In(out[a]) \subseteq In(h) \cup In(slices)
       /\ \A x \in In(h) : x.length > 0 => \E a \in 1 .. Len(out) : x \in In(out[a])
       /\ \A j \in 1 .. n : slices[j].length > 0 => \E a \in 1 .. Len(out) : slices[j] \in In(out[a])
  BY <1>10, <1>12 DEF Filled
<1>14. Distinct(out)
  <2>1. DOMAIN out = 1 .. Len(out)
    BY <1>12
  <2> QED
    BY <1>13, <2>1 DEF Distinct
<1>15. DOMAIN h = 1 .. Len(h) /\ \A k \in DOMAIN h : k \in DOMAIN p /\ h[k] = p[k]
  <2>1. DOMAIN h = 1 .. Len(h)
    BY <1>2
  <2> QED
    BY <1>1, <1>2, <2>1
<1>16. ASSUME NEW a \in 1 .. Len(out), NEW y \in In(out[a]) PROVE \E x \in DOMAIN p : y.line = p[x].line
  <2>1. y \in In(h) \/ y \in In(slices)
    <3> HIDE DEF In
    <3> QED
      BY <1>13
  <2>2. CASE y \in In(h)
    <3>1. PICK k \in DOMAIN h : y = h[k]
      BY <2>2 DEF Markdown!ToSet
    <3> QED
      BY <1>15, <3>1
  <2>3. CASE y \in In(slices)
    <3>1. PICK k \in DOMAIN slices : y = slices[k]
      BY <2>3 DEF Markdown!ToSet
    <3> QED
      BY <1>3, <3>1
  <2> QED
    BY <2>1, <2>2, <2>3
<1>17. ASSUME NEW x \in DOMAIN p, NEW c \in 0 .. p[x].length - 1
       PROVE  \E a \in 1 .. Len(out) : \E y \in In(out[a]) : Holds(y, p[x].line, c)
  <2>1. \A y \in Pieces : Holds(y, p[x].line, c) => y.length > 0
    <3> SUFFICES ASSUME NEW y \in Pieces, y.from <= c, c < y.from + y.length PROVE y.length > 0
      BY DEF Holds
    <3>1. y.length \in Nat /\ y.from \in Nat /\ p[x].length \in Nat
      BY <1>1 DEF Pieces
    <3>2. c \in Nat
      BY <3>1
    <3> QED
      BY <3>1, <3>2
  <2>2. CASE x > Len(h)
    <3>1. PICK k \in DOMAIN slices : Holds(slices[k], p[x].line, c)
      BY <1>3, <2>2
    <3>2. k \in 1 .. n /\ slices[k].length > 0
      BY <1>7, <2>1, <3>1
    <3> HIDE DEF In
    <3> QED
      BY <1>13, <3>1, <3>2
  <2>3. CASE ~(x > Len(h))
    <3>1. x \in DOMAIN h /\ h[x] = p[x]
      BY <1>1, <1>2, <1>15, <2>3
    <3>2. h[x] \in In(h)
      BY <3>1 DEF Markdown!ToSet
    <3>3. Holds(h[x], p[x].line, c)
      <4>1. p[x].length \in Nat /\ p[x].from = 0
        BY <1>1 DEF Pieces
      <4> QED
        BY <3>1, <4>1 DEF Holds
    <3>4. h[x].length > 0
      BY <1>1, <2>1, <3>1, <3>3
    <3> HIDE DEF In
    <3> QED
      BY <1>13, <3>2, <3>3, <3>4
  <2> QED
    BY <2>2, <2>3
<1> QED
  BY <1>12, <1>13, <1>14, <1>16, <1>17 DEF out

\* The blocks of one paragraph.
BlocksOf(p) == IF Markdown!Length(p) > MaxChars THEN Markdown!HardSplit(p) ELSE <<p>>

\* What is made of a paragraph, cut or not.
LEMMA BlocksOfFacts ==
  ASSUME NEW p, WholeLines(p), \A x \in DOMAIN p : p[x].from = 0
  PROVE  LET out == BlocksOf(p)
         IN  /\ out \in Seq(Paras) /\ Distinct(out)
             /\ \A a \in 1 .. Len(out) : BlockFits(out[a])
             /\ \A a \in 1 .. Len(out) : \A y \in Markdown!ToSet(out[a]) : \E x \in DOMAIN p : y.line = p[x].line
             /\ \A x \in DOMAIN p : \A c \in 0 .. p[x].length - 1 :
                  \E a \in 1 .. Len(out) : \E y \in Markdown!ToSet(out[a]) : Holds(y, p[x].line, c)
<1>1. CASE Markdown!Length(p) > MaxChars
  <2> DEFINE out == Markdown!HardSplit(p)
  <2>1. /\ out \in Seq(Paras) /\ Distinct(out)
        /\ \A a \in 1 .. Len(out) : BlockFits(out[a])
        /\ \A a \in 1 .. Len(out) : \A y \in Markdown!ToSet(out[a]) : \E x \in DOMAIN p : y.line = p[x].line
        /\ \A x \in DOMAIN p : \A c \in 0 .. p[x].length - 1 :
             \E a \in 1 .. Len(out) : \E y \in Markdown!ToSet(out[a]) : Holds(y, p[x].line, c)
    BY <1>1, HardSplitFacts
  <2>2. BlocksOf(p) = out
    BY <1>1 DEF BlocksOf
  <2> HIDE DEF out
  <2> QED
    BY <2>1, <2>2
<1>2. CASE ~(Markdown!Length(p) > MaxChars)
  <2> DEFINE out == <<p>>
  <2>1. p \in Paras /\ p \in Seq(Pieces) /\ \A x \in DOMAIN p : p[x] \in Pieces
    BY DEF WholeLines, Paras
  <2>2. out \in Seq(Paras) /\ Len(out) = 1 /\ DOMAIN out = {1} /\ out[1] = p /\ 1 .. 1 = {1}
    BY <2>1
  <2>3. BlocksOf(p) = out
    BY <1>2 DEF BlocksOf
  <2> HIDE DEF out
  <2>4. Distinct(out)
    BY <2>2 DEF Distinct
  <2>5. BlockFits(p)
    <3>1. Markdown!Length(p) \in Nat /\ MaxChars \in Nat
      BY <2>1, LengthFacts, MarkdownAssumption
    <3>2. Markdown!Length(p) <= MaxChars
      BY <1>2, <3>1
    <3> QED
      BY <3>2 DEF BlockFits
  <2>6. \A y \in Markdown!ToSet(p) : \E x \in DOMAIN p : y.line = p[x].line
    BY DEF Markdown!ToSet
  <2>7. ASSUME NEW x \in DOMAIN p, NEW c \in 0 .. p[x].length - 1 PROVE p[x] \in Markdown!ToSet(p) /\ Holds(p[x], p[x].line, c)
    <3>1. p[x].length \in Nat /\ p[x].from = 0
      BY <2>1 DEF Pieces
    <3>2. Holds(p[x], p[x].line, c)
      BY <3>1 DEF Holds
    <3> QED
      BY <3>2 DEF Markdown!ToSet
  <2>8. \A a \in 1 .. Len(out) : out[a] = p
    BY <2>2
  <2>9. \A x \in DOMAIN p : \A c \in 0 .. p[x].length - 1 :
          \E a \in 1 .. Len(out) : \E y \in Markdown!ToSet(out[a]) : Holds(y, p[x].line, c)
    <3>1. 1 \in 1 .. Len(out)
      BY <2>2
    <3> QED
      BY <2>2, <2>7, <3>1
  <2>10. \A a \in 1 .. Len(out) : BlockFits(out[a]) /\ \A y \in Markdown!ToSet(out[a]) : \E x \in DOMAIN p : y.line = p[x].line
    BY <2>5, <2>6, <2>8
  <2>11. /\ out \in Seq(Paras) /\ Distinct(out)
         /\ \A a \in 1 .. Len(out) : BlockFits(out[a])
         /\ \A a \in 1 .. Len(out) : \A y \in Markdown!ToSet(out[a]) : \E x \in DOMAIN p : y.line = p[x].line
         /\ \A x \in DOMAIN p : \A c \in 0 .. p[x].length - 1 :
              \E a \in 1 .. Len(out) : \E y \in Markdown!ToSet(out[a]) : Holds(y, p[x].line, c)
    BY <2>2, <2>4, <2>9, <2>10, Zenon
  <2> QED
    BY <2>3, <2>11, Zenon
<1> QED
  BY <1>1, <1>2

\* The blocks of a body: none twice, each fits, and every character is in one.
LEMMA BlocksFacts ==
  ASSUME body \in Seq(Markdown!BodyLines)
  PROVE  LET blocks == Markdown!Blocks
         IN  /\ blocks \in Seq(Paras) /\ Distinct(blocks)
             /\ \A a \in 1 .. Len(blocks) : BlockFits(blocks[a])
             /\ \A i \in 1 .. Len(body) : \A c \in 0 .. body[i].length - 1 :
                  \E a \in 1 .. Len(blocks) : \E y \in Markdown!ToSet(blocks[a]) : Holds(y, i, c)
<1> DEFINE all == Markdown!Paragraphs
           n == Len(all)
           of(a) == BlocksOf(all[a])
           seqs == [a \in 1 .. n |-> of(a)]
           blocks == Markdown!Blocks
           In(q) == Markdown!ToSet(q)
<1>1. /\ all \in Seq(Paras)
      /\ \A a \in 1 .. n : \A x \in DOMAIN all[a] :
           all[a][x].line \in 1 .. Len(body) /\ all[a][x] = Markdown!Whole[all[a][x].line]
      /\ \A a, b \in 1 .. n : \A x \in DOMAIN all[a], y \in DOMAIN all[b] :
           all[a][x].line = all[b][y].line => a = b /\ x = y
      /\ \A j \in 1 .. Len(body) : body[j].length > 0 => \E a \in 1 .. n : \E x \in DOMAIN all[a] : all[a][x].line = j
  <2>1. all \in Seq(Paras) /\ Gathered(all, Len(body))
    BY ParagraphsFacts
  <2> HIDE DEF all
  <2> QED
    BY <2>1 DEF Gathered
<1>2. blocks = Markdown!FlattenSeq(seqs)
  <2> DEFINE other == [i \in DOMAIN all |-> BlocksOf(all[i])]
  <2>1. blocks = Markdown!FlattenSeq(other)
    BY DEF Markdown!Blocks, BlocksOf
  <2>2. DOMAIN all = 1 .. n
    <3> HIDE DEF all
    <3> QED
      BY <1>1
  <2>3. other = seqs
    <3> HIDE DEF all
    <3> QED
      BY <2>2
  <2> HIDE DEF other, seqs, blocks
  <2> QED
    BY <2>1, <2>3
<1> HIDE DEF all, blocks
<1>3. n \in Nat /\ \A a \in 1 .. n : all[a] \in Paras
  BY <1>1
<1> HIDE DEF n
<1>4. ASSUME NEW a \in 1 .. n
      PROVE  /\ WholeLines(all[a]) /\ \A x \in DOMAIN all[a] : all[a][x].from = 0 /\ all[a][x].length = body[all[a][x].line].length
  <2>1. WholeLines(all[a])
    BY <1>1, <1>3 DEF WholeLines
  <2>2. ASSUME NEW x \in DOMAIN all[a] PROVE all[a][x].from = 0 /\ all[a][x].length = body[all[a][x].line].length
    <3> DEFINE i == all[a][x].line
    <3>1. i \in 1 .. Len(body) /\ all[a][x] = Markdown!Whole[i]
      BY <1>1
    <3> HIDE DEF i
    <3>2. Markdown!Whole[i] = [line |-> i, from |-> 0, length |-> body[i].length]
      BY <3>1, BodyFacts
    <3>3. all[a][x].from = 0 /\ all[a][x].length = body[i].length
      BY <3>1, <3>2
    <3> QED
      BY <3>3 DEF i
  <2> QED
    BY <2>1, <2>2
<1>5. ASSUME NEW a \in 1 .. n
      PROVE  /\ of(a) \in Seq(Paras) /\ Distinct(of(a))
             /\ \A k \in 1 .. Len(of(a)) : BlockFits(of(a)[k])
             /\ \A k \in 1 .. Len(of(a)) : \A y \in In(of(a)[k]) : \E x \in DOMAIN all[a] : y.line = all[a][x].line
             /\ \A x \in DOMAIN all[a] : \A c \in 0 .. all[a][x].length - 1 :
                  \E k \in 1 .. Len(of(a)) : \E y \in In(of(a)[k]) : Holds(y, all[a][x].line, c)
  <2> DEFINE p == all[a]
  <2>1. WholeLines(p) /\ \A x \in DOMAIN p : p[x].from = 0
    BY <1>4
  <2> HIDE DEF p
  <2>2. LET out == BlocksOf(p)
        IN  /\ out \in Seq(Paras) /\ Distinct(out)
            /\ \A k \in 1 .. Len(out) : BlockFits(out[k])
            /\ \A k \in 1 .. Len(out) : \A y \in In(out[k]) : \E x \in DOMAIN p : y.line = p[x].line
            /\ \A x \in DOMAIN p : \A c \in 0 .. p[x].length - 1 :
                 \E k \in 1 .. Len(out) : \E y \in In(out[k]) : Holds(y, p[x].line, c)
    BY <2>1, BlocksOfFacts
  <2> QED
    BY <2>2 DEF p
<1> HIDE DEF of
<1>6. seqs \in Seq(Seq(Paras)) /\ Len(seqs) = n /\ \A a \in 1 .. n : seqs[a] = of(a)
  <2>1. seqs \in [1 .. n -> Seq(Paras)]
    BY <1>5
  <2>2. \A a \in 1 .. n : seqs[a] = of(a)
    OBVIOUS
  <2> HIDE DEF seqs
  <2> QED
    BY <1>3, <2>1, <2>2
<1>7. /\ blocks \in Seq(Paras)
      /\ In(blocks) = UNION {In(seqs[a]) : a \in 1 .. n}
      /\ ( /\ \A a \in 1 .. n : Distinct(seqs[a])
           /\ \A a, b \in 1 .. n : a # b => In(seqs[a]) \cap In(seqs[b]) = {} )
         => Distinct(blocks)
  <2> HIDE DEF seqs
  <2> DEFINE flat == Markdown!FlattenSeq(seqs)
             m == Len(seqs)
  <2>1. /\ flat \in Seq(Paras)
        /\ In(flat) = UNION {In(seqs[a]) : a \in 1 .. m}
        /\ ( /\ \A a \in 1 .. m : Distinct(seqs[a])
             /\ \A a, b \in 1 .. m : a # b => In(seqs[a]) \cap In(seqs[b]) = {} )
           => Distinct(flat)
    BY <1>6, FlattenFacts
  <2>2. blocks = flat /\ m = n
    BY <1>2, <1>6 DEF seqs, of
  <2> HIDE DEF flat, In, m
  <2> QED
    BY <2>1, <2>2
<1> HIDE DEF seqs
<1>8. \A q : q \in In(blocks) <=> \E a \in 1 .. n : q \in In(seqs[a])
  <2> HIDE DEF In
  <2> QED
    BY <1>7, Zenon
<1>9. \A a \in 1 .. n : \A q : q \in In(seqs[a]) <=> \E k \in 1 .. Len(of(a)) : q = of(a)[k]
  <2> SUFFICES ASSUME NEW a \in 1 .. n, NEW q PROVE q \in In(seqs[a]) <=> \E k \in 1 .. Len(of(a)) : q = of(a)[k]
    OBVIOUS
  <2>1. DOMAIN of(a) = 1 .. Len(of(a)) /\ seqs[a] = of(a)
    BY <1>5, <1>6
  <2> QED
    BY <2>1 DEF Markdown!ToSet
<1>10. DOMAIN blocks = 1 .. Len(blocks) /\ \A q : q \in In(blocks) <=> \E k \in 1 .. Len(blocks) : q = blocks[k]
  <2>1. DOMAIN blocks = 1 .. Len(blocks)
    BY <1>7
  <2> QED
    BY <2>1 DEF Markdown!ToSet
<1>11. Distinct(blocks)
  <2>1. \A a \in 1 .. n : Distinct(seqs[a])
    BY <1>5, <1>6
  <2>2. ASSUME NEW a \in 1 .. n, NEW b \in 1 .. n, a # b PROVE In(seqs[a]) \cap In(seqs[b]) = {}
    <3> SUFFICES ASSUME NEW q, q \in In(seqs[a]), q \in In(seqs[b]) PROVE FALSE
      OBVIOUS
    <3> HIDE DEF In
    <3>1. PICK k \in 1 .. Len(of(a)) : q = of(a)[k]
      BY <1>9
    <3>2. PICK j \in 1 .. Len(of(b)) : q = of(b)[j]
      BY <1>9
    <3>3. q \in Paras
      BY <1>5, <3>1
    <3>4. q[1] \in In(q)
      <4>1. 1 \in DOMAIN q
        BY <3>3 DEF Paras
      <4> QED
        BY <4>1 DEF Markdown!ToSet, In
    <3> DEFINE i == q[1].line
    <3>5. PICK x \in DOMAIN all[a] : i = all[a][x].line
      BY <1>5, <3>1, <3>4
    <3>6. PICK y \in DOMAIN all[b] : i = all[b][y].line
      BY <1>5, <3>2, <3>4
    <3>7. all[a][x].line = all[b][y].line
      BY <3>5, <3>6
    <3>8. a = b
      BY <1>1, <3>5, <3>6, <3>7
    <3> QED
      BY <2>2, <3>8
  <2> HIDE DEF In
  <2> QED
    BY <1>7, <2>1, <2>2
<1>12. ASSUME NEW k \in 1 .. Len(blocks) PROVE BlockFits(blocks[k])
  <2> HIDE DEF In
  <2>1. PICK a \in 1 .. n : blocks[k] \in In(seqs[a])
    BY <1>8, <1>10
  <2>2. PICK j \in 1 .. Len(of(a)) : blocks[k] = of(a)[j]
    BY <1>9, <2>1
  <2> QED
    BY <1>5, <2>2
<1>13. ASSUME NEW i \in 1 .. Len(body), NEW c \in 0 .. body[i].length - 1
       PROVE  \E k \in 1 .. Len(blocks) : \E y \in In(blocks[k]) : Holds(y, i, c)
  <2> HIDE DEF In
  <2>1. body[i].length > 0
    <3>1. body[i].length \in Nat
      BY BodyFacts
    <3> QED
      BY <3>1
  <2>2. PICK a \in 1 .. n : \E x \in DOMAIN all[a] : all[a][x].line = i
    BY <1>1, <2>1 DEF n
  <2>3. PICK x \in DOMAIN all[a] : all[a][x].line = i
    BY <2>2
  <2>4. all[a][x].length = body[i].length
    BY <1>4, <2>3
  <2>5. PICK j \in 1 .. Len(of(a)) : \E y \in In(of(a)[j]) : Holds(y, i, c)
    BY <1>5, <2>3, <2>4
  <2>6. of(a)[j] \in In(blocks)
    BY <1>8, <1>9
  <2>7. PICK k \in 1 .. Len(blocks) : of(a)[j] = blocks[k]
    BY <1>10, <2>6
  <2> QED
    BY <2>5, <2>7
<1> QED
  BY <1>7, <1>11, <1>12, <1>13 DEF blocks

Parts == Seq(Paras) \ {<<>>}
PackStates == [parts : Seq(Parts), current : Seq(Paras)]

\* The length of a part is a number.
LEMMA JoinedLengthType ==
  ASSUME NEW q \in Seq(Paras)
  PROVE  Markdown!JoinedLength(q) \in Nat
<1> DEFINE n == Len(q)
           lengths == [k \in DOMAIN q |-> Markdown!Length(q[k])]
<1>1. n \in Nat /\ DOMAIN q = 1 .. n /\ \A k \in 1 .. n : q[k] \in Paras
  OBVIOUS
<1>2. \A k \in 1 .. n : Markdown!Length(q[k]) \in Nat
  BY <1>1, LengthFacts DEF Paras
<1>3. lengths \in Seq(Nat)
  <2>1. lengths \in [1 .. n -> Nat]
    BY <1>1, <1>2
  <2> HIDE DEF lengths, n
  <2> QED
    BY <1>1, <2>1
<1>4. Markdown!Joined(lengths, 2) \in Nat
  <2> HIDE DEF lengths
  <2> QED
    BY <1>3, JoinedFacts
<1> QED
  BY <1>4 DEF Markdown!JoinedLength

\* What is kept of the part before: nothing, or what the next block fits behind.
LEMMA OverlapFacts ==
  ASSUME NEW current \in Seq(Paras), NEW x \in Paras
  PROVE  LET kept == Markdown!Overlap(current, x)
         IN  kept \in Seq(Paras) /\ (kept = <<>> \/ Markdown!JoinedLength(Append(kept, x)) <= MaxChars)
<1> DEFINE n == Len(current)
           end(k) == SubSeq(current, n - k + 1, n)
           fits == {k \in 0 .. n : Markdown!JoinedLength(end(k)) <= OverlapChars}
           Most(k) == k \in fits /\ \A m \in fits : m <= k
           most == CHOOSE k \in fits : \A m \in fits : m <= k
           kept == end(most)
<1>1. n \in Nat /\ OverlapChars \in Nat /\ MaxChars \in Nat
  BY MarkdownAssumption
<1>2. \A k \in 0 .. n : end(k) \in Seq(Paras)
  <2> SUFFICES ASSUME NEW k \in 0 .. n PROVE end(k) \in Seq(Paras)
    OBVIOUS
  <2> DEFINE m == n - k + 1
  <2>1. m \in 1 .. n + 1
    BY <1>1
  <2> HIDE DEF m
  <2>2. SubSeq(current, m, n) \in Seq(Paras)
    BY <1>1, <2>1
  <2> QED
    BY <2>2 DEF m
<1>3. end(0) = <<>>
  <2>1. n - 0 + 1 > n
    BY <1>1
  <2> DEFINE m == n - 0 + 1
  <2>2. m = n + 1
    BY <1>1
  <2> HIDE DEF m
  <2>3. SubSeq(current, m, n) = <<>>
    BY <1>1, <2>2
  <2>4. end(0) = SubSeq(current, m, n)
    BY Zenon DEF m
  <2> HIDE DEF end, n
  <2> QED
    BY <2>3, <2>4, Zenon
<1> HIDE DEF n, end
<1>4. 0 \in fits
  <2>1. Markdown!JoinedLength(end(0)) = 0
    BY <1>3, JoinedLengthFacts
  <2> QED
    BY <1>1, <2>1
<1>5. fits \subseteq 0 .. n
  OBVIOUS
<1> HIDE DEF fits
<1>6. \E k \in fits : \A m \in fits : m <= k
  <2> DEFINE some == fits \cap (1 .. n)
  <2>1. CASE some = {}
    <3>1. \A m \in fits : m <= 0
      BY <1>1, <1>5, <2>1
    <3> QED
      BY <1>4, <3>1
  <2>2. CASE some # {}
    <3>1. some \in SUBSET (1 .. n)
      OBVIOUS
    <3>2. PICK k \in some : \A m \in some : m <= k
      <4> HIDE DEF some
      <4> QED
        BY <1>1, <2>2, <3>1, Greatest
    <3>3. \A m \in fits : m <= k
      BY <1>1, <1>5, <3>2
    <3> QED
      BY <3>2, <3>3
  <2> QED
    BY <2>1, <2>2
<1>7. most \in fits
  BY <1>6
<1> HIDE DEF most
<1>8. kept \in Seq(Paras)
  BY <1>2, <1>5, <1>7
<1>9. Markdown!Overlap(current, x) = IF Markdown!JoinedLength(Append(kept, x)) > MaxChars THEN <<>> ELSE kept
  BY DEF Markdown!Overlap, Markdown!Ending, end, most, fits, n
<1> HIDE DEF kept
<1>10. Append(kept, x) \in Seq(Paras)
  BY <1>8
<1>11. Markdown!JoinedLength(Append(kept, x)) \in Nat
  BY <1>10, JoinedLengthType
<1>12. <<>> \in Seq(Paras)
  OBVIOUS
<1> QED
  BY <1>1, <1>8, <1>9, <1>11, <1>12

\* A block behind what fits with it, or alone, is a part that fits.
LEMMA PartFacts ==
  ASSUME NEW base \in Seq(Paras), NEW x \in Paras, BlockFits(x),
         base = <<>> \/ Markdown!JoinedLength(Append(base, x)) <= MaxChars
  PROVE  Append(base, x) \in Parts /\ Markdown!PartFits(Append(base, x))
<1> DEFINE q == Append(base, x)
           h == Markdown!Header(q[1])
           more == IF Len(q) = 1 /\ h # <<>> THEN Markdown!Length(h) + 1 ELSE 0
<1>1. q \in Seq(Paras) /\ q # <<>> /\ q[1] \in Paras /\ MaxChars \in Nat
  <2>1. q \in Seq(Paras) /\ Len(q) = Len(base) + 1 /\ Len(base) \in Nat
    OBVIOUS
  <2>2. q # <<>> /\ 1 \in 1 .. Len(q)
    <3>1. Len(<<>>) = 0
      OBVIOUS
    <3> HIDE DEF q
    <3> QED
      BY <2>1, <3>1
  <2> HIDE DEF q
  <2> QED
    BY <2>1, <2>2, MarkdownAssumption
<1>2. Markdown!JoinedLength(q) \in Nat
  BY <1>1, JoinedLengthType
<1> HIDE DEF q
<1>3. more \in Nat
  <2>1. h \in Seq(Pieces)
    BY <1>1, HeaderFacts
  <2>2. Markdown!Length(h) \in Nat
    BY <2>1, LengthFacts
  <2> QED
    BY <2>2
<1>4. Markdown!PartFits(q) <=> Markdown!JoinedLength(q) <= MaxChars + more
  BY DEF Markdown!PartFits
<1>5. CASE Markdown!JoinedLength(q) <= MaxChars
  <2>1. Markdown!JoinedLength(q) <= MaxChars + more
    <3> HIDE DEF more
    <3> QED
      BY <1>1, <1>2, <1>3, <1>5
  <2> QED
    BY <1>1, <1>4, <2>1 DEF Parts, q
<1>6. CASE base = <<>>
  <2>1. q = <<x>> /\ Len(q) = 1 /\ q[1] = x
    BY <1>6 DEF q
  <2>2. x \in Seq(Pieces)
    BY DEF Paras
  <2>3. Markdown!JoinedLength(q) = Markdown!Length(x)
    <3>1. Markdown!JoinedLength(<<x>>) = Markdown!Length(x)
      BY <2>2, JoinedLengthFacts
    <3> QED
      BY <2>1, <3>1
  <2>4. CASE Markdown!Length(x) <= MaxChars
    BY <1>5, <2>3, <2>4
  <2>5. CASE Markdown!Header(x) # <<>> /\ Markdown!Length(x) <= MaxChars + (Markdown!Length(Markdown!Header(x)) + 1)
    <3>1. h = Markdown!Header(x)
      BY <2>1
    <3> HIDE DEF h
    <3>2. more = Markdown!Length(Markdown!Header(x)) + 1
      BY <2>1, <2>5, <3>1
    <3>3. Markdown!JoinedLength(q) <= MaxChars + more
      BY <2>3, <2>5, <3>2
    <3> QED
      BY <1>1, <1>4, <3>3 DEF Parts, q, h
  <2> QED
    BY <2>4, <2>5 DEF BlockFits
<1> QED
  BY <1>5, <1>6 DEF q

\* A block begins a part, behind what is kept of the last; or is put at the end of the last.
PackOn(all, now, x, i) ==
  \/ i # 1 /\ \E base \in Seq(Paras) : now = Append(all, Append(base, x)) /\ Markdown!PartFits(Append(base, x))
  \/ /\ Len(now) = Len(all) /\ \A a \in 1 .. Len(all) - 1 : now[a] = all[a]
     /\ now[Len(all)] = Append(all[Len(all)], x) /\ Markdown!PartFits(Append(all[Len(all)], x))

\* The parts so far, the one being packed among them.
Packs(s) == Append(s.parts, s.current)

\* The parts done, and behind them the one being packed.
LEMMA PacksFacts ==
  ASSUME NEW s \in PackStates
  PROVE  /\ s = [parts |-> s.parts, current |-> s.current]
         /\ s.parts \in Seq(Parts) /\ s.current \in Seq(Paras)
         /\ Packs(s) \in Seq(Seq(Paras)) /\ Len(s.parts) \in Nat /\ Len(Packs(s)) = Len(s.parts) + 1
         /\ Packs(s)[Len(s.parts) + 1] = s.current
         /\ \A a \in 1 .. Len(s.parts) : Packs(s)[a] = s.parts[a]
<1>1. s = [parts |-> s.parts, current |-> s.current] /\ s.parts \in Seq(Parts) /\ s.current \in Seq(Paras)
  BY DEF PackStates
<1> DEFINE d == s.parts
           b == s.current
<1>2. d \in Seq(Seq(Paras)) /\ b \in Seq(Paras)
  <2>1. Parts \subseteq Seq(Paras)
    BY DEF Parts
  <2> QED
    BY <1>1, <2>1
<1> HIDE DEF d, b
<1>3. /\ Len(d) \in Nat /\ Len(Append(d, b)) = Len(d) + 1 /\ Append(d, b)[Len(d) + 1] = b
      /\ \A a \in 1 .. Len(d) : Append(d, b)[a] = d[a]
      /\ Append(d, b) \in Seq(Seq(Paras))
  BY <1>2
<1> QED
  BY <1>1, <1>3 DEF Packs, d, b

\* A block begins a part behind the overlap, if it fits, or joins the one being packed.
LEMMA PackFacts ==
  ASSUME NEW s \in PackStates, NEW x \in Paras, BlockFits(x), NEW i \in Nat, i = 1 => s.current = <<>>
  PROVE  LET t == Markdown!Pack(s, x)
         IN  t \in PackStates /\ t.current # <<>> /\ PackOn(Packs(s), Packs(t), x, i)
<1> DEFINE t == Markdown!Pack(s, x)
           d == s.parts
           b == s.current
           n == Len(d)
           over == b # <<>> /\ Markdown!JoinedLength(Append(b, x)) > MaxChars
<1>1. /\ s = [parts |-> d, current |-> b] /\ d \in Seq(Parts) /\ b \in Seq(Paras) /\ n \in Nat
      /\ Len(Packs(s)) = n + 1 /\ Packs(s)[n + 1] = b /\ \A a \in 1 .. n : Packs(s)[a] = d[a]
  BY PacksFacts
<1>2. t = IF over THEN [parts |-> Append(d, b), current |-> Append(Markdown!Overlap(b, x), x)]
          ELSE [s EXCEPT !.current = Append(@, x)]
  BY DEF Markdown!Pack
<1>3. CASE over
  <2> DEFINE base == Markdown!Overlap(b, x)
             y == Append(base, x)
             z == Append(d, b)
  <2>1. base \in Seq(Paras) /\ (base = <<>> \/ Markdown!JoinedLength(Append(base, x)) <= MaxChars)
    BY <1>1, OverlapFacts
  <2>2. t = [parts |-> z, current |-> y]
    <3> HIDE DEF t, over
    <3> QED
      BY <1>2, <1>3
  <2>3. b # <<>>
    BY <1>3
  <2> HIDE DEF base, t, d, b, over
  <2>4. y \in Parts /\ Markdown!PartFits(y)
    BY <2>1, PartFacts
  <2>5. z \in Seq(Parts)
    BY <1>1, <2>3 DEF Parts
  <2>6. y \in Seq(Paras) /\ y # <<>>
    BY <2>4 DEF Parts
  <2> HIDE DEF y, z
  <2>7. t \in PackStates /\ t.parts = z /\ t.current = y
    BY <2>2, <2>5, <2>6 DEF PackStates
  <2>8. Packs(s) = z /\ Packs(t) = Append(z, y)
    BY <2>7 DEF Packs, z, d, b
  <2>9. i # 1
    BY <2>3 DEF b
  <2>10. PackOn(Packs(s), Packs(t), x, i)
    <3>1. Packs(t) = Append(Packs(s), Append(base, x)) /\ Markdown!PartFits(Append(base, x))
      BY <2>4, <2>8 DEF y
    <3> QED
      BY <2>1, <2>9, <3>1 DEF PackOn
  <2> QED
    BY <2>6, <2>7, <2>10 DEF t
<1>4. CASE ~over
  <2> DEFINE y == Append(b, x)
  <2>1. t = [s EXCEPT !.current = y]
    <3>1. t = [s EXCEPT !.current = Append(@, x)]
      <4> HIDE DEF t, over
      <4> QED
        BY <1>2, <1>4, Zenon
    <3> QED
      BY <3>1
  <2>2. b = <<>> \/ Markdown!JoinedLength(Append(b, x)) <= MaxChars
    <3>1. Append(b, x) \in Seq(Paras)
      BY <1>1
    <3>2. Markdown!JoinedLength(Append(b, x)) \in Nat /\ MaxChars \in Nat
      BY <3>1, JoinedLengthType, MarkdownAssumption
    <3> HIDE DEF b
    <3> QED
      BY <1>4, <3>2
  <2> HIDE DEF t, d, b, over
  <2>3. y \in Parts /\ Markdown!PartFits(y)
    BY <1>1, <2>2, PartFacts
  <2>4. y \in Seq(Paras) /\ y # <<>>
    BY <2>3 DEF Parts
  <2> HIDE DEF y
  <2>5. t = [parts |-> d, current |-> y]
    <3>1. t = [[parts |-> d, current |-> b] EXCEPT !.current = y]
      BY <1>1, <2>1
    <3> QED
      BY <3>1
  <2>6. t \in PackStates /\ t.parts = d /\ t.current = y
    BY <1>1, <2>4, <2>5 DEF PackStates
  <2>7. Len(Packs(t)) = n + 1 /\ Packs(t)[n + 1] = y /\ \A a \in 1 .. n : Packs(t)[a] = d[a]
    BY <2>6, PacksFacts
  <2>8. (n + 1) - 1 = n
    BY <1>1
  <2> HIDE DEF n
  <2>9. /\ Len(Packs(t)) = Len(Packs(s)) /\ \A a \in 1 .. Len(Packs(s)) - 1 : Packs(t)[a] = Packs(s)[a]
        /\ Packs(t)[Len(Packs(s))] = Append(Packs(s)[Len(Packs(s))], x)
        /\ Markdown!PartFits(Append(Packs(s)[Len(Packs(s))], x))
    BY <1>1, <2>3, <2>7, <2>8 DEF y
  <2>10. PackOn(Packs(s), Packs(t), x, i)
    BY <2>9 DEF PackOn
  <2> QED
    BY <2>4, <2>6, <2>10 DEF t
<1> QED
  BY <1>3, <1>4

\* So it is through all the blocks.
LEMMA PackingFacts ==
  ASSUME body \in Seq(Markdown!BodyLines)
  PROVE  LET state == Markdown!Packing
             blocks == Markdown!Blocks
         IN  /\ state[0] = [parts |-> <<>>, current |-> <<>>]
             /\ \A i \in 0 .. Len(blocks) : state[i] \in PackStates
             /\ \A i \in 1 .. Len(blocks) : state[i].current # <<>> /\ PackOn(Packs(state[i - 1]), Packs(state[i]), blocks[i], i)
<1> DEFINE blocks == Markdown!Blocks
           n == Len(blocks)
           first == [parts |-> <<>>, current |-> <<>>]
           step == [q \in (1 .. n) \X PackStates |-> Markdown!Pack(q[2], blocks[q[1]])]
           Is(f) == f = [j \in 0 .. n |-> IF j = 0 THEN first ELSE Markdown!Pack(f[j - 1], blocks[j])]
           state == Markdown!Packing
<1>1. n \in Nat /\ \A j \in 1 .. n : blocks[j] \in Paras /\ BlockFits(blocks[j])
  <2>1. blocks \in Seq(Paras) /\ \A j \in 1 .. n : BlockFits(blocks[j])
    BY BlocksFacts
  <2> HIDE DEF blocks
  <2> QED
    BY <2>1
<1>2. state = CHOOSE g : Is(g)
  BY DEF Markdown!Packing
<1> HIDE DEF n, blocks
<1>3. \A j \in 1 .. n, s \in PackStates : Markdown!Pack(s, blocks[j]) \in PackStates /\ Markdown!Pack(s, blocks[j]).current # <<>>
  <2> SUFFICES ASSUME NEW j \in 1 .. n, NEW s \in PackStates
               PROVE  Markdown!Pack(s, blocks[j]) \in PackStates /\ Markdown!Pack(s, blocks[j]).current # <<>>
    OBVIOUS
  <2> DEFINE x == blocks[j]
  <2>1. x \in Paras /\ BlockFits(x)
    BY <1>1
  <2> HIDE DEF x
  <2>2. 2 \in Nat /\ (2 = 1 => s.current = <<>>)
    OBVIOUS
  <2>3. Markdown!Pack(s, x) \in PackStates /\ Markdown!Pack(s, x).current # <<>>
    BY <2>1, <2>2, PackFacts
  <2> QED
    BY <2>3 DEF x
<1>4. first \in PackStates /\ first.current = <<>>
  <2>1. <<>> \in Seq(Parts) /\ <<>> \in Seq(Paras)
    OBVIOUS
  <2> QED
    BY <2>1 DEF PackStates
<1> HIDE DEF first
<1>5. step \in [(1 .. n) \X PackStates -> PackStates]
  BY <1>3
<1>6. \A j \in 1 .. n, s \in PackStates : step[<<j, s>>] = Markdown!Pack(s, blocks[j])
  OBVIOUS
<1> HIDE DEF step
<1>7. PICK f \in [0 .. n -> PackStates] : f[0] = first /\ \A i \in 1 .. n : f[i] = step[<<i, f[i - 1]>>]
  <2>1. Stepped(n, PackStates, first, step)
    BY <1>1, <1>4, <1>5, Recursion
  <2> QED
    BY <2>1 DEF Stepped
<1>8. \A j \in 1 .. n : f[j] = Markdown!Pack(f[j - 1], blocks[j])
  <2> SUFFICES ASSUME NEW j \in 1 .. n PROVE f[j] = Markdown!Pack(f[j - 1], blocks[j])
    OBVIOUS
  <2>1. j - 1 \in 0 .. n
    BY <1>1
  <2> QED
    BY <1>6, <1>7, <2>1
<1>9. Is(f)
  <2>1. \A j \in 0 .. n : f[j] = IF j = 0 THEN first ELSE Markdown!Pack(f[j - 1], blocks[j])
    BY <1>1, <1>7, <1>8
  <2> QED
    BY <2>1
<1>10. Is(state)
  <2> HIDE DEF Is, state
  <2> QED
    BY <1>2, <1>9
<1> HIDE DEF state
<1>11. state[0] = first /\ \A j \in 1 .. n : state[j] = Markdown!Pack(state[j - 1], blocks[j])
  BY <1>1, <1>10
<1>12. \A i \in Nat : i <= n => state[i] \in PackStates
  <2> DEFINE S == {i \in Nat : i <= n => state[i] \in PackStates}
  <2>1. S \in SUBSET Nat /\ 0 \in S
    BY <1>4, <1>11
  <2>2. ASSUME NEW m \in S PROVE m + 1 \in S
    <3> SUFFICES ASSUME m + 1 <= n PROVE state[m + 1] \in PackStates
      OBVIOUS
    <3>1. m \in Nat /\ m <= n /\ m + 1 \in 1 .. n /\ (m + 1) - 1 = m
      BY <1>1
    <3>2. state[m] \in PackStates
      BY <3>1
    <3>3. state[m + 1] = Markdown!Pack(state[m], blocks[m + 1])
      BY <1>11, <3>1
    <3> QED
      BY <1>3, <3>1, <3>2, <3>3
  <2> HIDE DEF S
  <2>3. S = Nat
    BY <2>1, <2>2, NatSetInduction
  <2> QED
    BY <2>3 DEF S
<1>13. ASSUME NEW i \in 1 .. n PROVE state[i].current # <<>> /\ PackOn(Packs(state[i - 1]), Packs(state[i]), blocks[i], i)
  <2> DEFINE s == state[i - 1]
             x == blocks[i]
  <2>1. i - 1 \in Nat /\ i - 1 <= n /\ i \in Nat /\ (i = 1 => i - 1 = 0)
    BY <1>1
  <2>2. s \in PackStates /\ state[i] = Markdown!Pack(s, x) /\ x \in Paras /\ BlockFits(x)
    BY <1>1, <1>11, <1>12, <2>1
  <2>3. i = 1 => s.current = <<>>
    BY <1>4, <1>11, <2>1
  <2> HIDE DEF s, x
  <2>4. Markdown!Pack(s, x).current # <<>> /\ PackOn(Packs(s), Packs(Markdown!Pack(s, x)), x, i)
    BY <2>1, <2>2, <2>3, PackFacts
  <2>5. state[i].current # <<>> /\ PackOn(Packs(s), Packs(state[i]), x, i)
    BY <2>2, <2>4
  <2> QED
    BY <2>5 DEF s, x
<1>14. \A i \in 0 .. n : state[i] \in PackStates
  BY <1>1, <1>12
<1> QED
  BY <1>11, <1>13, <1>14 DEF n, state, first, blocks

\* A part ends with the block put last, and keeps those before it.
LEMMA PartEnds ==
  ASSUME NEW q \in Seq(Paras), NEW x \in Paras
  PROVE  /\ Append(q, x) # <<>> /\ Ending(Append(q, x)) = x
         /\ \A y : y \in Markdown!ToSet(q) \/ y = x => y \in Markdown!ToSet(Append(q, x))
<1> DEFINE u == Append(q, x)
           n == Len(q)
<1>1. /\ n \in Nat /\ DOMAIN q = 1 .. n /\ Len(u) = n + 1 /\ DOMAIN u = 1 .. n + 1 /\ u[n + 1] = x
      /\ \A k \in 1 .. n : u[k] = q[k]
  OBVIOUS
<1>2. Len(<<>>) = 0
  OBVIOUS
<1> HIDE DEF u, n
<1>3. u # <<>> /\ Ending(u) = x
  BY <1>1, <1>2 DEF Ending
<1>4. n + 1 \in 1 .. n + 1 /\ \A k \in 1 .. n : k \in 1 .. n + 1
  BY <1>1
<1>5. \A y : y \in Markdown!ToSet(q) \/ y = x => y \in Markdown!ToSet(u)
  BY <1>1, <1>4 DEF Markdown!ToSet
<1> QED
  BY <1>3, <1>5 DEF u

\* Every part fits and ends with a block no other ends with; together they have every block.
Packed(all, i, blocks) ==
  /\ i = 0 => Len(all) = 1
  /\ i # 0 => \A a \in 1 .. Len(all) : Markdown!PartFits(all[a]) /\ \E j \in 1 .. i : Ending(all[a]) = blocks[j]
  /\ i # 0 => \A a, b \in 1 .. Len(all) : a # b => Ending(all[a]) # Ending(all[b])
  /\ \A j \in 1 .. i : \E a \in 1 .. Len(all) : blocks[j] \in Markdown!ToSet(all[a])

\* That parts fit, end differently and have every block between them survives each block.
LEMMA PackedStep ==
  ASSUME NEW all \in Seq(Seq(Paras)), NEW now, NEW blocks \in Seq(Paras), Distinct(blocks),
         NEW i \in 1 .. Len(blocks), all # <<>>, PackOn(all, now, blocks[i], i), Packed(all, i - 1, blocks)
  PROVE  Packed(now, i, blocks)
<1> DEFINE n == Len(all)
           x == blocks[i]
           In(q) == Markdown!ToSet(q)
           c == Len(blocks)
<1>1. n \in Nat \ {0} /\ \A a \in 1 .. n : all[a] \in Seq(Paras)
  OBVIOUS
<1>2. /\ x \in Paras /\ i \in Nat /\ i # 0 /\ 1 .. i = (1 .. i - 1) \cup {i} /\ i \in 1 .. i
      /\ i - 1 = 0 <=> i = 1
      /\ \A j \in 1 .. i - 1 : blocks[j] # x
  <2>1. c \in Nat /\ DOMAIN blocks = 1 .. c /\ x \in Paras
    OBVIOUS
  <2>2. i \in Nat /\ i # 0 /\ 1 .. i = (1 .. i - 1) \cup {i} /\ i \in 1 .. i /\ (i - 1 = 0 <=> i = 1)
    BY <2>1
  <2>3. \A j \in 1 .. i - 1 : j \in 1 .. c /\ i \in 1 .. c /\ j # i
    BY <2>1
  <2>4. \A j \in 1 .. i - 1 : blocks[j] # blocks[i]
    BY <2>1, <2>3 DEF Distinct
  <2> QED
    BY <2>1, <2>2, <2>4
<1>3. /\ i = 1 => n = 1
      /\ i # 1 => \A a \in 1 .. n : Markdown!PartFits(all[a]) /\ \E j \in 1 .. i - 1 : Ending(all[a]) = blocks[j]
      /\ i # 1 => \A a, b \in 1 .. n : a # b => Ending(all[a]) # Ending(all[b])
      /\ \A j \in 1 .. i - 1 : \E a \in 1 .. n : blocks[j] \in In(all[a])
  <2> HIDE DEF In, n
  <2> QED
    BY <1>2 DEF Packed, n, In
<1>4. \/ i # 1 /\ \E base \in Seq(Paras) : now = Append(all, Append(base, x)) /\ Markdown!PartFits(Append(base, x))
      \/ /\ Len(now) = n /\ \A a \in 1 .. n - 1 : now[a] = all[a]
         /\ now[n] = Append(all[n], x) /\ Markdown!PartFits(Append(all[n], x))
  BY DEF PackOn
\* It is enough that the part x was put to is good, and that the others were there before.
<1>5. ASSUME NEW m \in Nat \ {0}, Len(now) = m, Markdown!PartFits(now[m]), Ending(now[m]) = x, x \in In(now[m]),
             \A a \in 1 .. m - 1 : i # 1 /\ a \in 1 .. n /\ now[a] = all[a],
             \A a \in 1 .. n : \A y \in In(all[a]) : \E b \in 1 .. m : y \in In(now[b])
      PROVE  Packed(now, i, blocks)
  <2>1. 1 .. m = (1 .. m - 1) \cup {m}
    BY <1>5
  <2> HIDE DEF In, x, n
  <2>2. \A a \in 1 .. m : Markdown!PartFits(now[a]) /\ \E j \in 1 .. i : Ending(now[a]) = blocks[j]
    <3> SUFFICES ASSUME NEW a \in 1 .. m PROVE Markdown!PartFits(now[a]) /\ \E j \in 1 .. i : Ending(now[a]) = blocks[j]
      OBVIOUS
    <3>1. CASE a = m
      BY <1>2, <1>5, <3>1 DEF x
    <3>2. CASE a \in 1 .. m - 1
      <4>1. i # 1 /\ a \in 1 .. n /\ now[a] = all[a]
        BY <1>5, <3>2
      <4>2. Markdown!PartFits(all[a]) /\ \E j \in 1 .. i - 1 : Ending(all[a]) = blocks[j]
        BY <1>3, <4>1
      <4>3. PICK j \in 1 .. i - 1 : Ending(all[a]) = blocks[j]
        BY <4>2
      <4>4. j \in 1 .. i
        BY <1>2
      <4> QED
        BY <4>1, <4>2, <4>3, <4>4
    <3> QED
      BY <2>1, <3>1, <3>2
  <2>3. \A a \in 1 .. m - 1 : Ending(now[a]) # Ending(now[m])
    <3> SUFFICES ASSUME NEW a \in 1 .. m - 1 PROVE Ending(now[a]) # x
      BY <1>5
    <3>1. i # 1 /\ a \in 1 .. n /\ now[a] = all[a]
      BY <1>5
    <3>2. PICK j \in 1 .. i - 1 : Ending(all[a]) = blocks[j]
      BY <1>3, <3>1
    <3>3. blocks[j] # x
      BY <1>2
    <3> QED
      BY <3>1, <3>2, <3>3
  <2>4. \A a, b \in 1 .. m : a # b => Ending(now[a]) # Ending(now[b])
    <3> SUFFICES ASSUME NEW a \in 1 .. m, NEW b \in 1 .. m, a # b PROVE Ending(now[a]) # Ending(now[b])
      OBVIOUS
    <3>1. CASE a = m \/ b = m
      BY <2>1, <2>3, <3>1
    <3>2. CASE a \in 1 .. m - 1 /\ b \in 1 .. m - 1
      BY <1>3, <1>5, <3>2
    <3> QED
      BY <2>1, <3>1, <3>2
  <2>5. \A j \in 1 .. i : \E a \in 1 .. m : blocks[j] \in In(now[a])
    <3> SUFFICES ASSUME NEW j \in 1 .. i PROVE \E a \in 1 .. m : blocks[j] \in In(now[a])
      OBVIOUS
    <3>1. CASE j = i
      <4>1. m \in 1 .. m
        BY <1>5
      <4> QED
        BY <1>5, <3>1, <4>1 DEF x
    <3>2. CASE j \in 1 .. i - 1
      BY <1>3, <1>5, <3>2
    <3> QED
      BY <1>2, <3>1, <3>2
  <2>6. Len(now) = m /\ i # 0
    BY <1>2, <1>5
  <2> QED
    BY <2>2, <2>4, <2>5, <2>6 DEF Packed, In
<1>6. CASE i # 1 /\ \E base \in Seq(Paras) : now = Append(all, Append(base, x)) /\ Markdown!PartFits(Append(base, x))
  <2>1. PICK base \in Seq(Paras) : now = Append(all, Append(base, x)) /\ Markdown!PartFits(Append(base, x))
    BY <1>6
  <2> DEFINE new == Append(base, x)
  <2>2. new \in Seq(Paras) /\ Ending(new) = x /\ x \in In(new)
    <3>1. Ending(new) = x /\ x \in In(new)
      BY <1>2, PartEnds
    <3> QED
      BY <1>2, <3>1
  <2>3. now = Append(all, new) /\ Markdown!PartFits(new)
    BY <2>1
  <2> HIDE DEF new
  <2>4. Len(now) = n + 1 /\ now[n + 1] = new /\ \A a \in 1 .. n : now[a] = all[a]
    BY <2>2, <2>3
  <2> HIDE DEF In, n, x
  <2>5. n + 1 \in Nat \ {0} /\ (n + 1) - 1 = n /\ \A a \in 1 .. n : a \in 1 .. n + 1
    BY <1>1
  <2>6. \A a \in 1 .. n : \A y \in In(all[a]) : \E b \in 1 .. n + 1 : y \in In(now[b])
    BY <2>4, <2>5
  <2>7. Markdown!PartFits(now[n + 1]) /\ Ending(now[n + 1]) = x /\ x \in In(now[n + 1])
    BY <2>2, <2>3, <2>4
  <2>8. \A a \in 1 .. (n + 1) - 1 : i # 1 /\ a \in 1 .. n /\ now[a] = all[a]
    BY <1>6, <2>4, <2>5
  <2> QED
    BY <1>5, <2>4, <2>5, <2>6, <2>7, <2>8
<1>7. CASE /\ Len(now) = n /\ \A a \in 1 .. n - 1 : now[a] = all[a]
           /\ now[n] = Append(all[n], x) /\ Markdown!PartFits(Append(all[n], x))
  <2> HIDE DEF In, n, x
  <2>1. n \in 1 .. n /\ (\A a \in 1 .. n : a # n => a \in 1 .. n - 1) /\ \A a \in 1 .. n - 1 : a \in 1 .. n /\ n # 1
    BY <1>1
  <2>2. Ending(now[n]) = x /\ x \in In(now[n]) /\ \A y \in In(all[n]) : y \in In(now[n])
    <3> DEFINE q == all[n]
    <3>1. q \in Seq(Paras)
      BY <1>1, <2>1
    <3> HIDE DEF q
    <3>2. Ending(Append(q, x)) = x /\ \A y : y \in In(q) \/ y = x => y \in In(Append(q, x))
      BY <1>2, <3>1, PartEnds DEF In
    <3>3. now[n] = Append(q, x)
      BY <1>7 DEF q
    <3> QED
      BY <3>2, <3>3 DEF q
  <2>3. \A a \in 1 .. n - 1 : i # 1 /\ a \in 1 .. n /\ now[a] = all[a]
    BY <1>3, <1>7, <2>1
  <2>4. \A a \in 1 .. n : \A y \in In(all[a]) : \E b \in 1 .. n : y \in In(now[b])
    <3> SUFFICES ASSUME NEW a \in 1 .. n, NEW y \in In(all[a]) PROVE \E b \in 1 .. n : y \in In(now[b])
      OBVIOUS
    <3>1. CASE a = n
      BY <2>1, <2>2, <3>1
    <3>2. CASE a # n
      BY <1>7, <2>1, <3>2
    <3> QED
      BY <3>1, <3>2
  <2>5. Markdown!PartFits(now[n])
    BY <1>7
  <2> QED
    BY <1>1, <1>5, <1>7, <2>2, <2>3, <2>4, <2>5
<1> HIDE DEF In, n, x
<1> QED
  BY <1>4, <1>6, <1>7

\* What split promises of a body, whatever its lines.
LEMMA PartsFacts ==
  ASSUME body \in Seq(Markdown!BodyLines)
  PROVE  Markdown!PartsCover
<1> DEFINE parts == Markdown!Split
           blocks == Markdown!Blocks
           state == Markdown!Packing
           n == Len(blocks)
           whole == Markdown!Whole
           In(q) == Markdown!ToSet(q)
           pieces == UNION {UNION {In(parts[a][k]) : k \in DOMAIN parts[a]} : a \in DOMAIN parts}
           Covered == \A i \in DOMAIN body : \A c \in 0 .. body[i].length - 1 :
                        \E p \in pieces : p.line = i /\ p.from <= c /\ c < p.from + p.length
           Fit == \A a \in DOMAIN parts : Markdown!PartFits(parts[a])
           Turn == \A a \in 1 .. Len(parts) - 1 : parts[a][Len(parts[a])] # parts[a + 1][Len(parts[a + 1])]
<1>1. /\ Len(body) \in Nat /\ DOMAIN body = 1 .. Len(body)
      /\ \A i \in 1 .. Len(body) : body[i].length \in Nat
      /\ whole \in Seq(Pieces) /\ Len(whole) = Len(body)
      /\ \A i \in 1 .. Len(body) : whole[i] = [line |-> i, from |-> 0, length |-> body[i].length]
  BY BodyFacts
<1>2. /\ blocks \in Seq(Paras) /\ Distinct(blocks)
      /\ \A i \in 1 .. Len(body) : \A c \in 0 .. body[i].length - 1 :
           \E a \in 1 .. n : \E y \in In(blocks[a]) : Holds(y, i, c)
  BY BlocksFacts
<1>3. /\ state[0] = [parts |-> <<>>, current |-> <<>>]
      /\ \A i \in 0 .. n : state[i] \in PackStates
      /\ \A i \in 1 .. n : state[i].current # <<>> /\ PackOn(Packs(state[i - 1]), Packs(state[i]), blocks[i], i)
  BY PackingFacts
<1>4. parts = IF Markdown!Length(whole) <= MaxChars THEN <<<<whole>>>>
              ELSE IF state[n].current = <<>> THEN state[n].parts ELSE Packs(state[n])
  BY DEF Markdown!Split, Packs
<1>5. Markdown!PartsCover <=> Covered /\ Fit /\ Turn
  BY DEF Markdown!PartsCover, Markdown!Covers
<1> HIDE DEF parts, blocks, state, whole
<1>6. n \in Nat
  BY <1>2
<1> HIDE DEF n
\* Every piece of every paragraph of every part is among the pieces.
<1>7. \A a \in DOMAIN parts : \A k \in DOMAIN parts[a] : \A y \in In(parts[a][k]) : y \in pieces
  <2> HIDE DEF In
  <2> QED
    OBVIOUS
<1>8. CASE Markdown!Length(whole) <= MaxChars
  <2>1. parts = <<<<whole>>>> /\ DOMAIN parts = {1} /\ Len(parts) = 1 /\ parts[1] = <<whole>>
    <3>1. parts = <<<<whole>>>>
      BY <1>4, <1>8
    <3> QED
      BY <3>1
  <2>2. Len(<<whole>>) = 1 /\ DOMAIN <<whole>> = {1} /\ <<whole>>[1] = whole
    OBVIOUS
  <2>3. Covered
    <3> SUFFICES ASSUME NEW i \in DOMAIN body, NEW c \in 0 .. body[i].length - 1
                 PROVE  \E p \in pieces : p.line = i /\ p.from <= c /\ c < p.from + p.length
      OBVIOUS
    <3>1. i \in 1 .. Len(body) /\ body[i].length \in Nat /\ whole[i] = [line |-> i, from |-> 0, length |-> body[i].length]
      BY <1>1
    <3>2. whole[i].line = i /\ whole[i].from <= c /\ c < whole[i].from + whole[i].length
      BY <3>1
    <3>3. whole[i] \in In(whole)
      <4>1. i \in DOMAIN whole
        BY <1>1
      <4> QED
        BY <4>1 DEF Markdown!ToSet
    <3>4. whole[i] \in pieces
      <4>1. 1 \in DOMAIN parts /\ 1 \in DOMAIN parts[1] /\ parts[1][1] = whole
        BY <2>1, <2>2
      <4> HIDE DEF In, pieces
      <4> QED
        BY <1>7, <3>3, <4>1
    <3> HIDE DEF pieces
    <3> QED
      BY <3>2, <3>4
  <2>4. Fit
    <3>1. Markdown!JoinedLength(<<whole>>) = Markdown!Length(whole)
      BY <1>1, JoinedLengthFacts
    <3>2. Markdown!Length(whole) \in Nat /\ MaxChars \in Nat
      BY <1>1, LengthFacts, MarkdownAssumption
    <3> DEFINE h == Markdown!Header(whole)
               more == IF Len(<<whole>>) = 1 /\ Markdown!Header(<<whole>>[1]) # <<>>
                         THEN Markdown!Length(Markdown!Header(<<whole>>[1])) + 1 ELSE 0
    <3>3. more \in Nat
      <4>1. h # <<>> => Markdown!Length(h) \in Nat
        <5>1. CASE whole = <<>>
          <6>1. ~(Len(whole) >= 2)
            BY <5>1
          <6>2. h = <<>>
            BY <6>1 DEF Markdown!Header
          <6> QED
            BY <6>2
        <5>2. CASE whole # <<>>
          <6>1. whole \in Paras
            BY <1>1, <5>2 DEF Paras
          <6>2. h \in Seq(Pieces)
            BY <6>1, HeaderFacts
          <6> QED
            BY <6>2, LengthFacts
        <5> QED
          BY <5>1, <5>2
      <4>2. Markdown!Header(<<whole>>[1]) = h
        BY <2>2
      <4> HIDE DEF h
      <4> QED
        BY <4>1, <4>2
    <3>4. Markdown!PartFits(<<whole>>) <=> Markdown!JoinedLength(<<whole>>) <= MaxChars + more
      BY DEF Markdown!PartFits
    <3> HIDE DEF more
    <3>5. Markdown!PartFits(<<whole>>)
      BY <1>8, <3>1, <3>2, <3>3, <3>4
    <3> QED
      BY <2>1, <3>5
  <2>5. Turn
    BY <2>1
  <2> HIDE DEF Covered, Fit, Turn
  <2> QED
    BY <1>5, <2>3, <2>4, <2>5
<1>9. \A i \in Nat : i <= n => Packed(Packs(state[i]), i, blocks)
  <2> DEFINE S == {i \in Nat : i <= n => Packed(Packs(state[i]), i, blocks)}
  <2>1. S \in SUBSET Nat
    OBVIOUS
  <2>2. 0 \in S
    <3>1. Len(Packs(state[0])) = 1
      <4>1. state[0] \in PackStates /\ state[0].parts = <<>>
        BY <1>3, <1>6
      <4>2. Len(Packs(state[0])) = Len(state[0].parts) + 1
        BY <4>1, PacksFacts
      <4>3. Len(<<>>) = 0
        OBVIOUS
      <4> QED
        BY <4>1, <4>2, <4>3
    <3>2. 1 .. 0 = {}
      OBVIOUS
    <3>3. Packed(Packs(state[0]), 0, blocks)
      BY <3>1, <3>2 DEF Packed
    <3> QED
      BY <3>3
  <2>3. ASSUME NEW m \in S PROVE m + 1 \in S
    <3> SUFFICES ASSUME m + 1 <= n PROVE Packed(Packs(state[m + 1]), m + 1, blocks)
      OBVIOUS
    <3>1. m \in Nat /\ m <= n /\ m + 1 \in 1 .. n /\ (m + 1) - 1 = m /\ m \in 0 .. n
      BY <1>6
    <3>2. Packed(Packs(state[m]), m, blocks)
      BY <3>1
    <3> DEFINE all == Packs(state[m])
               now == Packs(state[m + 1])
               i == m + 1
    <3>3. all \in Seq(Seq(Paras)) /\ all # <<>>
      <4>1. state[m] \in PackStates
        BY <1>3, <3>1
      <4>2. all \in Seq(Seq(Paras)) /\ Len(all) = Len(state[m].parts) + 1 /\ Len(state[m].parts) \in Nat
        BY <4>1, PacksFacts
      <4> HIDE DEF all
      <4>3. Len(all) # 0 /\ Len(<<>>) = 0
        BY <4>2, SMTT(30)
      <4> QED
        BY <4>2, <4>3
    <3>4. PackOn(all, now, blocks[i], i)
      BY <1>3, <3>1
    <3>5. Packed(all, i - 1, blocks) /\ i \in 1 .. Len(blocks)
      BY <3>1, <3>2 DEF n
    <3> HIDE DEF all, now, i, S
    <3>6. Packed(now, i, blocks)
      BY <1>2, <3>3, <3>4, <3>5, PackedStep
    <3> QED
      BY <3>6 DEF now, i
  <2> HIDE DEF S
  <2>4. S = Nat
    BY <2>1, <2>2, <2>3, NatSetInduction
  <2> QED
    BY <2>4 DEF S
<1>10. CASE ~(Markdown!Length(whole) <= MaxChars) /\ n = 0
  <2>1. parts = <<>>
    <3>1. parts = state[n].parts
      BY <1>3, <1>4, <1>10
    <3> QED
      BY <1>3, <1>10, <3>1
  <2>2. 1 .. n = {}
    BY <1>10
  <2>3. Covered
    <3> SUFFICES ASSUME NEW i \in DOMAIN body, NEW c \in 0 .. body[i].length - 1 PROVE FALSE
      BY DEF Covered
    <3>1. i \in 1 .. Len(body)
      BY <1>1
    <3>2. \E a \in 1 .. n : TRUE
      BY <1>2, <3>1
    <3> QED
      BY <2>2, <3>2
  <2>4. DOMAIN parts = {} /\ Len(parts) = 0 /\ 1 .. 0 - 1 = {}
    BY <2>1
  <2>5. Fit /\ Turn
    BY <2>4
  <2> HIDE DEF Covered, Fit, Turn
  <2> QED
    BY <1>5, <2>3, <2>5
<1>11. CASE ~(Markdown!Length(whole) <= MaxChars) /\ n # 0
  <2>1. n \in 1 .. n /\ n \in 0 .. n
    BY <1>6, <1>11
  <2>2. parts = Packs(state[n])
    BY <1>3, <1>4, <1>11, <2>1
  <2>3. Packed(parts, n, blocks)
    BY <1>6, <1>9, <2>2
  <2>4. parts \in Seq(Seq(Paras))
    <3>1. Packs(state[n]) \in Seq(Seq(Paras))
      BY <1>3, <2>1, PacksFacts
    <3> QED
      BY <2>2, <3>1
  <2>5. Len(parts) \in Nat /\ DOMAIN parts = 1 .. Len(parts) /\ \A a \in DOMAIN parts : parts[a] \in Seq(Paras)
    BY <2>4
  <2>6. /\ \A a \in 1 .. Len(parts) : Markdown!PartFits(parts[a])
        /\ \A a, b \in 1 .. Len(parts) : a # b => Ending(parts[a]) # Ending(parts[b])
        /\ \A j \in 1 .. n : \E a \in 1 .. Len(parts) : blocks[j] \in In(parts[a])
    BY <1>11, <2>3 DEF Packed
  <2>7. Fit
    BY <2>5, <2>6
  <2>8. Turn
    <3> SUFFICES ASSUME NEW a \in 1 .. Len(parts) - 1 PROVE Ending(parts[a]) # Ending(parts[a + 1])
      BY DEF Ending
    <3>1. a \in 1 .. Len(parts) /\ a + 1 \in 1 .. Len(parts) /\ a # a + 1
      BY <2>5
    <3> QED
      BY <2>6, <3>1
  <2>9. Covered
    <3> SUFFICES ASSUME NEW i \in DOMAIN body, NEW c \in 0 .. body[i].length - 1
                 PROVE  \E p \in pieces : p.line = i /\ p.from <= c /\ c < p.from + p.length
      BY DEF Covered
    <3>1. i \in 1 .. Len(body)
      BY <1>1
    <3>2. PICK j \in 1 .. n : \E y \in In(blocks[j]) : Holds(y, i, c)
      BY <1>2, <3>1
    <3>3. PICK y \in In(blocks[j]) : Holds(y, i, c)
      BY <3>2
    <3>4. PICK a \in 1 .. Len(parts) : blocks[j] \in In(parts[a])
      BY <2>6
    <3>5. PICK k \in DOMAIN parts[a] : blocks[j] = parts[a][k]
      BY <3>4 DEF Markdown!ToSet
    <3>6. y \in pieces
      <4> HIDE DEF In, pieces
      <4> QED
        BY <1>7, <2>5, <3>3, <3>4, <3>5
    <3> HIDE DEF pieces
    <3> QED
      BY <3>3, <3>6 DEF Holds
  <2> HIDE DEF Covered, Fit, Turn
  <2> QED
    BY <1>5, <2>7, <2>8, <2>9
<1> QED
  BY <1>8, <1>10, <1>11

\* A document and a body are lines, whatever is written on them; sections and split are functions of these.
ChunksInv == document \in Seq(Markdown!Lines) /\ body \in Seq(Markdown!BodyLines)

\* The machine writes lines of the kinds there are.
LEMMA ChunksStep ==
  ASSUME ChunksInv, [Markdown!Next]_(Markdown!vars)
  PROVE  ChunksInv'
<1>1. CASE Markdown!WriteLine
  BY <1>1 DEF Markdown!WriteLine, ChunksInv
<1>2. CASE Markdown!WriteBody
  BY <1>2 DEF Markdown!WriteBody, ChunksInv
<1>3. CASE UNCHANGED Markdown!vars
  BY <1>3 DEF Markdown!vars, ChunksInv
<1> QED
  BY <1>1, <1>2, <1>3 DEF Markdown!Next

\* Of any lines, what ChunksSound says.
LEMMA ChunksHold ==
  ASSUME ChunksInv
  PROVE  Markdown!SectionsFaithful /\ Markdown!PartsCover
  BY FaithfulSections, PartsFacts DEF ChunksInv
==============================================================================
