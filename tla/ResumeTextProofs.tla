-------------------------- MODULE ResumeTextProofs --------------------------
(***************************************************************************)
(* Proofs about ResumeText for texts of any length, any headers and any    *)
(* kinds of line: the two readings of one text agree, and the tailored     *)
(* resume is made of exactly the lines its definition names.  The sections *)
(* of a text are the last of a row of cuts, one for each line; what is     *)
(* said of them for every text is said of each cut, by a least             *)
(* counterexample.                                                         *)
(***************************************************************************)
EXTENDS ResumeText, FiniteSetTheorems, WellFoundedInduction, TLAPS

(* What is read and stored is a text, however long. *)
AnyLine == Lines \cup {Binary}
TextInv == raw \in Seq(AnyLine) /\ text \in Seq(AnyLine)

-----------------------------------------------------------------------------
(* The least of some numbers. *)
LEMMA LeastNumber ==
  ASSUME NEW S, S \subseteq Nat, S # {}
  PROVE  Min(S) \in S /\ \A y \in S : Min(S) <= y
<1> DEFINE R == OpToRel(<, Nat)
<1>1. IsWellFoundedOn(R, Nat)
  BY NatLessThanWellFounded
<1>2. \A x, y \in S : x < y => <<x, y>> \in R
  BY DEF OpToRel
<1> HIDE DEF R
<1>3. PICK x \in S : \A y \in S : ~ (<<y, x>> \in R)
  BY <1>1, WFMin
<1>4. \A y \in S : x <= y
  <2> SUFFICES ASSUME NEW y \in S PROVE x <= y
    OBVIOUS
  <2>1. ~ (y < x)
    BY <1>2, <1>3
  <2> QED BY <2>1
<1> QED BY <1>4 DEF Min

(* What holds of 0 and carries over from each number to the next fails of    *)
(* none: the numbers it fails of have no first one.                          *)
LEMMA NoFirstBad ==
  ASSUME NEW last \in Nat, NEW Bad, Bad \subseteq 0..last, 0 \notin Bad,
         \A n \in 1..last : n - 1 \notin Bad => n \notin Bad
  PROVE  Bad = {}
<1> SUFFICES ASSUME Bad # {} PROVE FALSE
  OBVIOUS
<1> DEFINE m == Min(Bad)
<1>1. m \in Bad /\ \A y \in Bad : m <= y
  <2>1. Bad \subseteq Nat
    OBVIOUS
  <2> QED BY <2>1, LeastNumber
<1> HIDE DEF m
<1>2. m \in 1..last
  BY <1>1
<1>3. ~ (m <= m - 1)
  BY <1>2
<1>4. m - 1 \notin Bad
  BY <1>1, <1>3
<1> QED BY <1>1, <1>2, <1>4

-----------------------------------------------------------------------------
(* The cuts of a text: sections found, and the one that is open, after each  *)
(* of its lines.                                                             *)
Cuts(lines) ==
    CHOOSE cut : cut = [n \in 0..Len(lines) |-> IF n = 0 THEN NoCut ELSE NextLine(cut[n - 1], lines[n])]

(* The same for the entries and the degrees of a section. *)
EntriesRead(lines) ==
    CHOOSE read : read = [n \in 0..Len(lines) |-> IF n = 0 THEN << >> ELSE Entry(read[n - 1], lines[n])]
DegreesRead(lines) ==
    CHOOSE read : read = [n \in 0..Len(lines) |-> IF n = 0 THEN << >> ELSE Degree(read[n - 1], lines[n])]

(* The three loops over the lines of a text, as one. *)
First(loop) == IF loop = "sections" THEN NoCut ELSE << >>
Then(loop, was, line) ==
    IF loop = "sections" THEN NextLine(was, line)
    ELSE IF loop = "entries" THEN Entry(was, line) ELSE Degree(was, line)

Runs(loop, read, lines, last) ==
    /\ read = [n \in 0..last |-> read[n]]
    /\ read[0] = First(loop)
    /\ \A n \in 1..last : read[n] = Then(loop, read[n - 1], lines[n])

(* Each of them runs as far as one likes. *)
LEMMA LoopsRun ==
  ASSUME NEW loop, NEW lines, NEW last \in Nat
  PROVE  \E read : Runs(loop, read, lines, last)
<1> DEFINE Bad == {k \in 0..last : \A read : ~ Runs(loop, read, lines, k)}
<1>1. Runs(loop, [n \in 0..0 |-> First(loop)], lines, 0)
  BY DEF Runs
<1>2. ASSUME NEW k \in Nat, NEW read, Runs(loop, read, lines, k)
      PROVE  \E more : Runs(loop, more, lines, k + 1)
  <2> DEFINE next == Then(loop, read[k], lines[k + 1])
             more == [n \in 0..(k + 1) |-> IF n = k + 1 THEN next ELSE read[n]]
  <2> HIDE DEF next
  <2>1. more[0] = First(loop) /\ more = [n \in 0..(k + 1) |-> more[n]]
    BY <1>2 DEF Runs
  <2>2. ASSUME NEW n \in 1..(k + 1) PROVE more[n] = Then(loop, more[n - 1], lines[n])
    <3>1. n - 1 \in 0..k /\ n - 1 # k + 1 /\ n - 1 \in 0..(k + 1) /\ n \in 0..(k + 1)
      OBVIOUS
    <3>2. more[n - 1] = read[n - 1]
      BY <3>1
    <3>3. CASE n = k + 1
      BY <3>1, <3>2, <3>3 DEF next
    <3>4. CASE n # k + 1
      <4>1. n \in 1..k /\ more[n] = read[n]
        BY <3>1, <3>4
      <4> QED BY <1>2, <3>2, <4>1 DEF Runs
    <3> QED BY <3>3, <3>4
  <2> HIDE DEF more
  <2> QED BY <2>1, <2>2 DEF Runs
<1>3. Bad = {}
  <2>1. ASSUME NEW n \in 1..last, n - 1 \notin Bad PROVE n \notin Bad
    <3>1. n - 1 \in 0..last /\ n - 1 \in Nat /\ (n - 1) + 1 = n
      OBVIOUS
    <3>2. PICK read : Runs(loop, read, lines, n - 1)
      BY <2>1, <3>1
    <3> QED BY <1>2, <3>1, <3>2
  <2> QED BY <1>1, <2>1, NoFirstBad
<1> QED BY <1>3

(* Two texts that begin with the same lines are the same to a loop so far.   *)
LEMMA SameSoFar ==
  ASSUME NEW loop, NEW last \in Nat, NEW a, NEW b, NEW f, NEW g,
         Runs(loop, f, a, last), Runs(loop, g, b, last), \A n \in 1..last : a[n] = b[n]
  PROVE  f[last] = g[last]
<1> DEFINE Bad == {n \in 0..last : f[n] # g[n]}
<1>1. 0 \notin Bad
  BY DEF Runs
<1>2. ASSUME NEW n \in 1..last, n - 1 \notin Bad PROVE n \notin Bad
  <2>1. n - 1 \in 0..last
    OBVIOUS
  <2>2. f[n - 1] = g[n - 1]
    BY <1>2, <2>1
  <2>3. /\ f[n] = Then(loop, f[n - 1], a[n]) /\ g[n] = Then(loop, g[n - 1], b[n])
        /\ a[n] = b[n]
    BY DEF Runs
  <2> QED BY <2>2, <2>3
<1>3. Bad = {}
  BY <1>1, <1>2, NoFirstBad
<1> QED BY <1>3

(* There are cuts, as far as one likes. *)
LEMMA CutsExist ==
  ASSUME NEW lines, NEW last \in Nat
  PROVE  \E cut : cut = [n \in 0..last |-> IF n = 0 THEN NoCut ELSE NextLine(cut[n - 1], lines[n])]
<1>1. PICK cut : Runs("sections", cut, lines, last)
  BY LoopsRun
<1>2. /\ cut[0] = NoCut
      /\ \A n \in 1..last : cut[n] = NextLine(cut[n - 1], lines[n])
  BY <1>1 DEF Runs, First, Then
<1>3. \A n \in 0..last : cut[n] = IF n = 0 THEN NoCut ELSE NextLine(cut[n - 1], lines[n])
  BY <1>2
<1> QED BY <1>1, <1>3 DEF Runs

LEMMA EntriesExist ==
  ASSUME NEW lines, NEW last \in Nat
  PROVE  \E read : read = [n \in 0..last |-> IF n = 0 THEN << >> ELSE Entry(read[n - 1], lines[n])]
<1>1. PICK read : Runs("entries", read, lines, last)
  BY LoopsRun
<1>2. /\ read[0] = << >>
      /\ \A n \in 1..last : read[n] = Entry(read[n - 1], lines[n])
  BY <1>1 DEF Runs, First, Then
<1>3. \A n \in 0..last : read[n] = IF n = 0 THEN << >> ELSE Entry(read[n - 1], lines[n])
  BY <1>2
<1> QED BY <1>1, <1>3 DEF Runs

LEMMA DegreesExist ==
  ASSUME NEW lines, NEW last \in Nat
  PROVE  \E read : read = [n \in 0..last |-> IF n = 0 THEN << >> ELSE Degree(read[n - 1], lines[n])]
<1>1. PICK read : Runs("degrees", read, lines, last)
  BY LoopsRun
<1>2. /\ read[0] = << >>
      /\ \A n \in 1..last : read[n] = Degree(read[n - 1], lines[n])
  BY <1>1 DEF Runs, First, Then
<1>3. \A n \in 0..last : read[n] = IF n = 0 THEN << >> ELSE Degree(read[n - 1], lines[n])
  BY <1>2
<1> QED BY <1>1, <1>3 DEF Runs

(* What _extract_sections does with one line after the other. *)
LEMMA CutsProperty ==
  ASSUME NEW lines, Len(lines) \in Nat
  PROVE  /\ Cuts(lines)[0] = NoCut
         /\ \A n \in 1..Len(lines) : Cuts(lines)[n] = NextLine(Cuts(lines)[n - 1], lines[n])
         /\ ExtractSections(lines) = Closed(Cuts(lines)[Len(lines)])
<1> DEFINE N == Len(lines)
           Is(cut) == cut = [n \in 0..N |-> IF n = 0 THEN NoCut ELSE NextLine(cut[n - 1], lines[n])]
<1>1. \E cut : Is(cut)
  BY CutsExist
<1>2. Cuts(lines) = CHOOSE cut : Is(cut)
  BY DEF Cuts
<1> HIDE DEF Is
<1>3. Is(CHOOSE cut : Is(cut))
  BY <1>1
<1>4. Is(Cuts(lines))
  BY <1>2, <1>3
<1>5. ExtractSections(lines) = Closed(Cuts(lines)[Len(lines)])
  BY DEF ExtractSections, Cuts
<1> HIDE DEF N
<1>6. N \in Nat
  BY DEF N
<1>7. /\ Cuts(lines)[0] = NoCut
      /\ \A n \in 1..N : Cuts(lines)[n] = NextLine(Cuts(lines)[n - 1], lines[n])
  BY <1>4, <1>6 DEF Is
<1> QED BY <1>5, <1>7 DEF N

(* The entries and the degrees of a section are the last of theirs. *)
LEMMA EntriesProperty ==
  ASSUME NEW lines, Len(lines) \in Nat
  PROVE  /\ Runs("entries", EntriesRead(lines), lines, Len(lines))
         /\ ParseExperience(lines) = EntriesRead(lines)[Len(lines)]
<1> DEFINE N == Len(lines)
           Is(read) == read = [n \in 0..N |-> IF n = 0 THEN << >> ELSE Entry(read[n - 1], lines[n])]
<1>1. \E read : Is(read)
  BY EntriesExist
<1>2. EntriesRead(lines) = CHOOSE read : Is(read)
  BY DEF EntriesRead
<1> HIDE DEF Is
<1>3. Is(EntriesRead(lines))
  BY <1>1, <1>2
<1>4. ParseExperience(lines) = EntriesRead(lines)[Len(lines)]
  BY DEF ParseExperience, EntriesRead
<1> HIDE DEF N
<1>5. N \in Nat
  BY DEF N
<1>6. Runs("entries", EntriesRead(lines), lines, N)
  BY <1>3, <1>5 DEF Is, Runs, First, Then
<1> QED BY <1>4, <1>6 DEF N

LEMMA DegreesProperty ==
  ASSUME NEW lines, Len(lines) \in Nat
  PROVE  /\ Runs("degrees", DegreesRead(lines), lines, Len(lines))
         /\ ParseEducation(lines) = DegreesRead(lines)[Len(lines)]
<1> DEFINE N == Len(lines)
           Is(read) == read = [n \in 0..N |-> IF n = 0 THEN << >> ELSE Degree(read[n - 1], lines[n])]
<1>1. \E read : Is(read)
  BY DegreesExist
<1>2. DegreesRead(lines) = CHOOSE read : Is(read)
  BY DEF DegreesRead
<1> HIDE DEF Is
<1>3. Is(DegreesRead(lines))
  BY <1>1, <1>2
<1>4. ParseEducation(lines) = DegreesRead(lines)[Len(lines)]
  BY DEF ParseEducation, DegreesRead
<1> HIDE DEF N
<1>5. N \in Nat
  BY DEF N
<1>6. Runs("degrees", DegreesRead(lines), lines, N)
  BY <1>3, <1>5 DEF Is, Runs, First, Then
<1> QED BY <1>4, <1>6 DEF N

(* Of a text with one more line, a loop makes what it makes of the text, and *)
(* then of the line.                                                         *)
LEMMA OneLineMore ==
  ASSUME NEW loop, NEW S, NEW seq \in Seq(S), NEW line \in S, NEW f, NEW g,
         Runs(loop, f, seq, Len(seq)), Runs(loop, g, Append(seq, line), Len(seq) + 1)
  PROVE  g[Len(seq) + 1] = Then(loop, f[Len(seq)], line)
<1> DEFINE N == Len(seq)
           more == Append(seq, line)
<1>1. N \in Nat /\ more[N + 1] = line /\ \A n \in 1..N : more[n] = seq[n]
  OBVIOUS
<1> HIDE DEF N, more
<1>2. g[N + 1] = Then(loop, g[N], line)
  <2>1. N + 1 \in 1..(N + 1) /\ (N + 1) - 1 = N
    BY <1>1
  <2> QED BY <1>1, <2>1 DEF Runs, N, more
<1>3. f[N] = g[N]
  <2> DEFINE h == [n \in 0..N |-> g[n]]
  <2>1. Runs(loop, h, more, N)
    <3>1. \A n \in 1..N : /\ n \in 1..(N + 1) /\ n \in 0..N /\ n - 1 \in 0..N
      BY <1>1
    <3>2. 0 \in 0..N
      BY <1>1
    <3>3. \A n \in 1..N : g[n] = Then(loop, g[n - 1], more[n])
      BY <3>1 DEF Runs, N, more
    <3>4. \A n \in 1..N : h[n] = g[n] /\ h[n - 1] = g[n - 1]
      BY <3>1
    <3>5. h[0] = First(loop)
      BY <3>2 DEF Runs
    <3>6. h = [n \in 0..N |-> h[n]]
      OBVIOUS
    <3> HIDE DEF h
    <3> QED BY <3>3, <3>4, <3>5, <3>6 DEF Runs
  <2>2. N \in 0..N
    BY <1>1
  <2>3. h[N] = g[N]
    BY <2>2
  <2> HIDE DEF h
  <2>4. Runs(loop, f, seq, N)
    BY DEF N
  <2>5. f[N] = h[N]
    BY <1>1, <2>1, <2>4, SameSoFar
  <2> QED BY <2>3, <2>5
<1> QED BY <1>2, <1>3 DEF N

LEMMA ExperienceOfMore ==
  ASSUME NEW S, NEW seq \in Seq(S), NEW line \in S
  PROVE  /\ ParseExperience(<< >>) = << >>
         /\ ParseExperience(Append(seq, line)) = Entry(ParseExperience(seq), line)
<1>1. Len(<< >>) = 0 /\ Len(seq) \in Nat /\ Len(Append(seq, line)) = Len(seq) + 1
  OBVIOUS
<1>2. ParseExperience(<< >>) = << >>
  BY <1>1, EntriesProperty DEF Runs, First
<1>3. ParseExperience(Append(seq, line)) = Then("entries", ParseExperience(seq), line)
  <2> DEFINE more == Append(seq, line)
  <2>1. /\ Runs("entries", EntriesRead(seq), seq, Len(seq))
        /\ ParseExperience(seq) = EntriesRead(seq)[Len(seq)]
    BY <1>1, EntriesProperty
  <2>2. /\ Runs("entries", EntriesRead(more), more, Len(seq) + 1)
        /\ ParseExperience(more) = EntriesRead(more)[Len(seq) + 1]
    <3>1. Len(more) \in Nat /\ Len(more) = Len(seq) + 1
      BY <1>1
    <3> HIDE DEF more
    <3> QED BY <3>1, EntriesProperty
  <2>3. EntriesRead(more)[Len(seq) + 1] = Then("entries", EntriesRead(seq)[Len(seq)], line)
    BY <2>1, <2>2, OneLineMore
  <2> QED BY <2>1, <2>2, <2>3
<1> QED BY <1>2, <1>3 DEF Then

LEMMA EducationOfMore ==
  ASSUME NEW S, NEW seq \in Seq(S), NEW line \in S
  PROVE  /\ ParseEducation(<< >>) = << >>
         /\ ParseEducation(Append(seq, line)) = Degree(ParseEducation(seq), line)
<1>1. Len(<< >>) = 0 /\ Len(seq) \in Nat /\ Len(Append(seq, line)) = Len(seq) + 1
  OBVIOUS
<1>2. ParseEducation(<< >>) = << >>
  BY <1>1, DegreesProperty DEF Runs, First
<1>3. ParseEducation(Append(seq, line)) = Then("degrees", ParseEducation(seq), line)
  <2> DEFINE more == Append(seq, line)
  <2>1. /\ Runs("degrees", DegreesRead(seq), seq, Len(seq))
        /\ ParseEducation(seq) = DegreesRead(seq)[Len(seq)]
    BY <1>1, DegreesProperty
  <2>2. /\ Runs("degrees", DegreesRead(more), more, Len(seq) + 1)
        /\ ParseEducation(more) = DegreesRead(more)[Len(seq) + 1]
    <3>1. Len(more) \in Nat /\ Len(more) = Len(seq) + 1
      BY <1>1
    <3> HIDE DEF more
    <3> QED BY <3>1, DegreesProperty
  <2>3. DegreesRead(more)[Len(seq) + 1] = Then("degrees", DegreesRead(seq)[Len(seq)], line)
    BY <2>1, <2>2, OneLineMore
  <2> QED BY <2>1, <2>2, <2>3
<1> QED BY <1>2, <1>3 DEF Then

-----------------------------------------------------------------------------
(* Where a line is in a sequence, and among some lines of the text.          *)

SameSize(S, T) == IsFiniteSet(S) /\ IsFiniteSet(T) /\ Cardinality(S) = Cardinality(T)

(* As many in two sets as in a third. *)
SameSum(R, S, T) == /\ IsFiniteSet(R) /\ IsFiniteSet(S) /\ IsFiniteSet(T)
                    /\ Cardinality(R) + Cardinality(S) = Cardinality(T)

LEMMA OneMoreInBoth ==
  ASSUME NEW S, NEW T, SameSize(S, T), NEW x, NEW y, x \notin S, y \notin T
  PROVE  SameSize(S \cup {x}, T \cup {y})
BY FS_AddElement DEF SameSize

LEMMA OneMoreInSum ==
  ASSUME NEW R, NEW S, NEW T, SameSum(R, S, T), NEW x, NEW y, y \notin T
  PROVE  /\ x \notin R => SameSum(R \cup {x}, S, T \cup {y})
         /\ x \notin S => SameSum(R, S \cup {x}, T \cup {y})
<1>1. /\ IsFiniteSet(T \cup {y}) /\ Cardinality(T \cup {y}) = Cardinality(T) + 1
      /\ IsFiniteSet(R \cup {x}) /\ (x \notin R => Cardinality(R \cup {x}) = Cardinality(R) + 1)
      /\ IsFiniteSet(S \cup {x}) /\ (x \notin S => Cardinality(S \cup {x}) = Cardinality(S) + 1)
  BY FS_AddElement DEF SameSum
<1>2. Cardinality(R) \in Nat /\ Cardinality(S) \in Nat /\ Cardinality(T) \in Nat
  BY FS_CardinalityType DEF SameSum
<1> QED BY <1>1, <1>2 DEF SameSum

LEMMA PlacesOfMore ==
  ASSUME NEW S, NEW seq \in Seq(S), NEW x \in S, NEW l
  PROVE  /\ Places(<< >>, l) = {}
         /\ Len(seq) + 1 \notin Places(seq, l)
         /\ Places(Append(seq, x), l) = IF x = l THEN Places(seq, l) \cup {Len(seq) + 1} ELSE Places(seq, l)
<1>1. /\ DOMAIN seq = 1..Len(seq) /\ Len(seq) \in Nat /\ DOMAIN Append(seq, x) = 1..(Len(seq) + 1)
      /\ Append(seq, x)[Len(seq) + 1] = x
      /\ \A i \in 1..Len(seq) : Append(seq, x)[i] = seq[i]
  OBVIOUS
<1>2. 1..(Len(seq) + 1) = 1..Len(seq) \cup {Len(seq) + 1} /\ Len(seq) + 1 \notin 1..Len(seq)
  BY <1>1
<1> QED BY <1>1, <1>2 DEF Places

LEMMA InTextPlaces ==
  ASSUME NEW entries, NEW l, NEW q
  PROVE  q \in TextPlaces(entries, l) <=>
             \E i \in DOMAIN entries : \E j \in Places(entries[i].description, l) : q = <<i, j>>
BY DEF TextPlaces

(* The entries of an experience: what their titles and descriptions hold.    *)
EntrySet == [title : AnyLine, description : Seq(AnyLine)]

LEMMA NewEntry ==
  ASSUME NEW entries \in Seq(EntrySet), NEW line \in AnyLine, IsTitle(line), NEW l
  PROVE  /\ Entry(entries, line) \in Seq(EntrySet) /\ Entry(entries, line) # << >>
         /\ Len(entries) + 1 \notin TitlePlaces(entries, l)
         /\ line = l => TitlePlaces(Entry(entries, line), l) = TitlePlaces(entries, l) \cup {Len(entries) + 1}
         /\ line # l => TitlePlaces(Entry(entries, line), l) = TitlePlaces(entries, l)
         /\ TextPlaces(Entry(entries, line), l) = TextPlaces(entries, l)
<1> DEFINE new == [title |-> line, description |-> << >>]
           more == Append(entries, new)
           N == Len(entries)
<1>1. new \in EntrySet
  BY DEF EntrySet
<1>2. Entry(entries, line) = more
  BY DEF Entry
<1>3. /\ DOMAIN entries = 1..N /\ N \in Nat /\ DOMAIN more = 1..(N + 1)
      /\ more[N + 1] = new /\ \A i \in 1..N : more[i] = entries[i]
      /\ more \in Seq(EntrySet) /\ more # << >>
  <2> HIDE DEF new
  <2> QED BY <1>1
<1>4. new.title = line /\ new.description = << >>
  OBVIOUS
<1> HIDE DEF new, more, N
<1>5. 1..(N + 1) = 1..N \cup {N + 1} /\ N + 1 \notin 1..N
  BY <1>3
<1>6. TitlePlaces(more, l) = IF line = l THEN TitlePlaces(entries, l) \cup {N + 1} ELSE TitlePlaces(entries, l)
  BY <1>3, <1>4, <1>5 DEF TitlePlaces
<1>7. Places(new.description, l) = {}
  BY <1>4 DEF Places
<1>8. TextPlaces(more, l) = TextPlaces(entries, l)
  BY <1>3, <1>5, <1>7 DEF TextPlaces
<1>9. N + 1 \notin TitlePlaces(entries, l)
  BY <1>3, <1>5 DEF TitlePlaces
<1> QED BY <1>2, <1>3, <1>6, <1>8, <1>9 DEF N

LEMMA LongerEntry ==
  ASSUME NEW entries \in Seq(EntrySet), NEW line \in AnyLine, ~ IsTitle(line), entries # << >>, NEW l
  PROVE  /\ Entry(entries, line) \in Seq(EntrySet) /\ Entry(entries, line) # << >>
         /\ TitlePlaces(Entry(entries, line), l) = TitlePlaces(entries, l)
         /\ \E p : /\ p \notin TextPlaces(entries, l)
                   /\ TextPlaces(Entry(entries, line), l) =
                          IF line = l THEN TextPlaces(entries, l) \cup {p} ELSE TextPlaces(entries, l)
<1> DEFINE N == Len(entries)
           more == Entry(entries, line)
           was == entries[N].description
<1>1. more = [entries EXCEPT ![N].description = Append(@, line)]
  BY DEF Entry
<1>2. N \in Nat /\ N # 0 /\ N \in DOMAIN entries /\ DOMAIN entries = 1..N
  OBVIOUS
<1>3. /\ DOMAIN more = 1..N
      /\ \A i \in 1..N : i # N => more[i] = entries[i]
      /\ more[N] = [entries[N] EXCEPT !.description = Append(was, line)]
  BY <1>1, <1>2
<1>4. \A i \in 1..N : entries[i] \in EntrySet
  BY <1>2
<1> HIDE DEF N, more, was
<1>5. /\ was \in Seq(AnyLine) /\ more[N].title = entries[N].title
      /\ more[N].description = Append(was, line) /\ more[N] \in EntrySet
  <2>1. was \in Seq(AnyLine)
    BY <1>2, <1>4 DEF EntrySet, was
  <2>2. /\ entries[N].title \in AnyLine /\ Append(was, line) \in Seq(AnyLine)
        /\ entries[N] = [title |-> entries[N].title, description |-> was]
    BY <1>2, <1>4, <2>1 DEF EntrySet, was
  <2>3. more[N] = [title |-> entries[N].title, description |-> Append(was, line)]
    BY <1>3, <2>2
  <2> QED BY <2>1, <2>2, <2>3 DEF EntrySet
<1>6. more \in Seq(EntrySet) /\ more # << >>
  <2>1. \A i \in 1..N : more[i] \in EntrySet
    BY <1>3, <1>4, <1>5
  <2>2. more = [i \in 1..N |-> more[i]]
    BY <1>1, <1>2
  <2>3. more \in Seq(EntrySet)
    BY <1>2, <2>1, <2>2
  <2> QED BY <1>2, <1>3, <2>3
<1>7. TitlePlaces(more, l) = TitlePlaces(entries, l)
  BY <1>2, <1>3, <1>5 DEF TitlePlaces
<1> DEFINE p == <<N, Len(was) + 1>>
<1>8. p \notin TextPlaces(entries, l)
  BY <1>2, <1>5, PlacesOfMore DEF TextPlaces, was
<1>9. TextPlaces(more, l) = IF line = l THEN TextPlaces(entries, l) \cup {p} ELSE TextPlaces(entries, l)
  <2>1. Places(more[N].description, l) = IF line = l THEN Places(was, l) \cup {Len(was) + 1} ELSE Places(was, l)
    BY <1>5, PlacesOfMore
  <2>2. \A i \in 1..N : i # N => Places(more[i].description, l) = Places(entries[i].description, l)
    BY <1>3
  <2>3. N \in 1..N
    BY <1>2
  <2> DEFINE all == IF line = l THEN TextPlaces(entries, l) \cup {p} ELSE TextPlaces(entries, l)
  <2>4. ASSUME NEW q, q \in TextPlaces(more, l) PROVE q \in all
    <3>0. \E i \in DOMAIN more : \E j \in Places(more[i].description, l) : q = <<i, j>>
      BY <2>4, InTextPlaces
    <3>1. PICK i \in 1..N : \E j \in Places(more[i].description, l) : q = <<i, j>>
      BY <1>3, <3>0
    <3>2. PICK j \in Places(more[i].description, l) : q = <<i, j>>
      BY <3>1
    <3>3. j \in Places(entries[i].description, l) => q \in TextPlaces(entries, l)
      BY <1>2, <3>2, InTextPlaces
    <3>4. j \notin Places(entries[i].description, l) => i = N /\ line = l /\ j = Len(was) + 1
      BY <2>1, <2>2 DEF was
    <3> QED BY <3>2, <3>3, <3>4
  <2>5. ASSUME NEW q, q \in TextPlaces(entries, l) PROVE q \in TextPlaces(more, l)
    <3>0. \E i \in DOMAIN entries : \E j \in Places(entries[i].description, l) : q = <<i, j>>
      BY <2>5, InTextPlaces
    <3>1. PICK i \in 1..N : \E j \in Places(entries[i].description, l) : q = <<i, j>>
      BY <1>2, <3>0
    <3>2. PICK j \in Places(entries[i].description, l) : q = <<i, j>>
      BY <3>1
    <3>3. j \in Places(more[i].description, l)
      BY <2>1, <2>2 DEF was
    <3> QED BY <1>3, <3>2, <3>3, InTextPlaces
  <2>6. line = l => p \in TextPlaces(more, l)
    <3>1. line = l => Len(was) + 1 \in Places(more[N].description, l)
      BY <2>1
    <3> QED BY <1>3, <2>3, <3>1, InTextPlaces
  <2> QED BY <2>4, <2>5, <2>6
<1> QED BY <1>6, <1>7, <1>8, <1>9 DEF more

-----------------------------------------------------------------------------
(* A sequence of lines, and what is made of it, is that of some lines of the *)
(* text: each line is as often in one as in the other.                       *)

Among(I, l) == {k \in I : text[k] = l}
Told(I) == {k \in I : \E j \in I : j <= k /\ IsTitle(text[j])}
Graded(I) == {k \in I : text[k] \notin Bulleted}

ReadsEntries(seq, I) ==
    /\ ParseExperience(seq) \in Seq(EntrySet)
    /\ ParseExperience(seq) = << >> <=> \A k \in I : ~ IsTitle(text[k])
    /\ \A l : SameSum(TitlePlaces(ParseExperience(seq), l), TextPlaces(ParseExperience(seq), l),
                      Among(Told(I), l))

ReadsDegrees(seq, I) ==
    /\ ParseEducation(seq) \in Seq(AnyLine)
    /\ \A l : SameSize(Places(ParseEducation(seq), l), Among(Graded(I), l))

Reads(seq, I) ==
    /\ seq \in Seq(AnyLine) /\ I \subseteq 1..Len(text)
    /\ seq = << >> <=> I = {}
    /\ \A l : SameSize(Places(seq, l), Among(I, l))
    /\ ReadsEntries(seq, I) /\ ReadsDegrees(seq, I)

LEMMA ReadsNothing == Reads(<< >>, {})
<1>1. << >> \in Seq(AnyLine) /\ << >> \in Seq(EntrySet) /\ DOMAIN << >> = {}
  OBVIOUS
<1>2. IsFiniteSet({}) /\ Cardinality({}) = 0
  BY FS_EmptySet
<1>3. ParseExperience(<< >>) = << >> /\ ParseEducation(<< >>) = << >>
  <2>1. Len(<< >>) = 0 /\ Len(<< >>) \in Nat
    OBVIOUS
  <2>2. ParseExperience(<< >>) = << >>
    BY <2>1, EntriesProperty DEF Runs, First
  <2>3. ParseEducation(<< >>) = << >>
    BY <2>1, DegreesProperty DEF Runs, First
  <2> QED BY <2>2, <2>3
<1>4. /\ \A l : Places(<< >>, l) = {} /\ TitlePlaces(<< >>, l) = {} /\ TextPlaces(<< >>, l) = {}
      /\ \A l : Among({}, l) = {}
      /\ Told({}) = {} /\ Graded({}) = {}
  BY <1>1 DEF Places, TitlePlaces, TextPlaces, Among, Told, Graded
<1>5. SameSize({}, {}) /\ SameSum({}, {}, {})
  BY <1>2 DEF SameSize, SameSum
<1>6. ReadsEntries(<< >>, {})
  BY <1>1, <1>3, <1>4, <1>5 DEF ReadsEntries
<1>7. ReadsDegrees(<< >>, {})
  BY <1>1, <1>3, <1>4, <1>5 DEF ReadsDegrees
<1> QED BY <1>1, <1>4, <1>5, <1>6, <1>7 DEF Reads

(* One line more: it comes after the others. *)
LEMMA AmongMore ==
  ASSUME NEW I, NEW i, NEW l
  PROVE  Among(I \cup {i}, l) = IF text[i] = l THEN Among(I, l) \cup {i} ELSE Among(I, l)
BY DEF Among

LEMMA MorePlaces ==
  ASSUME NEW seq \in Seq(AnyLine), NEW I, NEW i, i \notin I, text[i] \in AnyLine,
         \A l : SameSize(Places(seq, l), Among(I, l))
  PROVE  \A l : SameSize(Places(Append(seq, text[i]), l), Among(I \cup {i}, l))
<1> SUFFICES ASSUME NEW l PROVE SameSize(Places(Append(seq, text[i]), l), Among(I \cup {i}, l))
  OBVIOUS
<1>1. SameSize(Places(seq, l), Among(I, l)) /\ i \notin Among(I, l)
  BY DEF Among
<1>2. /\ Len(seq) + 1 \notin Places(seq, l)
      /\ Places(Append(seq, text[i]), l) =
             IF text[i] = l THEN Places(seq, l) \cup {Len(seq) + 1} ELSE Places(seq, l)
  <2>1. Len(seq) + 1 \notin Places(seq, l)
    BY PlacesOfMore
  <2>2. ASSUME NEW x \in AnyLine
        PROVE  Places(Append(seq, x), l) = IF x = l THEN Places(seq, l) \cup {Len(seq) + 1} ELSE Places(seq, l)
    BY PlacesOfMore
  <2> QED BY <2>1, <2>2
<1>3. Among(I \cup {i}, l) = IF text[i] = l THEN Among(I, l) \cup {i} ELSE Among(I, l)
  BY AmongMore
<1>4. SameSize(Places(seq, l) \cup {Len(seq) + 1}, Among(I, l) \cup {i})
  BY <1>1, <1>2, OneMoreInBoth
<1> QED BY <1>1, <1>2, <1>3, <1>4

LEMMA MoreDegrees ==
  ASSUME NEW seq \in Seq(AnyLine), NEW I, NEW i, i \notin I, text[i] \in AnyLine,
         ReadsDegrees(seq, I)
  PROVE  ReadsDegrees(Append(seq, text[i]), I \cup {i})
<1> DEFINE was == ParseEducation(seq)
           new == ParseEducation(Append(seq, text[i]))
<1>1. new = Degree(was, text[i])
  BY EducationOfMore
<1>2. was \in Seq(AnyLine) /\ \A l : SameSize(Places(was, l), Among(Graded(I), l))
  BY DEF ReadsDegrees
<1> HIDE DEF was, new
<1>3. CASE text[i] \in Bulleted
  <2>1. Graded(I \cup {i}) = Graded(I)
    BY <1>3 DEF Graded
  <2> QED BY <1>1, <1>2, <1>3, <2>1 DEF Degree, ReadsDegrees, new
<1>4. CASE text[i] \notin Bulleted
  <2>1. Graded(I \cup {i}) = Graded(I) \cup {i} /\ i \notin Graded(I)
    BY <1>4 DEF Graded
  <2>2. new = Append(was, text[i]) /\ new \in Seq(AnyLine)
    BY <1>1, <1>2, <1>4 DEF Degree
  <2>3. \A l : SameSize(Places(new, l), Among(Graded(I) \cup {i}, l))
    BY <1>2, <2>1, <2>2, MorePlaces
  <2> QED BY <2>1, <2>2, <2>3 DEF ReadsDegrees, new
<1> QED BY <1>3, <1>4

LEMMA MoreEntries ==
  ASSUME NEW seq \in Seq(AnyLine), NEW I, NEW i \in Nat, I \subseteq Nat, \A k \in I : k < i,
         text[i] \in AnyLine, ReadsEntries(seq, I)
  PROVE  ReadsEntries(Append(seq, text[i]), I \cup {i})
<1> DEFINE was == ParseExperience(seq)
           new == ParseExperience(Append(seq, text[i]))
           J == I \cup {i}
<1>1. new = Entry(was, text[i])
  BY ExperienceOfMore
<1>2. was \in Seq(EntrySet)
  BY DEF ReadsEntries
<1>3. was = << >> <=> \A k \in I : ~ IsTitle(text[k])
  BY DEF ReadsEntries
<1>4. \A l : SameSum(TitlePlaces(was, l), TextPlaces(was, l), Among(Told(I), l))
  BY DEF ReadsEntries
<1>5. i \notin I /\ ~ (i < i) /\ i <= i /\ \A k \in I : k <= i /\ ~ (i <= k)
  OBVIOUS
<1> HIDE DEF was, new
<1>6. \A l : i \notin Among(Told(I), l)
  BY <1>5 DEF Among, Told
<1>7. CASE IsTitle(text[i])
  <2>1. \A k : k \in Told(J) <=> k \in Told(I) \/ k = i
    BY <1>5, <1>7 DEF Told
  <2>2. ASSUME NEW l PROVE SameSum(TitlePlaces(new, l), TextPlaces(new, l), Among(Told(J), l))
    <3>1. Len(was) + 1 \notin TitlePlaces(was, l)
      BY <1>2, <1>7, NewEntry
    <3>2. /\ text[i] = l => TitlePlaces(Entry(was, text[i]), l) = TitlePlaces(was, l) \cup {Len(was) + 1}
          /\ text[i] # l => TitlePlaces(Entry(was, text[i]), l) = TitlePlaces(was, l)
      BY <1>2, <1>7, NewEntry
    <3>3. TextPlaces(Entry(was, text[i]), l) = TextPlaces(was, l)
      BY <1>2, <1>7, NewEntry
    <3>4. Among(Told(J), l) = IF text[i] = l THEN Among(Told(I), l) \cup {i} ELSE Among(Told(I), l)
      BY <2>1 DEF Among
    <3>5. SameSum(TitlePlaces(was, l) \cup {Len(was) + 1}, TextPlaces(was, l), Among(Told(I), l) \cup {i})
      BY <1>4, <1>6, <3>1, OneMoreInSum
    <3> QED BY <1>1, <1>4, <3>2, <3>3, <3>4, <3>5
  <2>3. new \in Seq(EntrySet) /\ new # << >>
    <3>1. Entry(was, text[i]) \in Seq(EntrySet)
      BY <1>2, <1>7, NewEntry
    <3>2. Entry(was, text[i]) # << >>
      BY <1>2, <1>7, NewEntry
    <3> QED BY <1>1, <3>1, <3>2
  <2> QED BY <1>7, <2>2, <2>3 DEF ReadsEntries, new
<1>8. CASE ~ IsTitle(text[i]) /\ was = << >>
  <2>1. new = was
    BY <1>1, <1>8 DEF Entry
  <2>2. \A k \in J : ~ IsTitle(text[k])
    BY <1>3, <1>8
  <2>3. \A l : Among(Told(J), l) = Among(Told(I), l)
    BY <2>2 DEF Told, Among
  <2> QED BY <1>2, <1>4, <1>8, <2>1, <2>2, <2>3 DEF ReadsEntries, new
<1>9. CASE ~ IsTitle(text[i]) /\ was # << >>
  <2>0. ~ IsTitle(text[i]) /\ was # << >>
    BY <1>9
  <2>1. \E k \in I : IsTitle(text[k])
    BY <1>3, <1>9
  <2>2. \A k : k \in Told(J) <=> k \in Told(I) \/ k = i
    BY <1>5, <1>9, <2>1 DEF Told
  <2>3. ASSUME NEW l PROVE SameSum(TitlePlaces(new, l), TextPlaces(new, l), Among(Told(J), l))
    <3>1. TitlePlaces(Entry(was, text[i]), l) = TitlePlaces(was, l)
      BY <1>2, <2>0, LongerEntry
    <3>2. \E p : /\ p \notin TextPlaces(was, l)
                 /\ TextPlaces(Entry(was, text[i]), l) =
                        IF text[i] = l THEN TextPlaces(was, l) \cup {p} ELSE TextPlaces(was, l)
      BY <1>2, <2>0, LongerEntry
    <3>3. PICK p : /\ p \notin TextPlaces(was, l)
                   /\ TextPlaces(Entry(was, text[i]), l) =
                          IF text[i] = l THEN TextPlaces(was, l) \cup {p} ELSE TextPlaces(was, l)
      BY <3>2
    <3>4. Among(Told(J), l) = IF text[i] = l THEN Among(Told(I), l) \cup {i} ELSE Among(Told(I), l)
      BY <2>2 DEF Among
    <3>5. SameSum(TitlePlaces(was, l), TextPlaces(was, l) \cup {p}, Among(Told(I), l) \cup {i})
      BY <1>4, <1>6, <3>3, OneMoreInSum
    <3> QED BY <1>1, <1>4, <3>1, <3>3, <3>4, <3>5
  <2>4. new \in Seq(EntrySet) /\ new # << >>
    <3>1. Entry(was, text[i]) \in Seq(EntrySet)
      BY <1>2, <2>0, LongerEntry
    <3>2. Entry(was, text[i]) # << >>
      BY <1>2, <2>0, LongerEntry
    <3> QED BY <1>1, <3>1, <3>2
  <2> QED BY <2>1, <2>3, <2>4 DEF ReadsEntries, new
<1> QED BY <1>7, <1>8, <1>9

LEMMA ReadsMore ==
  ASSUME TextInv, NEW seq, NEW I, Reads(seq, I), NEW i \in 1..Len(text), \A k \in I : k < i
  PROVE  Reads(Append(seq, text[i]), I \cup {i})
<1>1. text[i] \in AnyLine /\ Len(text) \in Nat
  BY DEF TextInv
<1>2. seq \in Seq(AnyLine) /\ I \subseteq 1..Len(text)
  BY DEF Reads
<1>3. i \in Nat /\ I \subseteq Nat /\ i \notin I
  BY <1>1, <1>2
<1>4. ReadsEntries(Append(seq, text[i]), I \cup {i})
  BY <1>1, <1>2, <1>3, MoreEntries DEF Reads
<1>5. ReadsDegrees(Append(seq, text[i]), I \cup {i})
  BY <1>1, <1>2, <1>3, MoreDegrees DEF Reads
<1>6. \A l : SameSize(Places(Append(seq, text[i]), l), Among(I \cup {i}, l))
  BY <1>1, <1>2, <1>3, MorePlaces DEF Reads
<1>7. Append(seq, text[i]) \in Seq(AnyLine) /\ Append(seq, text[i]) # << >>
  BY <1>1, <1>2
<1> QED BY <1>2, <1>4, <1>5, <1>6, <1>7 DEF Reads

-----------------------------------------------------------------------------
(* What a cut may hold: lines of the text, and no blank ones. *)

Filled(lines) == Seq(ToSet(lines) \ {Blank})
CutSet(lines) == [found : [Sections -> {Absent} \cup Filled(lines)],
                  head : {Absent} \cup Sections, body : Filled(lines)]

LEMMA ClosedType ==
  ASSUME NEW lines, NEW cut \in CutSet(lines)
  PROVE  Closed(cut) \in [Sections -> {Absent} \cup Filled(lines)]
<1>1. /\ cut.found \in [Sections -> {Absent} \cup Filled(lines)]
      /\ cut.head \in {Absent} \cup Sections /\ cut.body \in Filled(lines)
  BY DEF CutSet
<1> QED BY <1>1 DEF Closed

LEMMA CutsType ==
  ASSUME NEW lines, Len(lines) \in Nat, DOMAIN lines = 1..Len(lines)
  PROVE  \A n \in 0..Len(lines) : Cuts(lines)[n] \in CutSet(lines)
<1> DEFINE Bad == {n \in 0..Len(lines) : Cuts(lines)[n] \notin CutSet(lines)}
<1>0. Cuts(lines)[0] \in CutSet(lines)
  <2>1. << >> \in Filled(lines)
    BY DEF Filled
  <2> QED BY <2>1, CutsProperty DEF NoCut, CutSet
<1>1. ASSUME NEW n \in 1..Len(lines), Cuts(lines)[n - 1] \in CutSet(lines)
      PROVE  Cuts(lines)[n] \in CutSet(lines)
  <2> DEFINE cut == Cuts(lines)[n - 1]
             line == lines[n]
  <2>1. Cuts(lines)[n] = NextLine(cut, line)
    BY CutsProperty
  <2>2. line \in ToSet(lines)
    BY DEF ToSet
  <2>3. cut \in CutSet(lines)
    BY <1>1
  <2> HIDE DEF cut, line
  <2>4. Closed(cut) \in [Sections -> {Absent} \cup Filled(lines)]
    BY <2>3, ClosedType
  <2>5. CASE line \in DOMAIN Headers
    <3>1. Headers[line] \in Sections /\ << >> \in Filled(lines)
      BY <2>5 DEF Sections, Filled
    <3> QED BY <2>1, <2>4, <2>5, <3>1 DEF NextLine, CutSet
  <2>6. CASE line \notin DOMAIN Headers
    <3>1. cut.body \in Filled(lines)
      BY <2>3 DEF CutSet
    <3>2. Body(cut, line) \in Filled(lines)
      BY <2>2, <3>1 DEF Body, Filled
    <3> QED BY <2>1, <2>3, <2>6, <3>2 DEF NextLine, CutSet
  <2> QED BY <2>5, <2>6
<1> HIDE DEF Bad
<1>2. Bad = {}
  <2>1. Bad \subseteq 0..Len(lines) /\ 0 \notin Bad
    BY <1>0 DEF Bad
  <2>2. \A n \in 1..Len(lines) : n - 1 \notin Bad => n \notin Bad
    <3>1. \A n \in 1..Len(lines) : n - 1 \in 0..Len(lines)
      OBVIOUS
    <3> QED BY <1>1, <3>1 DEF Bad
  <2> QED BY <2>1, <2>2, NoFirstBad
<1> QED BY <1>2 DEF Bad

(* The sections of a text hold lines of it. *)
LEMMA SectionsOfText ==
  ASSUME NEW lines, Len(lines) \in Nat, DOMAIN lines = 1..Len(lines)
  PROVE  ExtractSections(lines) \in [Sections -> {Absent} \cup Filled(lines)]
BY CutsProperty, CutsType, ClosedType

-----------------------------------------------------------------------------
(* The sections found up to line n of the text, and which lines they hold.   *)

CutOf(n) == Cuts(Tail(text))[n - 1]
FoundBy(n) == Closed(CutOf(n))
Name(k) == Headers[text[k]]

(* Header k is the last up to line n, or the last of its name. *)
Open(k, n) == k \in 2..n /\ IsHeader(k) /\ \A j \in (k + 1)..n : ~ IsHeader(j)
LastOf(k, n) == k \in 2..n /\ IsHeader(k) /\ \A j \in (k + 1)..n : IsHeader(j) => Name(j) # Name(k)

(* The lines up to n that stand under header k. *)
Under(k, n) == {i \in (k + 1)..n : text[i] # Blank /\ \A j \in (k + 1)..i : ~ IsHeader(j)}

CutInv(n) ==
    /\ CutOf(n).head # Absent => \E k \in 2..n : Open(k, n)
    /\ \A k \in 2..n : Open(k, n) => CutOf(n).head = Name(k)
    /\ \A s \in Sections : (\A k \in 2..n : IsHeader(k) => Name(k) # s) => FoundBy(n)[s] = Absent
    /\ \A k \in 2..n : LastOf(k, n) => Reads(FoundBy(n)[Name(k)], Under(k, n))

LEMMA AbsentIsNothing == Absent \notin Sections /\ \A S : S \subseteq AnyLine => Absent \notin Seq(S)
<1>1. Absent \notin Sections /\ Absent \notin Seq(AnyLine)
  BY ResumeTextAssumption DEF Sections, AnyLine
<1>2. \A S : S \subseteq AnyLine => Seq(S) \subseteq Seq(AnyLine)
  OBVIOUS
<1> QED BY <1>1, <1>2

(* One line more in the cut. *)
LEMMA NextCut ==
  ASSUME TextInv, text # << >>, NEW n \in 1..(Len(text) - 1)
  PROVE  /\ FoundBy(n) \in [Sections -> {Absent} \cup Filled(Tail(text))]
         /\ CutOf(n).head \in {Absent} \cup Sections
         /\ IsHeader(n + 1) => /\ CutOf(n + 1).head = Name(n + 1)
                               /\ FoundBy(n + 1) = [FoundBy(n) EXCEPT ![Name(n + 1)] = << >>]
         /\ ~ IsHeader(n + 1) =>
                /\ CutOf(n + 1).head = CutOf(n).head
                /\ FoundBy(n + 1) =
                       IF CutOf(n).head = Absent \/ text[n + 1] = Blank THEN FoundBy(n)
                       ELSE [FoundBy(n) EXCEPT ![CutOf(n).head] = Append(@, text[n + 1])]
<1> DEFINE rest == Tail(text)
           c == CutOf(n)
           d == CutOf(n + 1)
           line == text[n + 1]
<1>1. /\ Len(rest) \in Nat /\ Len(rest) = Len(text) - 1 /\ DOMAIN rest = 1..Len(rest)
      /\ Len(text) \in Nat /\ rest[n] = line
  BY DEF TextInv
<1> HIDE DEF rest
<1>2. d = NextLine(c, line)
  <2>1. n \in 1..Len(rest) /\ (n + 1) - 1 = n
    BY <1>1
  <2>2. Cuts(rest)[n] = NextLine(Cuts(rest)[n - 1], rest[n])
    BY <1>1, <2>1, CutsProperty
  <2> QED BY <1>1, <2>1, <2>2 DEF CutOf, rest
<1>3. c \in CutSet(rest)
  <2>1. n - 1 \in 0..Len(rest)
    BY <1>1
  <2>2. Cuts(rest)[n - 1] \in CutSet(rest)
    BY <1>1, <2>1, CutsType
  <2> QED BY <2>2 DEF CutOf, rest
<1> HIDE DEF c, d
<1>4. Closed(c) \in [Sections -> {Absent} \cup Filled(rest)]
  BY <1>3, ClosedType
<1>5. /\ c.head \in {Absent} \cup Sections /\ c.found \in [Sections -> {Absent} \cup Filled(rest)]
      /\ c = [found |-> c.found, head |-> c.head, body |-> c.body]
  BY <1>3 DEF CutSet
<1>6. ASSUME IsHeader(n + 1)
      PROVE  d.head = Name(n + 1) /\ Closed(d) = [Closed(c) EXCEPT ![Name(n + 1)] = << >>]
  <2>1. line \in DOMAIN Headers /\ Headers[line] \in Sections
    BY <1>6 DEF IsHeader, Sections
  <2>2. d = [found |-> Closed(c), head |-> Headers[line], body |-> << >>]
    BY <1>2, <2>1 DEF NextLine
  <2>3. Headers[line] # Absent
    BY <2>1, AbsentIsNothing
  <2> QED BY <2>2, <2>3 DEF Closed, Name
<1>7. ASSUME ~ IsHeader(n + 1)
      PROVE  /\ d.head = c.head
             /\ Closed(d) = IF c.head = Absent \/ line = Blank THEN Closed(c)
                            ELSE [Closed(c) EXCEPT ![c.head] = Append(@, line)]
  <2>1. d = [c EXCEPT !.body = Body(c, line)]
    BY <1>2, <1>7 DEF NextLine, IsHeader
  <2>2. d.head = c.head /\ d.found = c.found /\ d.body = Body(c, line)
    BY <1>5, <2>1
  <2>3. CASE c.head = Absent
    BY <2>2, <2>3 DEF Closed
  <2>4. CASE c.head # Absent /\ line = Blank
    BY <2>2, <2>4 DEF Closed, Body
  <2>5. CASE c.head # Absent /\ line # Blank
    <3>1. Closed(d) = [c.found EXCEPT ![c.head] = Append(c.body, line)]
      BY <2>2, <2>5 DEF Closed, Body
    <3>2. Closed(c) = [c.found EXCEPT ![c.head] = c.body] /\ Closed(c)[c.head] = c.body
      BY <1>5, <2>5 DEF Closed
    <3>3. [Closed(c) EXCEPT ![c.head] = Append(@, line)] = [c.found EXCEPT ![c.head] = Append(c.body, line)]
      BY <1>5, <2>5, <3>2
    <3> QED BY <2>2, <2>5, <3>1, <3>3
  <2> QED BY <2>2, <2>3, <2>4, <2>5
<1> QED BY <1>4, <1>5, <1>6, <1>7 DEF FoundBy, c, d, rest

(* Which lines stand under a header, with one line more. *)
LEMMA UnderMore ==
  ASSUME NEW n \in Nat, NEW k \in 2..n
  PROVE  /\ Under(n + 1, n + 1) = {}
         /\ IsHeader(n + 1) => Under(k, n + 1) = Under(k, n)
         /\ ~ Open(k, n) /\ IsHeader(k) => Under(k, n + 1) = Under(k, n)
         /\ text[n + 1] = Blank => Under(k, n + 1) = Under(k, n)
         /\ Open(k, n) /\ ~ IsHeader(n + 1) /\ text[n + 1] # Blank => Under(k, n + 1) = Under(k, n) \cup {n + 1}
<1>1. (n + 2)..(n + 1) = {} /\ (n + 1) + 1 = n + 2
  OBVIOUS
<1>2. /\ (k + 1)..(n + 1) = (k + 1)..n \cup {n + 1} /\ n + 1 \notin (k + 1)..n
      /\ n + 1 \in (k + 1)..(n + 1) /\ (k + 1)..n \subseteq (k + 1)..(n + 1)
  OBVIOUS
<1>3. Under(n + 1, n + 1) = {}
  BY <1>1 DEF Under
<1>4. \A i : i \in Under(k, n + 1) <=>
          i \in Under(k, n) \/ (i = n + 1 /\ text[i] # Blank /\ \A j \in (k + 1)..(n + 1) : ~ IsHeader(j))
  BY <1>2 DEF Under
<1>5. IsHeader(n + 1) => Under(k, n + 1) = Under(k, n)
  BY <1>2, <1>4
<1>6. text[n + 1] = Blank => Under(k, n + 1) = Under(k, n)
  BY <1>4
<1>7. ~ Open(k, n) /\ IsHeader(k) => Under(k, n + 1) = Under(k, n)
  <2>1. ~ Open(k, n) /\ IsHeader(k) => \E j \in (k + 1)..(n + 1) : IsHeader(j)
    BY <1>2 DEF Open
  <2> QED BY <1>4, <2>1
<1>8. ASSUME Open(k, n), ~ IsHeader(n + 1), text[n + 1] # Blank PROVE Under(k, n + 1) = Under(k, n) \cup {n + 1}
  <2>1. \A j \in (k + 1)..(n + 1) : ~ IsHeader(j)
    BY <1>2, <1>8 DEF Open
  <2> QED BY <1>4, <1>8, <2>1
<1> QED BY <1>3, <1>5, <1>6, <1>7, <1>8

LEMMA CutStep ==
  ASSUME TextInv, text # << >>, NEW n \in 1..(Len(text) - 1), CutInv(n)
  PROVE  CutInv(n + 1)
<1> DEFINE m == n + 1
           head == CutOf(n).head
           F == FoundBy(n)
           G == FoundBy(m)
<1>1. /\ n \in Nat /\ m \in Nat /\ m \in 1..Len(text) /\ m \in 2..m
      /\ 2..m = 2..n \cup {m} /\ m \notin 2..n
      /\ \A k \in 2..n : (k + 1)..m = (k + 1)..n \cup {m}
      /\ (m + 1)..m = {}
  BY DEF TextInv
<1>2. /\ F \in [Sections -> {Absent} \cup Filled(Tail(text))] /\ head \in {Absent} \cup Sections
      /\ IsHeader(m) => CutOf(m).head = Name(m) /\ G = [F EXCEPT ![Name(m)] = << >>]
      /\ ~ IsHeader(m) => /\ CutOf(m).head = head
                          /\ G = IF head = Absent \/ text[m] = Blank THEN F
                                 ELSE [F EXCEPT ![head] = Append(@, text[m])]
  BY NextCut
<1>3. /\ head # Absent => \E k \in 2..n : Open(k, n)
      /\ \A k \in 2..n : Open(k, n) => head = Name(k)
      /\ \A s \in Sections : (\A k \in 2..n : IsHeader(k) => Name(k) # s) => F[s] = Absent
      /\ \A k \in 2..n : LastOf(k, n) => Reads(F[Name(k)], Under(k, n))
  BY DEF CutInv
<1>4. \A k : IsHeader(k) => Name(k) \in Sections /\ Name(k) # Absent
  BY AbsentIsNothing DEF IsHeader, Name, Sections
<1>5. \A k \in 2..n : /\ Open(k, m) <=> Open(k, n) /\ ~ IsHeader(m)
                      /\ LastOf(k, m) <=> LastOf(k, n) /\ (IsHeader(m) => Name(m) # Name(k))
  BY <1>1 DEF Open, LastOf
<1>6. (IsHeader(m) => Open(m, m) /\ LastOf(m, m)) /\ (Open(m, m) \/ LastOf(m, m) => IsHeader(m))
  BY <1>1 DEF Open, LastOf
<1> HIDE DEF m, head, F, G
<1>7. CASE IsHeader(m)
  <2>1. \E k \in 2..m : Open(k, m)
    BY <1>1, <1>6, <1>7
  <2>2. \A k \in 2..m : Open(k, m) => CutOf(m).head = Name(k)
    BY <1>1, <1>2, <1>5, <1>7
  <2>3. ASSUME NEW s \in Sections, \A k \in 2..m : IsHeader(k) => Name(k) # s PROVE G[s] = Absent
    <3>1. F[s] = Absent /\ Name(m) # s
      BY <1>1, <1>3, <1>7, <2>3
    <3> QED BY <1>2, <1>7, <3>1
  <2>4. ASSUME NEW k \in 2..m, LastOf(k, m) PROVE Reads(G[Name(k)], Under(k, m))
    <3>1. CASE k = m
      <4>1. Under(m, m) = {}
        BY <1>1 DEF Under
      <4>2. G[Name(m)] = << >>
        BY <1>2, <1>4, <1>7
      <4> QED BY <3>1, <4>1, <4>2, ReadsNothing
    <3>2. CASE k # m
      <4>1. k \in 2..n
        BY <1>1, <3>2
      <4>2. LastOf(k, n) /\ Name(m) # Name(k)
        BY <1>5, <1>7, <2>4, <4>1
      <4>3. Under(k, m) = Under(k, n)
        BY <1>1, <1>7, <4>1, UnderMore DEF m
      <4>4. G[Name(k)] = F[Name(k)]
        BY <1>2, <1>4, <1>7, <4>2 DEF LastOf
      <4> QED BY <1>3, <4>1, <4>2, <4>3, <4>4
    <3> QED BY <3>1, <3>2
  <2> QED BY <2>1, <2>2, <2>3, <2>4 DEF CutInv, G, m
<1>8. CASE ~ IsHeader(m)
  <2>1. CutOf(m).head # Absent => \E k \in 2..m : Open(k, m)
    BY <1>1, <1>2, <1>3, <1>5, <1>8
  <2>2. \A k \in 2..m : Open(k, m) => CutOf(m).head = Name(k)
    BY <1>1, <1>2, <1>3, <1>5, <1>6, <1>8
  <2>3. ASSUME NEW s \in Sections, \A k \in 2..m : IsHeader(k) => Name(k) # s PROVE G[s] = Absent
    <3>1. F[s] = Absent
      BY <1>1, <1>3, <2>3
    <3>2. head # s
      <4>1. s # Absent
        BY AbsentIsNothing
      <4>2. ASSUME head # Absent PROVE head # s
        <5>1. PICK k \in 2..n : Open(k, n)
          BY <1>3, <4>2
        <5>2. head = Name(k) /\ IsHeader(k) /\ k \in 2..m
          BY <1>1, <1>3, <5>1 DEF Open
        <5> QED BY <2>3, <5>2
      <4> QED BY <4>1, <4>2
    <3> QED BY <1>2, <1>8, <3>1, <3>2
  <2>4. ASSUME NEW k \in 2..m, LastOf(k, m) PROVE Reads(G[Name(k)], Under(k, m))
    <3>1. k \in 2..n /\ LastOf(k, n) /\ IsHeader(k)
      BY <1>1, <1>5, <1>6, <1>8, <2>4 DEF LastOf
    <3>2. Reads(F[Name(k)], Under(k, n))
      BY <1>3, <3>1
    <3>3. CASE text[m] = Blank
      <4>1. Under(k, m) = Under(k, n)
        BY <1>1, <3>1, <3>3, UnderMore DEF m
      <4> QED BY <1>2, <1>8, <3>2, <3>3, <4>1
    <3>4. CASE text[m] # Blank /\ Open(k, n)
      <4>1. Under(k, m) = Under(k, n) \cup {m}
        BY <1>1, <1>8, <3>1, <3>4, UnderMore DEF m
      <4>2. head = Name(k) /\ head # Absent /\ head \in Sections
        BY <1>3, <1>4, <3>1, <3>4
      <4>3. G[Name(k)] = Append(F[Name(k)], text[m])
        BY <1>2, <1>8, <3>4, <4>2
      <4>4. \A j \in Under(k, n) : j < m
        BY DEF Under, m
      <4>5. Reads(Append(F[Name(k)], text[m]), Under(k, n) \cup {m})
        BY <1>1, <3>2, <4>4, ReadsMore
      <4> QED BY <4>1, <4>3, <4>5
    <3>5. CASE text[m] # Blank /\ ~ Open(k, n)
      <4>1. Under(k, m) = Under(k, n)
        BY <1>1, <3>1, <3>5, UnderMore DEF m
      <4>2. G[Name(k)] = F[Name(k)]
        <5>1. CASE head = Absent
          BY <1>2, <1>8, <5>1
        <5>2. CASE head # Absent
          <6>1. PICK o \in 2..n : Open(o, n)
            BY <1>3, <5>2
          <6>2. o # k /\ IsHeader(o) /\ \A j \in (o + 1)..n : ~ IsHeader(j)
            BY <3>5, <6>1 DEF Open
          <6>3. o \in (k + 1)..n \/ k \in (o + 1)..n
            BY <1>1, <3>1, <6>2
          <6>4. Name(o) # Name(k)
            BY <3>1, <6>2, <6>3 DEF LastOf
          <6>5. head # Name(k)
            BY <1>3, <6>1, <6>4
          <6> QED BY <1>2, <1>4, <1>8, <3>1, <6>5
        <5> QED BY <5>1, <5>2
      <4> QED BY <3>2, <4>1, <4>2
    <3> QED BY <3>3, <3>4, <3>5
  <2> QED BY <2>1, <2>2, <2>3, <2>4 DEF CutInv, G, m
<1> QED BY <1>7, <1>8

(* So what is found of the whole text holds the lines under the last header  *)
(* of each name.                                                             *)
LEMMA CutIsRead ==
  ASSUME TextInv, text # << >>
  PROVE  /\ CutInv(Len(text)) /\ ExtractSections(Tail(text)) = FoundBy(Len(text))
         /\ FoundBy(Len(text)) \in [Sections -> {Absent} \cup Filled(Tail(text))]
<1> DEFINE N == Len(text)
           rest == Tail(text)
           Bad == {n \in 0..(N - 1) : ~ CutInv(n + 1)}
<1>1. /\ N \in Nat /\ N >= 1 /\ Len(rest) = N - 1 /\ Len(rest) \in Nat /\ DOMAIN rest = 1..Len(rest)
  BY DEF TextInv
<1> HIDE DEF N, rest
<1>2. CutInv(1)
  <2>1. CutOf(1) = NoCut
    BY <1>1, CutsProperty DEF CutOf, rest
  <2>2. 2..1 = {}
    OBVIOUS
  <2>3. CutOf(1).head = Absent /\ \A s \in Sections : FoundBy(1)[s] = Absent
    BY <2>1 DEF NoCut, FoundBy, Closed
  <2> QED BY <2>2, <2>3 DEF CutInv
<1>3. Bad = {}
  <2>1. ASSUME NEW n \in 1..(N - 1), n - 1 \notin Bad PROVE n \notin Bad
    <3>1. n - 1 \in 0..(N - 1) /\ (n - 1) + 1 = n
      BY <1>1
    <3>2. CutInv(n)
      BY <2>1, <3>1
    <3>3. CutInv(n + 1)
      BY <3>2, CutStep DEF N
    <3> QED BY <3>3
  <2>2. 0 \notin Bad
    BY <1>2
  <2>3. N - 1 \in Nat
    BY <1>1
  <2> HIDE DEF Bad
  <2>4. Bad \subseteq 0..(N - 1)
    BY DEF Bad
  <2> QED BY <2>1, <2>2, <2>3, <2>4, NoFirstBad
<1>4. CutInv(N)
  <2>1. N - 1 \in 0..(N - 1) /\ (N - 1) + 1 = N
    BY <1>1
  <2> QED BY <1>3, <2>1
<1>5. ExtractSections(rest) = Closed(Cuts(rest)[N - 1])
  BY <1>1, CutsProperty
<1>6. ExtractSections(rest) \in [Sections -> {Absent} \cup Filled(rest)]
  BY <1>1, SectionsOfText
<1> QED BY <1>4, <1>5, <1>6 DEF FoundBy, CutOf, N, rest

-----------------------------------------------------------------------------
(* The lines of a section and of a field, as LinesAccountedFor names them.   *)

SectionLines(s) == {i \in 1..Len(text) : InSection(i, s)}
FieldLines(f) == {i \in 1..Len(text) : InField(i, f)}

LEMMA GreatestNumber ==
  ASSUME NEW n \in Nat, NEW S, S \subseteq 0..n, S # {}
  PROVE  \E x \in S : \A y \in S : y <= x
<1> DEFINE D == {n - x : x \in S}
<1>1. D \subseteq Nat /\ D # {}
  <2>1. \A x \in S : n - x \in Nat
    OBVIOUS
  <2> QED BY <2>1
<1>2. Min(D) \in D /\ \A y \in D : Min(D) <= y
  BY <1>1, LeastNumber
<1>3. PICK x \in S : \A y \in D : n - x <= y
  BY <1>2
<1>4. ASSUME NEW y \in S PROVE y <= x
  <2>1. n - x <= n - y
    BY <1>3
  <2> QED BY <2>1
<1> QED BY <1>4

(* The header of a line is the last above it. *)
LEMMA HeaderAbove ==
  ASSUME NEW i \in Nat
  PROVE  LET above == {k \in 2..(i - 1) : IsHeader(k)}
         IN /\ above = {} => HeaderOf(i) = 0
            /\ above # {} => HeaderOf(i) \in above /\ \A j \in above : j <= HeaderOf(i)
<1> DEFINE above == {k \in 2..(i - 1) : IsHeader(k)}
<1>1. HeaderOf(i) = IF above = {} THEN 0 ELSE CHOOSE k \in above : \A j \in above : j <= k
  BY DEF HeaderOf
<1>2. above \subseteq 0..i
  OBVIOUS
<1> HIDE DEF above
<1>3. ASSUME above # {} PROVE \E k \in above : \A j \in above : j <= k
  BY <1>2, <1>3, GreatestNumber
<1>4. above # {} => HeaderOf(i) \in above /\ \A j \in above : j <= HeaderOf(i)
  BY <1>1, <1>3
<1> QED BY <1>1, <1>4 DEF above

LEMMA UnderItsHeader ==
  ASSUME Len(text) \in Nat, NEW i \in 1..Len(text), NEW k \in 2..Len(text), IsHeader(k)
  PROVE  i \in Under(k, Len(text)) <=> text[i] # Blank /\ ~ IsHeader(i) /\ HeaderOf(i) = k
<1> DEFINE above == {j \in 2..(i - 1) : IsHeader(j)}
<1>1. /\ above = {} => HeaderOf(i) = 0
      /\ above # {} => HeaderOf(i) \in above /\ \A j \in above : j <= HeaderOf(i)
  <2>1. i \in Nat
    OBVIOUS
  <2> QED BY <2>1, HeaderAbove
<1>2. ASSUME i \in Under(k, Len(text)) PROVE text[i] # Blank /\ ~ IsHeader(i) /\ HeaderOf(i) = k
  <2>1. /\ i \in (k + 1)..Len(text) /\ text[i] # Blank
        /\ \A j \in (k + 1)..i : ~ IsHeader(j)
    BY <1>2 DEF Under
  <2>2. i \in (k + 1)..i /\ k \in 2..(i - 1)
    BY <2>1
  <2>3. k \in above
    BY <2>2
  <2>4. HeaderOf(i) \in above /\ k <= HeaderOf(i)
    BY <1>1, <2>3
  <2>5. HeaderOf(i) \in 2..(i - 1) /\ IsHeader(HeaderOf(i))
    BY <2>4
  <2>6. HeaderOf(i) = k
    <3>1. HeaderOf(i) \notin (k + 1)..i
      BY <2>1, <2>5
    <3> QED BY <2>1, <2>4, <2>5, <3>1
  <2> QED BY <2>1, <2>2, <2>6
<1>3. ASSUME text[i] # Blank, ~ IsHeader(i), HeaderOf(i) = k PROVE i \in Under(k, Len(text))
  <2>1. k \in 2..(i - 1) /\ \A j \in above : j <= k
    BY <1>1, <1>3
  <2>2. i \in (k + 1)..Len(text)
    BY <2>1
  <2>3. ASSUME NEW j \in (k + 1)..i, IsHeader(j) PROVE FALSE
    <3>1. j # i
      BY <1>3, <2>3
    <3>2. j \in 2..(i - 1) /\ ~ (j <= k)
      BY <2>1, <3>1
    <3> QED BY <2>1, <2>3, <3>2
  <2> QED BY <1>3, <2>2, <2>3 DEF Under
<1> QED BY <1>2, <1>3

(* A section that survives is that of the last header of its name. *)
LEMMA InLastSection ==
  ASSUME Len(text) \in Nat, NEW i \in 1..Len(text), NEW s
  PROVE  InSection(i, s) <=>
             \E k \in 2..Len(text) : LastOf(k, Len(text)) /\ Name(k) = s /\ i \in Under(k, Len(text))
<1> DEFINE N == Len(text)
           h == HeaderOf(i)
<1>0. h = 0 \/ (h \in 2..N /\ h \in Nat /\ IsHeader(h))
  <2>1. i \in Nat /\ 2..(i - 1) \subseteq 2..N
    OBVIOUS
  <2>2. 2..N \subseteq Nat
    OBVIOUS
  <2> QED BY <2>1, <2>2, HeaderAbove
<1>1. InSection(i, s) <=> /\ i > 1 /\ text[i] # Blank /\ ~ IsHeader(i) /\ h # 0
                          /\ \A j \in (h + 1)..N : IsHeader(j) => Name(j) # Name(h)
                          /\ Name(h) = s
  BY DEF InSection, Survives, Name
<1>2. ASSUME InSection(i, s)
      PROVE  \E k \in 2..N : LastOf(k, N) /\ Name(k) = s /\ i \in Under(k, N)
  <2>1. h \in 2..N /\ IsHeader(h)
    BY <1>0, <1>1, <1>2
  <2>2. i \in Under(h, N)
    BY <1>1, <1>2, <2>1, UnderItsHeader
  <2>3. LastOf(h, N)
    BY <1>1, <1>2, <2>1 DEF LastOf
  <2> QED BY <1>1, <1>2, <2>1, <2>2, <2>3
<1>3. ASSUME NEW k \in 2..N, LastOf(k, N), Name(k) = s, i \in Under(k, N)
      PROVE  InSection(i, s)
  <2>1. IsHeader(k) /\ \A j \in (k + 1)..N : IsHeader(j) => Name(j) # Name(k)
    BY <1>3 DEF LastOf
  <2>2. text[i] # Blank /\ ~ IsHeader(i) /\ h = k
    BY <1>3, <2>1, UnderItsHeader
  <2>3. i > 1 /\ k # 0
    BY <1>3 DEF Under
  <2> QED BY <1>1, <1>3, <2>1, <2>2, <2>3
<1> QED BY <1>2, <1>3

(* What is found of a section holds the lines of it. *)
LEMMA SectionIsRead ==
  ASSUME TextInv, text # << >>, NEW s
  PROVE  Reads(Content(FoundBy(Len(text)), s), SectionLines(s))
<1> DEFINE N == Len(text)
           found == FoundBy(N)
<1>1. N \in Nat
  BY DEF TextInv
<1>2. /\ \A t \in Sections : (\A k \in 2..N : IsHeader(k) => Name(k) # t) => found[t] = Absent
      /\ \A k \in 2..N : LastOf(k, N) => Reads(found[Name(k)], Under(k, N))
  <2>1. CutInv(N)
    BY CutIsRead
  <2> QED BY <2>1 DEF CutInv
<1>3. \A i \in 1..N : InSection(i, s) <=>
          \E k \in 2..N : LastOf(k, N) /\ Name(k) = s /\ i \in Under(k, N)
  BY <1>1, InLastSection
<1> HIDE DEF N, found
<1>4. CASE s \in Sections /\ \E k \in 2..N : IsHeader(k) /\ Name(k) = s
  <2> DEFINE named == {k \in 2..N : IsHeader(k) /\ Name(k) = s}
  <2>1. named \subseteq 0..N /\ named # {}
    BY <1>1, <1>4
  <2>2. PICK k \in named : \A j \in named : j <= k
    BY <1>1, <2>1, GreatestNumber
  <2>3. k \in 2..N /\ IsHeader(k) /\ Name(k) = s
    BY <2>2
  <2>4. ASSUME NEW j \in (k + 1)..N, IsHeader(j) PROVE Name(j) # s
    <3>1. j \in 2..N /\ ~ (j <= k)
      BY <1>1, <2>3
    <3> QED BY <2>2, <2>4, <3>1
  <2>5. LastOf(k, N)
    BY <2>3, <2>4 DEF LastOf
  <2>6. ASSUME NEW o \in 2..N, LastOf(o, N), Name(o) = s PROVE o = k
    <3>1. o \notin (k + 1)..N /\ k \notin (o + 1)..N
      BY <2>3, <2>5, <2>6 DEF LastOf
    <3> QED BY <1>1, <2>3, <3>1
  <2>7. SectionLines(s) = Under(k, N)
    <3>1. \A i \in 1..N : InSection(i, s) <=> i \in Under(k, N)
      BY <1>3, <2>3, <2>5, <2>6
    <3>2. Under(k, N) \subseteq 1..N
      BY <1>1, <2>3 DEF Under
    <3> QED BY <3>1, <3>2 DEF SectionLines, N
  <2>8. Reads(found[s], Under(k, N))
    BY <1>2, <2>3, <2>5
  <2>9. Content(found, s) = found[s]
    <3>1. found[s] \in Seq(AnyLine)
      BY <2>8 DEF Reads
    <3>2. found[s] # Absent
      BY <3>1, AbsentIsNothing
    <3> QED BY <1>4, <3>2 DEF Content, Has
  <2> QED BY <2>7, <2>8, <2>9 DEF found, N
<1>5. CASE ~ (s \in Sections /\ \E k \in 2..N : IsHeader(k) /\ Name(k) = s)
  <2>1. \A k \in 2..N : IsHeader(k) => Name(k) # s
    BY <1>5 DEF IsHeader, Name, Sections
  <2>2. SectionLines(s) = {}
    BY <1>3, <2>1 DEF SectionLines, LastOf, N
  <2>3. Content(found, s) = << >>
    BY <1>2, <2>1 DEF Content, Has
  <2> QED BY <2>2, <2>3, ReadsNothing DEF found, N
<1> QED BY <1>4, <1>5

(* A line of a section describes an entry if a title of the section does not *)
(* come after it.                                                            *)
LEMMA ToldAreDescribed ==
  ASSUME Len(text) \in Nat, NEW s, NEW i \in SectionLines(s)
  PROVE  i \in Told(SectionLines(s)) <=> Described(i)
<1> DEFINE N == Len(text)
<1>1. PICK k \in 2..N : LastOf(k, N) /\ Name(k) = s /\ i \in Under(k, N)
  BY InLastSection DEF SectionLines
<1>2. i \in 1..N /\ IsHeader(k)
  BY <1>1 DEF SectionLines, LastOf
<1>3. HeaderOf(i) = k
  BY <1>1, <1>2, UnderItsHeader
<1>4. i \in (k + 1)..N /\ \A j \in (k + 1)..i : ~ IsHeader(j)
  BY <1>1 DEF Under
<1>5. ASSUME NEW j \in SectionLines(s), j <= i, IsTitle(text[j]) PROVE Described(i)
  <2>1. PICK o \in 2..N : LastOf(o, N) /\ Name(o) = s /\ j \in Under(o, N)
    BY InLastSection DEF SectionLines
  <2>2. o = k
    <3>1. o \notin (k + 1)..N /\ k \notin (o + 1)..N
      BY <1>1, <2>1 DEF LastOf
    <3> QED BY <3>1
  <2>3. j \in (k + 1)..i /\ text[j] # Blank
    BY <1>4, <1>5, <2>1, <2>2 DEF Under
  <2> QED BY <1>3, <1>5, <2>3 DEF Described
<1>6. ASSUME Described(i) PROVE \E j \in SectionLines(s) : j <= i /\ IsTitle(text[j])
  <2>1. PICK j \in (k + 1)..i : text[j] # Blank /\ IsTitle(text[j])
    BY <1>3, <1>6 DEF Described
  <2>2. /\ j \in (k + 1)..N /\ j \in 1..N /\ j <= i
        /\ (k + 1)..j \subseteq (k + 1)..i
    BY <1>4
  <2>3. j \in Under(k, N)
    BY <1>4, <2>1, <2>2 DEF Under
  <2>4. j \in SectionLines(s)
    BY <1>1, <2>2, <2>3, InLastSection DEF SectionLines
  <2> QED BY <2>1, <2>2, <2>4
<1> QED BY <1>5, <1>6 DEF Told

(* The headers a field is made from, in their order. *)
Keys(f) == {FieldKeys[f][n] : n \in DOMAIN FieldKeys[f]}

LEMMA KeysOfFields ==
  ASSUME NEW f \in DOMAIN FieldKeys
  PROVE  \E last \in Nat : DOMAIN FieldKeys[f] = 1..last
<1>1. DOMAIN FieldKeys = {"skills", "experience", "education", "certifications", "summary"}
  BY DEF FieldKeys
<1>2. /\ DOMAIN FieldKeys["skills"] = 1..2 /\ DOMAIN FieldKeys["experience"] = 1..3
      /\ DOMAIN FieldKeys["education"] = 1..2 /\ DOMAIN FieldKeys["certifications"] = 1..2
      /\ DOMAIN FieldKeys["summary"] = 1..4
  BY DEF FieldKeys
<1> QED BY <1>1, <1>2

LEMMA KeysDiffer ==
  ASSUME NEW f \in DOMAIN FieldKeys, NEW g \in DOMAIN FieldKeys, f # g
  PROVE  Keys(f) \cap Keys(g) = {}
<1>1. DOMAIN FieldKeys = {"skills", "experience", "education", "certifications", "summary"}
  BY DEF FieldKeys
<1>2. /\ DOMAIN FieldKeys["skills"] = {1, 2} /\ DOMAIN FieldKeys["experience"] = {1, 2, 3}
      /\ DOMAIN FieldKeys["education"] = {1, 2} /\ DOMAIN FieldKeys["certifications"] = {1, 2}
      /\ DOMAIN FieldKeys["summary"] = {1, 2, 3, 4}
  BY DEF FieldKeys
<1>3. \A h : /\ DOMAIN FieldKeys[h] = {1, 2} => Keys(h) = {FieldKeys[h][1], FieldKeys[h][2]}
             /\ DOMAIN FieldKeys[h] = {1, 2, 3} => Keys(h) = {FieldKeys[h][1], FieldKeys[h][2], FieldKeys[h][3]}
             /\ DOMAIN FieldKeys[h] = {1, 2, 3, 4} =>
                    Keys(h) = {FieldKeys[h][1], FieldKeys[h][2], FieldKeys[h][3], FieldKeys[h][4]}
  BY DEF Keys
<1>4. /\ FieldKeys["skills"][1] = "skills" /\ FieldKeys["skills"][2] = "technical skills"
      /\ FieldKeys["experience"][1] = "experience" /\ FieldKeys["experience"][2] = "work experience"
      /\ FieldKeys["experience"][3] = "professional experience"
      /\ FieldKeys["education"][1] = "education" /\ FieldKeys["education"][2] = "academic background"
      /\ FieldKeys["certifications"][1] = "certifications" /\ FieldKeys["certifications"][2] = "certificates"
      /\ FieldKeys["summary"][1] = "summary" /\ FieldKeys["summary"][2] = "professional summary"
      /\ FieldKeys["summary"][3] = "objective" /\ FieldKeys["summary"][4] = "profile"
  BY DEF FieldKeys
<1>5. Keys("skills") = {"skills", "technical skills"}
  BY <1>2, <1>3, <1>4, Zenon
<1>6. Keys("experience") = {"experience", "work experience", "professional experience"}
  BY <1>2, <1>3, <1>4, Zenon
<1>7. Keys("education") = {"education", "academic background"}
  BY <1>2, <1>3, <1>4, Zenon
<1>8. Keys("certifications") = {"certifications", "certificates"}
  BY <1>2, <1>3, <1>4, Zenon
<1>9. Keys("summary") = {"summary", "professional summary", "objective", "profile"}
  BY <1>2, <1>3, <1>4, Zenon
<1>10. \A k \in Keys("skills") : k \notin Keys("experience") \cup Keys("education")
                                       \cup Keys("certifications") \cup Keys("summary")
  BY <1>5, <1>6, <1>7, <1>8, <1>9, Zenon
<1>11. \A k \in Keys("experience") : k \notin Keys("education") \cup Keys("certifications") \cup Keys("summary")
  BY <1>6, <1>7, <1>8, <1>9, Zenon
<1>12. \A k \in Keys("education") : k \notin Keys("certifications") \cup Keys("summary")
  BY <1>7, <1>8, <1>9, Zenon
<1>13. \A k \in Keys("certifications") : k \notin Keys("summary")
  BY <1>8, <1>9, Zenon
<1> QED BY <1>1, <1>10, <1>11, <1>12, <1>13

(* A field is one of its sections, or has none. *)
LEMMA FieldIsASection ==
  ASSUME TextInv, text # << >>, NEW f \in DOMAIN FieldKeys
  PROVE  \/ FirstFilled(FoundBy(Len(text)), FieldKeys[f]) = << >> /\ FieldLines(f) = {}
         \/ \E n \in DOMAIN FieldKeys[f] :
                /\ FirstFilled(FoundBy(Len(text)), FieldKeys[f]) = Content(FoundBy(Len(text)), FieldKeys[f][n])
                /\ FieldLines(f) = SectionLines(FieldKeys[f][n])
<1> DEFINE N == Len(text)
           found == FoundBy(N)
           keys == FieldKeys[f]
           filled == {n \in DOMAIN keys : Content(found, keys[n]) # << >>}
<1>1. FirstFilled(found, keys) = IF filled = {} THEN << >> ELSE Content(found, keys[Min(filled)])
  BY DEF FirstFilled
<1>2. \A n \in DOMAIN keys : n \in filled <=> SectionLines(keys[n]) # {}
  <2>1. \A s : Content(found, s) = << >> <=> SectionLines(s) = {}
    <3>1. \A s : Reads(Content(found, s), SectionLines(s))
      BY SectionIsRead
    <3> QED BY <3>1 DEF Reads
  <2> QED BY <2>1
<1>0. PICK last \in Nat : DOMAIN keys = 1..last
  BY KeysOfFields
<1>3. DOMAIN text = 1..N /\ DOMAIN keys \subseteq Nat
  BY <1>0 DEF TextInv
<1>4. \A i : InField(i, f) <=>
          \E n \in DOMAIN keys : /\ InSection(i, keys[n])
                                 /\ \A m \in 1..(n - 1) : \A j \in 1..N : ~ InSection(j, keys[m])
  BY <1>3 DEF InField
<1>5. \A m \in DOMAIN keys : \A n \in DOMAIN keys : m < n <=> m \in 1..(n - 1)
  BY <1>0
<1>6. \A n \in DOMAIN keys : 1..(n - 1) \subseteq DOMAIN keys
  BY <1>0
<1> HIDE DEF filled, keys, found, N
<1>7. CASE filled = {}
  <2>1. \A n \in DOMAIN keys : SectionLines(keys[n]) = {}
    BY <1>2, <1>7
  <2>2. FieldLines(f) = {}
    BY <1>4, <2>1 DEF FieldLines, SectionLines, N
  <2> QED BY <1>1, <1>7, <2>2 DEF keys, found, N
<1>8. CASE filled # {}
  <2> DEFINE n == Min(filled)
  <2>1. n \in filled /\ n \in DOMAIN keys /\ \A m \in filled : n <= m
    <3>1. filled \subseteq DOMAIN keys
      BY DEF filled
    <3>2. filled \subseteq Nat
      BY <1>3, <3>1
    <3> QED BY <1>8, <3>1, <3>2, LeastNumber
  <2> HIDE DEF n
  <2>2. \A m \in DOMAIN keys : m < n => m \notin filled
    BY <1>3, <2>1
  <2>3. \A m \in 1..(n - 1) : SectionLines(keys[m]) = {}
    BY <1>2, <1>5, <1>6, <2>1, <2>2
  <2>4. ASSUME NEW i \in 1..N, InSection(i, keys[n]) PROVE InField(i, f)
    BY <1>4, <2>1, <2>3, <2>4 DEF SectionLines, N
  <2>5. ASSUME NEW i \in 1..N, InField(i, f) PROVE InSection(i, keys[n])
    <3>1. PICK m \in DOMAIN keys : /\ InSection(i, keys[m])
                                   /\ \A o \in 1..(m - 1) : \A j \in 1..N : ~ InSection(j, keys[o])
      BY <1>4, <2>5
    <3>2. m \in filled
      BY <1>2, <3>1 DEF SectionLines, N
    <3>3. n \notin 1..(m - 1)
      BY <1>2, <2>1, <3>1 DEF SectionLines, N
    <3>4. n <= m /\ ~ (n < m)
      BY <1>5, <2>1, <3>2, <3>3
    <3>5. m = n
      BY <1>3, <2>1, <3>4
    <3> QED BY <3>1, <3>5
  <2>6. FieldLines(f) = SectionLines(keys[n])
    BY <2>4, <2>5 DEF FieldLines, SectionLines, N
  <2>7. FirstFilled(found, keys) = Content(found, keys[n])
    BY <1>1, <1>8 DEF n
  <2> QED BY <2>1, <2>6, <2>7 DEF keys, found, N
<1> QED BY <1>7, <1>8

LEMMA FieldIsRead ==
  ASSUME TextInv, text # << >>, NEW f \in DOMAIN FieldKeys
  PROVE  Reads(FirstFilled(FoundBy(Len(text)), FieldKeys[f]), FieldLines(f))
<1> DEFINE found == FoundBy(Len(text))
           field == FirstFilled(found, FieldKeys[f])
<1>1. \/ field = << >> /\ FieldLines(f) = {}
      \/ \E n \in DOMAIN FieldKeys[f] :
             field = Content(found, FieldKeys[f][n]) /\ FieldLines(f) = SectionLines(FieldKeys[f][n])
  BY FieldIsASection
<1> HIDE DEF found, field
<1>2. CASE field = << >> /\ FieldLines(f) = {}
  BY <1>2, ReadsNothing DEF field, found
<1>3. ASSUME NEW n \in DOMAIN FieldKeys[f],
             field = Content(found, FieldKeys[f][n]), FieldLines(f) = SectionLines(FieldKeys[f][n])
      PROVE  Reads(field, FieldLines(f))
  <2>1. Reads(Content(found, FieldKeys[f][n]), SectionLines(FieldKeys[f][n]))
    BY SectionIsRead DEF found
  <2> QED BY <1>3, <2>1
<1> QED BY <1>1, <1>2, <1>3 DEF field, found

LEMMA FieldIsDescribed ==
  ASSUME TextInv, text # << >>, NEW f \in DOMAIN FieldKeys, NEW i \in FieldLines(f)
  PROVE  i \in Told(FieldLines(f)) <=> Described(i)
<1>1. PICK n \in DOMAIN FieldKeys[f] : FieldLines(f) = SectionLines(FieldKeys[f][n])
  BY FieldIsASection
<1>2. Len(text) \in Nat
  BY DEF TextInv
<1> QED BY <1>1, <1>2, ToldAreDescribed

(* No line is in two fields, and the first in none. *)
LEMMA FieldsApart ==
  ASSUME NEW f \in DOMAIN FieldKeys
  PROVE  /\ 1 \notin FieldLines(f)
         /\ \A g \in DOMAIN FieldKeys : f # g => FieldLines(f) \cap FieldLines(g) = {}
<1>1. \A i : \A h \in DOMAIN FieldKeys : i \in FieldLines(h) => i > 1 /\ Name(HeaderOf(i)) \in Keys(h)
  BY DEF FieldLines, InField, InSection, Survives, Name, Keys
<1>2. ~ (1 > 1)
  OBVIOUS
<1>3. ASSUME NEW g \in DOMAIN FieldKeys, f # g PROVE FieldLines(f) \cap FieldLines(g) = {}
  BY <1>1, <1>3, KeysDiffer
<1> QED BY <1>1, <1>2, <1>3

-----------------------------------------------------------------------------
(* A first line that is no header changes nothing: it stands under none.     *)
LEMMA FirstLineIsNoSection ==
  ASSUME NEW S, NEW lines \in Seq(S), lines # << >>, Head(lines) \notin DOMAIN Headers
  PROVE  ExtractSections(lines) = ExtractSections(Tail(lines))
<1> DEFINE rest == Tail(lines)
           Same(n) == Cuts(lines)[n + 1] = Cuts(rest)[n]
           Bad == {n \in 0..Len(rest) : ~ Same(n)}
<1>1. /\ Len(lines) \in Nat /\ Len(rest) \in Nat /\ Len(rest) = Len(lines) - 1
      /\ Head(lines) = lines[1] /\ \A n \in 1..Len(rest) : rest[n] = lines[n + 1]
  OBVIOUS
<1> HIDE DEF rest
<1>2. Cuts(lines)[1] = NoCut
  <2>1. Cuts(lines)[1] = NextLine(NoCut, lines[1])
    <3>1. 1 \in 1..Len(lines) /\ 1 - 1 = 0
      BY <1>1
    <3> QED BY <1>1, <3>1, CutsProperty
  <2>2. NextLine(NoCut, lines[1]) = NoCut
    BY <1>1 DEF NextLine, Body, NoCut
  <2> QED BY <2>1, <2>2
<1>3. Same(0)
  BY <1>1, <1>2, CutsProperty
<1>4. ASSUME NEW n \in 1..Len(rest), Same(n - 1) PROVE Same(n)
  <2>1. Cuts(rest)[n] = NextLine(Cuts(rest)[n - 1], rest[n])
    BY <1>1, CutsProperty
  <2>2. Cuts(lines)[n + 1] = NextLine(Cuts(lines)[n], lines[n + 1])
    <3>1. n + 1 \in 1..Len(lines) /\ (n + 1) - 1 = n
      BY <1>1
    <3> QED BY <1>1, <3>1, CutsProperty
  <2>3. Cuts(lines)[n] = Cuts(rest)[n - 1]
    <3>1. (n - 1) + 1 = n
      BY <1>1
    <3> QED BY <1>4, <3>1
  <2> QED BY <1>1, <2>1, <2>2, <2>3
<1> HIDE DEF Bad, Same
<1>5. Bad = {}
  <2>1. Bad \subseteq 0..Len(rest) /\ 0 \notin Bad
    BY <1>3 DEF Bad
  <2>2. \A n \in 1..Len(rest) : n - 1 \notin Bad => n \notin Bad
    <3>1. \A n \in 1..Len(rest) : n - 1 \in 0..Len(rest)
      BY <1>1
    <3> QED BY <1>4, <3>1 DEF Bad
  <2> QED BY <1>1, <2>1, <2>2, NoFirstBad
<1>6. Same(Len(rest)) /\ Len(rest) + 1 = Len(lines)
  BY <1>1, <1>5 DEF Bad
<1>7. Cuts(lines)[Len(lines)] = Cuts(rest)[Len(rest)]
  BY <1>6 DEF Same
<1>8. ExtractSections(lines) = ExtractSections(rest)
  BY <1>1, <1>7, CutsProperty
<1> QED BY <1>8 DEF rest

-----------------------------------------------------------------------------
LEMMA LinesOfText ==
  ASSUME NEW S, NEW s \in Seq(S)
  PROVE  ToSet(s) \subseteq S
BY DEF ToSet

(* Between a filled section and the first there is: the tailored resume      *)
(* takes one, the editor the other, and all lines if that one is empty.      *)
LEMMA SkillLinesAreRead ==
  ASSUME NEW lines, NEW found \in [Sections -> {Absent} \cup Filled(lines)]
  PROVE  ToSet(FirstFilled(found, FieldKeys["skills"])) \subseteq SkillLines(lines, found)
<1> DEFINE keys == FieldKeys["skills"]
           filled == {i \in DOMAIN keys : Content(found, keys[i]) # << >>}
           there == {i \in DOMAIN SkillKeys : Has(found, SkillKeys[i])}
           m == Min(filled)
           p == Min(there)
<1>1. /\ DOMAIN keys = {1, 2} /\ DOMAIN SkillKeys = {1, 2, 3, 4}
      /\ \A i \in {1, 2} : keys[i] = SkillKeys[i]
  BY DEF FieldKeys, SkillKeys
<1>2. FirstFilled(found, keys) = IF filled = {} THEN << >> ELSE Content(found, keys[m])
  BY DEF FirstFilled
<1>3. FirstPresent(found, SkillKeys) = IF there = {} THEN << >> ELSE found[SkillKeys[p]]
  BY DEF FirstPresent
<1>4. CASE filled = {}
  <2>1. ToSet(<< >>) = {}
    BY DEF ToSet
  <2> QED BY <1>2, <1>4, <2>1
<1>5. CASE filled # {}
  <2> DEFINE section == Content(found, keys[m])
  <2>1. m \in filled /\ m \in {1, 2}
    <3>1. filled \subseteq {1, 2}
      BY <1>1
    <3>2. filled \subseteq Nat
      BY <3>1
    <3> QED BY <1>5, <3>1, <3>2, LeastNumber
  <2>2. section # << >>
    BY <2>1
  <2>3. /\ Has(found, keys[m]) /\ section = found[keys[m]]
        /\ section \in Seq(ToSet(lines) \ {Blank})
    BY <2>2 DEF Content, Has, Filled
  <2>4. ToSet(section) \subseteq ToSet(lines) \ {Blank}
    BY <2>3, LinesOfText
  <2>5. m \in there
    BY <1>1, <2>1, <2>3
  <2>6. p \in there /\ p \in {1, 2} /\ p <= m
    <3>1. there \subseteq {1, 2, 3, 4}
      BY <1>1
    <3>2. there \subseteq Nat
      BY <3>1
    <3>3. p \in there /\ \A y \in there : p <= y
      BY <2>5, <3>2, LeastNumber
    <3>4. p \in there /\ p \in {1, 2, 3, 4} /\ p <= m
      BY <2>5, <3>1, <3>3
    <3> HIDE DEF p, m, there
    <3> QED BY <2>1, <3>4
  <2>7. FirstPresent(found, SkillKeys) = found[keys[p]]
    BY <1>1, <1>3, <2>6
  <2>8. CASE p = m
    BY <1>2, <1>5, <2>2, <2>3, <2>4, <2>7, <2>8 DEF SkillLines
  <2>9. CASE p # m
    <3>1. p \notin filled
      <4>1. \A y \in filled : m <= y
        <5>1. filled \subseteq Nat
          BY <1>1
        <5> QED BY <1>5, <5>1, LeastNumber
      <4>2. ~ (m <= p)
        <5> HIDE DEF p, m
        <5> QED BY <2>1, <2>6, <2>9
      <4> QED BY <4>1, <4>2
    <3>2. Has(found, keys[p]) /\ Content(found, keys[p]) = << >>
      BY <1>1, <2>6, <3>1
    <3>3. found[keys[p]] = << >>
      BY <3>2 DEF Content
    <3> QED BY <1>2, <1>5, <2>4, <2>7, <3>3 DEF SkillLines
  <2> QED BY <2>8, <2>9
<1> QED BY <1>4, <1>5

(* So the editor misses only what it cannot read off the line.               *)
LEMMA SkillsAreOffered ==
  ASSUME NEW lines, NEW found \in [Sections -> {Absent} \cup Filled(lines)],
         NEW l \in ToSet(FirstFilled(found, FieldKeys["skills"])), NEW s \in Edited[l],
         s \notin Letters, l \notin Wide \ Listed
  PROVE  s \in SkillsOf(lines, found)
<1>1. l \in SkillLines(lines, found)
  BY SkillLinesAreRead
<1>2. s \in EditorSkills(l)
  BY DEF EditorSkills
<1> QED BY <1>1, <1>2 DEF SkillsOf

(* A first line that is neither header nor link is the name for both.        *)
LEMMA NamesAgree ==
  ASSUME NEW S, NEW lines \in Seq(S), lines # << >>,
         Head(lines) \notin DOMAIN Headers \cup Linked \cup {Blank}
  PROVE  FirstLine(lines, ToSet(lines) \ (DOMAIN Headers \cup Linked \cup {Blank})) = Head(lines)
<1> DEFINE some == ToSet(lines) \ (DOMAIN Headers \cup Linked \cup {Blank})
           at == {i \in DOMAIN lines : lines[i] \in some}
<1>1. 1 \in DOMAIN lines /\ lines[1] = Head(lines) /\ DOMAIN lines = 1..Len(lines) /\ Len(lines) \in Nat
  OBVIOUS
<1>2. lines[1] \in some
  BY <1>1 DEF ToSet
<1> HIDE DEF some
<1>3. 1 \in at /\ at \subseteq 1..Len(lines)
  BY <1>1, <1>2
<1>4. Min(at) = 1
  <2>1. at \subseteq Nat /\ at # {}
    BY <1>1, <1>3
  <2>2. Min(at) \in at /\ Min(at) <= 1
    BY <1>3, <2>1, LeastNumber
  <2> DEFINE m == Min(at)
  <2>3. m \in 1..Len(lines) /\ m <= 1
    BY <1>3, <2>2
  <2> HIDE DEF m
  <2>4. m = 1
    BY <1>1, <2>3
  <2> QED BY <2>4 DEF m
<1>5. FirstLine(lines, some) = lines[1]
  BY <1>3, <1>4 DEF FirstLine
<1> QED BY <1>1, <1>5 DEF some

-----------------------------------------------------------------------------
LEMMA TextIsStored == Spec => []TextInv
<1>1. Init => TextInv
  BY DEF Init, TextInv
<1>2. TextInv /\ [Next]_vars => TextInv'
  <2> SUFFICES ASSUME TextInv, [Next]_vars PROVE TextInv'
    OBVIOUS
  <2> USE DEF TextInv
  <2>1. ASSUME NEW l \in Lines, ReadPage(l) \/ ReadParagraph(l) PROVE TextInv'
    <3>1. /\ raw' = Append(raw, l) /\ text' = text
          /\ l \in AnyLine
      BY <2>1 DEF ReadPage, ReadParagraph, AnyLine
    <3> QED BY <3>1
  <2>2. CASE Parsed
    <3> DEFINE last == IF Len(raw) > Room THEN Room ELSE Len(raw)
    <3>1. last \in Nat /\ last <= Len(raw)
      BY ResumeTextAssumption
    <3> HIDE DEF last
    <3>2. SubSeq(raw, 1, last) \in Seq(AnyLine)
      BY <3>1
    <3>3. Cut(raw) = SubSeq(raw, 1, last)
      BY DEF Cut, last
    <3> QED BY <2>2, <3>2, <3>3 DEF Parsed
  <2>3. CASE ParseFails
    <3>1. {<< >>, <<Binary>>} \subseteq Seq(AnyLine)
      BY DEF AnyLine
    <3> QED BY <2>3, <3>1 DEF ParseFails
  <2>4. CASE Save
    BY <2>4 DEF Save
  <2>5. CASE UNCHANGED vars
    BY <2>5 DEF vars
  <2> QED BY <2>1, <2>2, <2>3, <2>4, <2>5 DEF Next
<1> QED BY <1>1, <1>2, PTL DEF Spec

(* Of every stored text that begins with no header the editor and the        *)
(* tailored resume take the same name, and every skill of the latter that    *)
(* the editor can read off its line is in the editor (resumes.py:208-222,    *)
(* resume.py:224-256).                                                       *)
THEOREM ReadingsAgree == Spec => []TailoredSkillsReachEditor
<1>1. TextInv => TailoredSkillsReachEditor
  <2> SUFFICES ASSUME TextInv, text # << >>, Head(text) \notin DOMAIN Headers
               PROVE  /\ Head(text) \notin Linked \cup {Blank} =>
                             Profile(text).name = ResumeData(text).name
                      /\ \A l \in ToSet(ResumeData(text).skills) : \A s \in Tailored[l] :
                            \/ s \in Profile(text).skills \cup Letters
                            \/ s \notin Edited[l] \/ l \in Wide \ Listed
    BY DEF TailoredSkillsReachEditor
  <2>1. text \in Seq(AnyLine) /\ Len(text) \in Nat /\ DOMAIN text = 1..Len(text)
    BY DEF TextInv
  <2> DEFINE found == ExtractSections(text)
  <2>2. found = ExtractSections(Tail(text))
    BY <2>1, FirstLineIsNoSection
  <2>3. found \in [Sections -> {Absent} \cup Filled(text)]
    BY <2>1, SectionsOfText
  <2> HIDE DEF found
  <2>4. /\ ResumeData(text).name = Head(text)
        /\ ResumeData(text).skills = FirstFilled(found, FieldKeys["skills"])
    BY <2>2 DEF ResumeData
  <2>5. /\ Profile(text).name = FirstLine(text, ToSet(text) \ (DOMAIN Headers \cup Linked \cup {Blank}))
        /\ Profile(text).skills = SkillsOf(text, found)
    BY DEF Profile, found
  <2>6. ASSUME NEW l \in ToSet(ResumeData(text).skills), NEW s \in Tailored[l],
               s \notin Letters, s \in Edited[l], l \notin Wide \ Listed
        PROVE  s \in Profile(text).skills
    BY <2>3, <2>4, <2>5, <2>6, SkillsAreOffered
  <2>7. ASSUME Head(text) \notin Linked \cup {Blank}
        PROVE  Profile(text).name = ResumeData(text).name
    BY <2>1, <2>4, <2>5, <2>7, NamesAgree
  <2> QED BY <2>6, <2>7
<1> QED BY <1>1, TextIsStored, PTL

LEMMA Together ==
  ASSUME NEW S, NEW T, IsFiniteSet(S), IsFiniteSet(T), S \cap T = {}
  PROVE  IsFiniteSet(S \cup T) /\ Cardinality(S \cup T) = Cardinality(S) + Cardinality(T)
<1>1. Cardinality({}) = 0 /\ Cardinality(S) \in Nat /\ Cardinality(T) \in Nat
  BY FS_EmptySet, FS_CardinalityType
<1>2. /\ IsFiniteSet(S \cup T)
      /\ Cardinality(S \cup T) = Cardinality(S) + Cardinality(T) - Cardinality(S \cap T)
  BY FS_Union
<1>3. Cardinality(S \cap T) = 0
  BY <1>1
<1> DEFINE m == Cardinality(S)
           n == Cardinality(T)
           o == Cardinality(S \cap T)
<1>4. m \in Nat /\ n \in Nat /\ o = 0 /\ Cardinality(S \cup T) = m + n - o
  BY <1>1, <1>2, <1>3
<1> HIDE DEF m, n, o
<1>5. Cardinality(S \cup T) = m + n
  BY <1>4
<1> QED BY <1>2, <1>5 DEF m, n

(* The tailored resume holds the lines of a stored text that it is to hold,  *)
(* each as often as it is in the text (resume.py:210-335).                   *)
THEOREM NoLineIsLost == Spec => []LinesAccountedFor
<1>1. TextInv => LinesAccountedFor
  <2> SUFFICES ASSUME TextInv, text # << >>, NEW l
               PROVE  Occurrences(ResumeData(text), l)
                      = Cardinality({i \in DOMAIN text : text[i] = l /\ InResume(i)})
    BY DEF LinesAccountedFor
  <2> DEFINE found == FoundBy(Len(text))
             Field(f) == FirstFilled(found, FieldKeys[f])
             d == ResumeData(text)
             Summary == Among(FieldLines("summary"), l)
             Skills == Among(FieldLines("skills"), l)
             Certificates == Among(FieldLines("certifications"), l)
             Degrees == Among(Graded(FieldLines("education")), l)
             Entries == Among(Told(FieldLines("experience")), l)
             TheName == Among({1}, l)
             All == {i \in DOMAIN text : text[i] = l /\ InResume(i)}
  <2>1. /\ "summary" \in DOMAIN FieldKeys /\ "skills" \in DOMAIN FieldKeys
        /\ "certifications" \in DOMAIN FieldKeys /\ "education" \in DOMAIN FieldKeys
        /\ "experience" \in DOMAIN FieldKeys
    BY DEF FieldKeys
  <2>2. /\ 1 \in DOMAIN text /\ DOMAIN text = 1..Len(text) /\ Head(text) = text[1]
    BY DEF TextInv
  <2>3. /\ d.name = text[1] /\ d.summary = Field("summary") /\ d.skills = Field("skills")
        /\ d.experience = ParseExperience(Field("experience"))
        /\ d.education = ParseEducation(Field("education")) /\ d.certifications = Field("certifications")
    <3>1. ExtractSections(Tail(text)) = found
      BY CutIsRead
    <3> QED BY <2>2, <3>1 DEF ResumeData
  <2>4. \A f \in DOMAIN FieldKeys : Reads(Field(f), FieldLines(f))
    BY FieldIsRead
  <2> HIDE DEF d, Field, found
  <2>5. /\ SameSize(Places(d.summary, l), Summary)
        /\ SameSize(Places(d.skills, l), Skills)
        /\ SameSize(Places(d.certifications, l), Certificates)
    BY <2>1, <2>3, <2>4 DEF Reads
  <2>6. SameSize(Places(d.education, l), Degrees)
    BY <2>1, <2>3, <2>4 DEF Reads, ReadsDegrees
  <2>7. SameSum(TitlePlaces(d.experience, l), TextPlaces(d.experience, l), Entries)
    BY <2>1, <2>3, <2>4 DEF Reads, ReadsEntries
  <2>8. SameSize(Places(<<d.name>>, l), TheName)
    <3>1. Places(<<d.name>>, l) = IF text[1] = l THEN {1} ELSE {}
      BY <2>3 DEF Places
    <3>2. Among({1}, l) = IF text[1] = l THEN {1} ELSE {}
      BY DEF Among
    <3>3. IsFiniteSet({}) /\ IsFiniteSet({1})
      BY FS_EmptySet, FS_Singleton
    <3> QED BY <3>1, <3>2, <3>3 DEF SameSize
  <2>9. All = TheName \cup Summary \cup Skills \cup Certificates \cup Degrees \cup Entries
    <3>1. ASSUME NEW i \in DOMAIN text
          PROVE  InResume(i) <=> \/ i = 1
                                 \/ i \in FieldLines("summary") \/ i \in FieldLines("skills")
                                 \/ i \in FieldLines("certifications")
                                 \/ i \in Told(FieldLines("experience"))
                                 \/ i \in Graded(FieldLines("education"))
      <4>1. \A f : i \in FieldLines(f) <=> InField(i, f)
        BY <2>2, <3>1 DEF FieldLines
      <4>2. i \in Told(FieldLines("experience")) <=> InField(i, "experience") /\ Described(i)
        <5>1. i \in Told(FieldLines("experience")) => i \in FieldLines("experience")
          BY DEF Told
        <5>2. i \in FieldLines("experience") => (i \in Told(FieldLines("experience")) <=> Described(i))
          BY <2>1, FieldIsDescribed
        <5> QED BY <4>1, <5>1, <5>2
      <4>3. i \in Graded(FieldLines("education")) <=> InField(i, "education") /\ text[i] \notin Bulleted
        BY <4>1 DEF Graded
      <4> QED BY <4>1, <4>2, <4>3 DEF InResume
    <3>2. \A f : FieldLines(f) \subseteq DOMAIN text
      BY <2>2 DEF FieldLines
    <3>3. /\ Told(FieldLines("experience")) \subseteq DOMAIN text
          /\ Graded(FieldLines("education")) \subseteq DOMAIN text
      BY <3>2 DEF Told, Graded
    <3> QED BY <2>2, <3>1, <3>2, <3>3 DEF Among
  <2>10. /\ TheName \cap Summary = {}
         /\ (TheName \cup Summary) \cap Skills = {}
         /\ (TheName \cup Summary \cup Skills) \cap Certificates = {}
         /\ (TheName \cup Summary \cup Skills \cup Certificates) \cap Degrees = {}
         /\ (TheName \cup Summary \cup Skills \cup Certificates \cup Degrees) \cap Entries = {}
    <3>1. /\ TheName \subseteq {1} /\ Summary \subseteq FieldLines("summary")
          /\ Skills \subseteq FieldLines("skills") /\ Certificates \subseteq FieldLines("certifications")
          /\ Degrees \subseteq FieldLines("education") /\ Entries \subseteq FieldLines("experience")
      BY DEF Among, Graded, Told
    <3>2. \A f \in DOMAIN FieldKeys : 1 \notin FieldLines(f)
      BY FieldsApart
    <3>3. \A f, g \in DOMAIN FieldKeys : f # g => FieldLines(f) \cap FieldLines(g) = {}
      BY FieldsApart
    <3>4. /\ FieldLines("summary") \cap FieldLines("skills") = {}
          /\ FieldLines("summary") \cap FieldLines("certifications") = {}
          /\ FieldLines("summary") \cap FieldLines("education") = {}
          /\ FieldLines("summary") \cap FieldLines("experience") = {}
          /\ FieldLines("skills") \cap FieldLines("certifications") = {}
          /\ FieldLines("skills") \cap FieldLines("education") = {}
          /\ FieldLines("skills") \cap FieldLines("experience") = {}
          /\ FieldLines("certifications") \cap FieldLines("education") = {}
          /\ FieldLines("certifications") \cap FieldLines("experience") = {}
          /\ FieldLines("education") \cap FieldLines("experience") = {}
      BY <2>1, <3>3
    <3> QED BY <2>1, <3>1, <3>2, <3>4
  <2> HIDE DEF TheName, Summary, Skills, Certificates, Degrees, Entries
  <2>11. Cardinality(All) = Cardinality(TheName) + Cardinality(Summary) + Cardinality(Skills)
                            + Cardinality(Certificates) + Cardinality(Degrees) + Cardinality(Entries)
    <3>1. /\ IsFiniteSet(TheName) /\ IsFiniteSet(Summary) /\ IsFiniteSet(Skills)
          /\ IsFiniteSet(Certificates) /\ IsFiniteSet(Degrees) /\ IsFiniteSet(Entries)
      BY <2>5, <2>6, <2>7, <2>8 DEF SameSize, SameSum
    <3> DEFINE A == TheName \cup Summary
               B == A \cup Skills
               C == B \cup Certificates
               D == C \cup Degrees
    <3>2. IsFiniteSet(A) /\ Cardinality(A) = Cardinality(TheName) + Cardinality(Summary)
      BY <2>10, <3>1, Together
    <3>3. IsFiniteSet(B) /\ Cardinality(B) = Cardinality(A) + Cardinality(Skills)
      BY <2>10, <3>1, <3>2, Together
    <3>4. IsFiniteSet(C) /\ Cardinality(C) = Cardinality(B) + Cardinality(Certificates)
      BY <2>10, <3>1, <3>3, Together
    <3>5. IsFiniteSet(D) /\ Cardinality(D) = Cardinality(C) + Cardinality(Degrees)
      BY <2>10, <3>1, <3>4, Together
    <3>6. Cardinality(D \cup Entries) = Cardinality(D) + Cardinality(Entries)
      BY <2>10, <3>1, <3>5, Together
    <3> QED BY <2>9, <3>2, <3>3, <3>4, <3>5, <3>6
  <2>12. /\ Cardinality(TheName) \in Nat /\ Cardinality(Summary) \in Nat /\ Cardinality(Skills) \in Nat
         /\ Cardinality(Certificates) \in Nat /\ Cardinality(Degrees) \in Nat /\ Cardinality(Entries) \in Nat
         /\ Cardinality(TitlePlaces(d.experience, l)) \in Nat /\ Cardinality(TextPlaces(d.experience, l)) \in Nat
    BY <2>5, <2>6, <2>7, <2>8, FS_CardinalityType DEF SameSize, SameSum
  <2>13. Occurrences(d, l) = Cardinality(TheName) + Cardinality(Summary) + Cardinality(Skills)
                             + Cardinality(Certificates) + Cardinality(Degrees) + Cardinality(Entries)
    <3>1. /\ Cardinality(Places(<<d.name>>, l)) = Cardinality(TheName)
          /\ Cardinality(Places(d.summary, l)) = Cardinality(Summary)
          /\ Cardinality(Places(d.skills, l)) = Cardinality(Skills)
          /\ Cardinality(Places(d.certifications, l)) = Cardinality(Certificates)
          /\ Cardinality(Places(d.education, l)) = Cardinality(Degrees)
          /\ Cardinality(TitlePlaces(d.experience, l)) + Cardinality(TextPlaces(d.experience, l))
                 = Cardinality(Entries)
      BY <2>5, <2>6, <2>7, <2>8 DEF SameSize, SameSum
    <3>2. \A a, b, c, e, g, h, k, o \in Nat :
              h + k = o => a + b + c + e + g + h + k = a + b + c + e + g + o
      OBVIOUS
    <3>3. Occurrences(d, l) = Cardinality(TheName) + Cardinality(Summary) + Cardinality(Skills)
                              + Cardinality(Certificates) + Cardinality(Degrees)
                              + Cardinality(TitlePlaces(d.experience, l))
                              + Cardinality(TextPlaces(d.experience, l))
      BY <3>1 DEF Occurrences
    <3> QED BY <2>12, <3>1, <3>2, <3>3
  <2> QED BY <2>11, <2>13 DEF d
<1> QED BY <1>1, TextIsStored, PTL

=============================================================================
