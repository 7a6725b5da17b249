----------------------- MODULE StreamingControlProofs -----------------------
(***************************************************************************)
(* Proofs about StreamingControl and ConfigFs, for every tree the program  *)
(* may find, anything the host may ask for and any number of slides.       *)
(***************************************************************************)
EXTENDS StreamingControl, FiniteSetTheorems, WellFoundedInduction, TLAPS

-----------------------------------------------------------------------------
(* What the program may find *)

IsSequence(s) == Len(s) \in Nat /\ s = [k \in 1 .. Len(s) |-> s[k]]

\* The names of a directory differ.
Listed(dirs) ==
  /\ IsSequence(dirs)
  /\ \A j \in 1 .. Len(dirs) : dirs[j].name \in Nat
  /\ \A j, k \in 1 .. Len(dirs) : dirs[j].name = dirs[k].name => j = k

\* The kernel keeps the intervals of a frame in order.
Ascending(ivals) ==
  /\ ivals \in Seq(Nat) /\ ivals # << >>
  /\ \A j, k \in 1 .. Len(ivals) : j <= k => ivals[j] <= ivals[k]

\* The formats a UVC function is made of.
Kept(formats) ==
  /\ Listed(formats)
  /\ \A f \in 1 .. Len(formats) :
       /\ Listed(formats[f].frames)
       /\ \A r \in 1 .. Len(formats[f].frames) : Ascending(formats[f].frames[r].intervals)

\* The gadgets; "any" is no controller, but stands for one in the argument.
Trees ==
  \A w \in Worlds :
    /\ IsSequence(w.gadgets) /\ IsSequence(w.videos)
    /\ \A g \in 1 .. Len(w.gadgets) :
         /\ w.gadgets[g].udc # "any"
         /\ IsSequence(w.gadgets[g].functions)
         /\ \A i \in 1 .. Len(w.gadgets[g].functions) :
              w.gadgets[g].functions[i].kind = "uvc" => Kept(w.gadgets[g].functions[i].formats)

\* Where a function is served that the argument does not name, the gadgets have
\* nodes of their first function only.
Named ==
  \A w \in Worlds : w.function.name = "any" /\ ParseUvcFunction(w).ret = "ok" =>
    \A g \in 1 .. Len(w.gadgets), v \in 1 .. Len(w.videos) :
      w.videos[v].udc = w.gadgets[g].udc => w.videos[v].function = w.gadgets[g].functions[1].name

\* Where no gadget has the function, the nodes are those of a g_webcam.
Alone ==
  \A w \in Worlds : FindFunction(w.gadgets, w.function) = <<0, 0>> =>
    \A v \in 1 .. Len(w.videos) : Behind(w, w.videos[v]) = {}

\* No interval of a table is longer than the n-th part of a second.
Rates(n) ==
  \A w \in Worlds : ParseUvcFunction(w).ret = "ok" =>
    \A f \in 1 .. Len(ParseUvcFunction(w).formats) :
      \A r \in 1 .. Len(ParseUvcFunction(w).formats[f].frames) :
        \A k \in 1 .. Len(ParseUvcFunction(w).formats[f].frames[r].intervals) :
          ParseUvcFunction(w).formats[f].frames[r].intervals[k] \in 1 .. Second \div n

-----------------------------------------------------------------------------
(* Sorting *)

\* Keys that differ, and the entries whose keys come before that of entry k.
Differ(key, n) == key \in [1 .. n -> Nat] /\ \A j, k \in 1 .. n : key[j] = key[k] => j = k
Earlier(key, n, k) == {j \in 1 .. n : key[j] < key[k]}


LEMMA IntervalFacts ==
  ASSUME NEW n \in Nat
  PROVE  IsFiniteSet(1 .. n) /\ Cardinality(1 .. n) = n
         /\ IsFiniteSet(0 .. n - 1) /\ Cardinality(0 .. n - 1) = n
<1>1. 0 \in Int /\ 1 \in Int /\ n \in Int /\ n - 1 \in Int
  OBVIOUS
<1>2. IsFiniteSet(1 .. n) /\ Cardinality(1 .. n) = IF 1 > n THEN 0 ELSE n - 1 + 1
  BY <1>1, FS_Interval
<1>3. IsFiniteSet(0 .. n - 1) /\ Cardinality(0 .. n - 1) = IF 0 > n - 1 THEN 0 ELSE (n - 1) - 0 + 1
  BY <1>1, FS_Interval
<1> QED  BY <1>2, <1>3

\* Every place is taken by exactly one entry.
LEMMA PlaceFacts ==
  ASSUME NEW n \in Nat, NEW key, Differ(key, n)
  PROVE  /\ \A k \in 1 .. n : Cardinality(Earlier(key, n, k)) \in 0 .. n - 1
         /\ \A j, k \in 1 .. n :
              Cardinality(Earlier(key, n, j)) = Cardinality(Earlier(key, n, k)) => j = k
         /\ \A m \in 1 .. n : \E k \in 1 .. n : Cardinality(Earlier(key, n, k)) = m - 1
<1> DEFINE place == [k \in 1 .. n |-> Cardinality(Earlier(key, n, k))]
<1>1. ASSUME NEW k \in 1 .. n
      PROVE  IsFiniteSet(Earlier(key, n, k)) /\ Cardinality(Earlier(key, n, k)) \in 0 .. n - 1
  <2>1. Earlier(key, n, k) \in SUBSET ((1 .. n) \ {k})
    BY DEF Earlier, Differ
  <2>2. IsFiniteSet((1 .. n) \ {k}) /\ Cardinality((1 .. n) \ {k}) = n - 1
    BY IntervalFacts, FS_RemoveElement
  <2>3. IsFiniteSet(Earlier(key, n, k)) /\ Cardinality(Earlier(key, n, k)) <= n - 1
    BY <2>1, <2>2, FS_Subset
  <2> QED  BY <2>3, FS_CardinalityType
<1>2. ASSUME NEW j \in 1 .. n, NEW k \in 1 .. n, key[j] < key[k]
      PROVE  Cardinality(Earlier(key, n, j)) < Cardinality(Earlier(key, n, k))
  <2>1. Earlier(key, n, j) \in SUBSET Earlier(key, n, k) /\ j \in Earlier(key, n, k) /\ j \notin Earlier(key, n, j)
    BY <1>2 DEF Earlier, Differ
  <2>2. /\ Cardinality(Earlier(key, n, j)) <= Cardinality(Earlier(key, n, k))
        /\ Cardinality(Earlier(key, n, j)) # Cardinality(Earlier(key, n, k))
    BY <1>1, <2>1, FS_Subset
  <2>3. Cardinality(Earlier(key, n, j)) \in Nat /\ Cardinality(Earlier(key, n, k)) \in Nat
    BY <1>1
  <2> QED  BY <2>2, <2>3
<1>3. ASSUME NEW j \in 1 .. n, NEW k \in 1 .. n,
             Cardinality(Earlier(key, n, j)) = Cardinality(Earlier(key, n, k))
      PROVE  j = k
  <2>1. Cardinality(Earlier(key, n, j)) \in Nat /\ key[j] \in Nat /\ key[k] \in Nat
    BY <1>1 DEF Differ
  <2>2. ~ (key[j] < key[k]) /\ ~ (key[k] < key[j])
    BY <1>2, <1>3, <2>1
  <2>3. key[j] = key[k]
    BY <2>1, <2>2
  <2> QED  BY <2>3 DEF Differ
<1>4. place \in Injection(1 .. n, 0 .. n - 1)
  BY <1>1, <1>3 DEF Injection, IsInjective
<1>5. place \in Surjection(1 .. n, 0 .. n - 1)
  BY <1>4, IntervalFacts, FS_Injection
<1>6. ASSUME NEW m \in 1 .. n PROVE \E k \in 1 .. n : Cardinality(Earlier(key, n, k)) = m - 1
  <2>1. m - 1 \in 0 .. n - 1
    OBVIOUS
  <2>2. \E k \in 1 .. n : place[k] = m - 1
    BY <1>5, <2>1 DEF Surjection
  <2> QED  BY <2>2
<1> QED  BY <1>1, <1>3, <1>6

\* A sequence holds the entries of a table, that with m - 1 before it in place m.
InPlaces(s, table, key, n) ==
  \E p \in [1 .. n -> 1 .. n] :
    /\ \A j, k \in 1 .. n : p[j] = p[k] => j = k
    /\ \A m \in 1 .. n : Cardinality(Earlier(key, n, p[m])) = m - 1
    /\ s = [m \in 1 .. n |-> table[p[m]]]

LEMMA SortedFacts ==
  ASSUME NEW n \in Nat, NEW table, DOMAIN table = 1 .. n, NEW key, Differ(key, n)
  PROVE  InPlaces(Sorted(table, key), table, key, n)
<1> DEFINE p == [m \in 1 .. n |-> CHOOSE k \in 1 .. n : Cardinality(Earlier(key, n, k)) = m - 1]
<1>1. ASSUME NEW m \in 1 .. n
      PROVE  p[m] \in 1 .. n /\ Cardinality(Earlier(key, n, p[m])) = m - 1
  BY PlaceFacts
<1>2. p \in [1 .. n -> 1 .. n]
  BY <1>1
<1>3. Sorted(table, key) = [m \in 1 .. n |-> table[p[m]]]
  BY DEF Sorted, Earlier
<1>4. ASSUME NEW j \in 1 .. n, NEW k \in 1 .. n, p[j] = p[k] PROVE j = k
  <2>1. j - 1 = k - 1
    BY <1>1, <1>4
  <2> QED  BY <2>1
<1> HIDE DEF p
<1> QED  BY <1>1, <1>2, <1>3, <1>4 DEF InPlaces

\* s has the entries of a table in the order of the indices p.
InIndexOrder(s, table, p, n) ==
  /\ DOMAIN s = 1 .. n
  /\ \A m \in 1 .. n : \E k \in 1 .. n : p[k] = m /\ s[m] = table[k]

\* What was rearranged is put back in order by its index.
LEMMA IndexFacts ==
  ASSUME NEW n \in Nat, NEW p \in [1 .. n -> 1 .. n], \A j, k \in 1 .. n : p[j] = p[k] => j = k,
         NEW table, DOMAIN table = 1 .. n, \A k \in 1 .. n : table[k].index = p[k]
  PROVE  InIndexOrder(ByIndex(table), table, p, n)
<1> DEFINE key == [k \in DOMAIN table |-> table[k].index]
<1>1. key = p /\ Differ(key, n)
  BY DEF Differ
<1>3. ByIndex(table) = Sorted(table, key)
  BY DEF ByIndex
<1> HIDE DEF key
<1>2. PICK q \in [1 .. n -> 1 .. n] :
        /\ \A j, k \in 1 .. n : q[j] = q[k] => j = k
        /\ \A m \in 1 .. n : Cardinality(Earlier(key, n, q[m])) = m - 1
        /\ Sorted(table, key) = [m \in 1 .. n |-> table[q[m]]]
  <2>1. Differ(key, n)
    BY <1>1
  <2>2. InPlaces(Sorted(table, key), table, key, n)
    BY <2>1, SortedFacts
  <2> QED  BY <2>2 DEF InPlaces
<1>4. p \in Surjection(1 .. n, 1 .. n)
  <2>1. p \in Injection(1 .. n, 1 .. n)
    BY DEF Injection, IsInjective
  <2> QED  BY <2>1, IntervalFacts, FS_Injection
<1>5. ASSUME NEW k \in 1 .. n PROVE Cardinality(Earlier(p, n, k)) = p[k] - 1
  <2> DEFINE S == Earlier(p, n, k)
             T == 1 .. p[k] - 1
             f == [j \in S |-> p[j]]
  <2>0. p[k] \in 1 .. n /\ p[k] - 1 \in Nat /\ S \subseteq 1 .. n
    BY DEF Earlier
  <2>1. IsFiniteSet(S)
    BY <2>0, IntervalFacts, FS_Subset
  <2>2. \A j \in S : p[j] \in T
    BY <2>0 DEF Earlier
  <2>3. \A t \in T : \E j \in S : p[j] = t
    <3>1. SUFFICES ASSUME NEW t \in T PROVE \E j \in S : p[j] = t
      OBVIOUS
    <3>2. t \in 1 .. n /\ t < p[k]
      BY <2>0
    <3>3. PICK j \in 1 .. n : p[j] = t
      BY <1>4, <3>2 DEF Surjection
    <3> QED  BY <3>2, <3>3 DEF Earlier
  <2>4. f \in Surjection(S, T) /\ f \in Injection(S, T)
    BY <2>0, <2>2, <2>3 DEF Surjection, Injection, IsInjective
  <2>5. Cardinality(T) = Cardinality(S)
    BY <2>1, <2>4, FS_Surjection
  <2>6. Cardinality(T) = p[k] - 1
    BY <2>0, IntervalFacts
  <2> QED  BY <2>5, <2>6
<1>6. ASSUME NEW m \in 1 .. n PROVE p[q[m]] = m
  <2>1. q[m] \in 1 .. n /\ Cardinality(Earlier(p, n, q[m])) = m - 1
    BY <1>1, <1>2
  <2>2. p[q[m]] - 1 = m - 1 /\ p[q[m]] \in 1 .. n
    BY <1>5, <2>1
  <2> QED  BY <2>2
<1>7. ASSUME NEW m \in 1 .. n PROVE \E k \in 1 .. n : p[k] = m /\ ByIndex(table)[m] = table[k]
  <2>1. q[m] \in 1 .. n /\ ByIndex(table)[m] = table[q[m]]
    BY <1>2, <1>3
  <2> QED  BY <1>6, <2>1
<1>8. DOMAIN ByIndex(table) = 1 .. n
  BY <1>2, <1>3
<1> QED  BY <1>7, <1>8 DEF InIndexOrder

LEMMA SequenceFacts ==
  ASSUME NEW n \in Nat, NEW s, s = [k \in 1 .. n |-> s[k]]
  PROVE  Len(s) = n /\ IsSequence(s)
<1>1. s \in Seq({s[k] : k \in 1 .. n})
  OBVIOUS
<1>2. Len(s) \in Nat /\ DOMAIN s = 1 .. Len(s)
  BY <1>1
<1>3. 1 .. Len(s) = 1 .. n
  BY <1>2
<1>4. Len(s) = n
  BY <1>2, <1>3
<1> QED  BY <1>4 DEF IsSequence

-----------------------------------------------------------------------------
(* The table *)

\* Every entry of a directory once, with its index.
Entries(s, dirs, n) ==
  \E p \in [1 .. n -> 1 .. n] :
    /\ \A j, k \in 1 .. n : p[j] = p[k] => j = k
    /\ s = [m \in 1 .. n |-> [index |-> p[m], dir |-> dirs[p[m]]]]

LEMMA ScanDirFacts ==
  ASSUME NEW dirs, Listed(dirs)
  PROVE  Entries(ScanDir(dirs), dirs, Len(dirs))
<1> DEFINE n == Len(dirs)
           entries == Numbered(dirs)
           key == [k \in DOMAIN dirs |-> dirs[k].name]
<1>1. n \in Nat /\ DOMAIN dirs = 1 .. n
  BY DEF Listed, IsSequence
<1>2. Differ(key, n)
  BY <1>1 DEF Listed, Differ
<1>3. DOMAIN entries = 1 .. n /\ \A k \in 1 .. n : entries[k] = [index |-> k, dir |-> dirs[k]]
  BY DEF Numbered
<1>4. ScanDir(dirs) = Sorted(entries, key)
  BY DEF ScanDir
<1> HIDE DEF n, entries, key
<1>5. PICK p \in [1 .. n -> 1 .. n] :
        /\ \A j, k \in 1 .. n : p[j] = p[k] => j = k
        /\ \A m \in 1 .. n : Cardinality(Earlier(key, n, p[m])) = m - 1
        /\ Sorted(entries, key) = [m \in 1 .. n |-> entries[p[m]]]
  <2>1. DOMAIN entries = 1 .. n
    BY <1>3
  <2>2. InPlaces(Sorted(entries, key), entries, key, n)
    BY <1>1, <1>2, <2>1, SortedFacts
  <2> QED  BY <2>2 DEF InPlaces
<1>6. [m \in 1 .. n |-> entries[p[m]]] = [m \in 1 .. n |-> [index |-> p[m], dir |-> dirs[p[m]]]]
  BY <1>3, <1>5
<1>7. Entries(ScanDir(dirs), dirs, n)
  <2>1. ScanDir(dirs) = [m \in 1 .. n |-> [index |-> p[m], dir |-> dirs[p[m]]]]
    BY <1>4, <1>5, <1>6
  <2> QED  BY <1>5, <2>1 DEF Entries
<1> QED  BY <1>7 DEF n

\* What is read from a directory, put in order by index, is what the directory
\* holds in the order in which the kernel numbered it.
LEMMA InOrder ==
  ASSUME NEW dirs, Listed(dirs), NEW table, DOMAIN table = 1 .. Len(dirs),
         \A k \in 1 .. Len(dirs) : table[k].index = ScanDir(dirs)[k].index
  PROVE  /\ ByIndex(table) = [m \in 1 .. Len(dirs) |-> ByIndex(table)[m]]
         /\ \A m \in 1 .. Len(dirs) :
              \E k \in 1 .. Len(dirs) :
                ScanDir(dirs)[k] = [index |-> m, dir |-> dirs[m]] /\ ByIndex(table)[m] = table[k]
<1>0. Len(dirs) \in Nat
  BY DEF Listed, IsSequence
<1>1. PICK p \in [1 .. Len(dirs) -> 1 .. Len(dirs)] :
           /\ \A j, k \in 1 .. Len(dirs) : p[j] = p[k] => j = k
           /\ ScanDir(dirs) = [m \in 1 .. Len(dirs) |-> [index |-> p[m], dir |-> dirs[p[m]]]]
  BY ScanDirFacts DEF Entries
<1>2. \A k \in 1 .. Len(dirs) : table[k].index = p[k]
  BY <1>1
<1>3. /\ DOMAIN ByIndex(table) = 1 .. Len(dirs)
      /\ \A m \in 1 .. Len(dirs) : \E k \in 1 .. Len(dirs) : p[k] = m /\ ByIndex(table)[m] = table[k]
  <2>1. InIndexOrder(ByIndex(table), table, p, Len(dirs))
    BY <1>0, <1>1, <1>2, IndexFacts
  <2> QED  BY <2>1 DEF InIndexOrder
<1>4. ByIndex(table) = [m \in 1 .. Len(dirs) |-> ByIndex(table)[m]]
  BY <1>3 DEF ByIndex, Sorted
<1>5. ASSUME NEW m \in 1 .. Len(dirs)
      PROVE  \E k \in 1 .. Len(dirs) :
               ScanDir(dirs)[k] = [index |-> m, dir |-> dirs[m]] /\ ByIndex(table)[m] = table[k]
  BY <1>1, <1>3
<1> QED  BY <1>4, <1>5

\* A table the program can negotiate with.
WellFormed(formats) ==
  /\ Len(formats) \in Nat \ {0}
  /\ \A f \in 1 .. Len(formats) :
       /\ Len(formats[f].frames) \in Nat \ {0}
       /\ \A r \in 1 .. Len(formats[f].frames) : Ascending(formats[f].frames[r].intervals)

\* The table says what the directories say, in the order of the directories.
SameFrames(frames, dirs) ==
  /\ Len(frames) = Len(dirs)
  /\ \A r \in 1 .. Len(dirs) : frames[r].intervals = dirs[r].intervals

Mirrors(table, formats) ==
  /\ Len(table) = Len(formats)
  /\ \A f \in 1 .. Len(formats) : SameFrames(table[f].frames, formats[f].frames)

LEMMA ScanDirLen ==
  ASSUME NEW dirs, Listed(dirs)
  PROVE  Len(dirs) \in Nat /\ Len(ScanDir(dirs)) = Len(dirs) /\ DOMAIN ScanDir(dirs) = 1 .. Len(dirs)
<1>1. Len(dirs) \in Nat
  BY DEF Listed, IsSequence
<1>2. ScanDir(dirs) = [m \in 1 .. Len(dirs) |-> ScanDir(dirs)[m]]
  BY ScanDirFacts DEF Entries
<1> QED  BY <1>1, <1>2, SequenceFacts

LEMMA ParseFormatFacts ==
  ASSUME NEW e, Listed(e.dir.frames)
  PROVE  ParseFormat(e).index = e.index /\ SameFrames(ParseFormat(e).frames, e.dir.frames)
<1> DEFINE dirs == e.dir.frames
           table == [k \in 1 .. Len(ScanDir(dirs)) |-> ParseFrame(ScanDir(dirs)[k])]
<1>1. ParseFormat(e).index = e.index /\ ParseFormat(e).frames = ByIndex(table)
  BY DEF ParseFormat
<1>2. /\ DOMAIN table = 1 .. Len(dirs) /\ Len(dirs) \in Nat
      /\ \A k \in 1 .. Len(dirs) : table[k] = ParseFrame(ScanDir(dirs)[k])
  BY ScanDirLen
<1>3. \A k \in 1 .. Len(dirs) : table[k].index = ScanDir(dirs)[k].index
                                /\ table[k].intervals = ScanDir(dirs)[k].dir.intervals
  BY <1>2 DEF ParseFrame
<1>4. Listed(dirs)
  OBVIOUS
<1> HIDE DEF table, dirs
<1>5. /\ ByIndex(table) = [m \in 1 .. Len(dirs) |-> ByIndex(table)[m]]
      /\ \A m \in 1 .. Len(dirs) :
           \E k \in 1 .. Len(dirs) :
             ScanDir(dirs)[k] = [index |-> m, dir |-> dirs[m]] /\ ByIndex(table)[m] = table[k]
  BY <1>2, <1>3, <1>4, InOrder
<1>6. Len(ByIndex(table)) = Len(dirs)
  BY <1>2, <1>5, SequenceFacts
<1>7. ASSUME NEW m \in 1 .. Len(dirs) PROVE ByIndex(table)[m].intervals = dirs[m].intervals
  <2>1. PICK k \in 1 .. Len(dirs) :
             ScanDir(dirs)[k] = [index |-> m, dir |-> dirs[m]] /\ ByIndex(table)[m] = table[k]
    BY <1>5
  <2>2. ScanDir(dirs)[k].dir.intervals = dirs[m].intervals
    BY <2>1
  <2> QED  BY <1>3, <2>1, <2>2
<1> QED  BY <1>1, <1>6, <1>7 DEF SameFrames, dirs

LEMMA HeaderFacts ==
  ASSUME NEW formats, Kept(formats), ParseHeader(formats).ret = "ok"
  PROVE  Mirrors(ParseHeader(formats).formats, formats) /\ WellFormed(ParseHeader(formats).formats)
<1> DEFINE table == [k \in 1 .. Len(ScanDir(formats)) |-> ParseFormat(ScanDir(formats)[k])]
           parsed == ByIndex(table)
<1>1. /\ ScanDir(formats) # << >>
      /\ \A k \in 1 .. Len(ScanDir(formats)) : ScanDir(formats)[k].dir.frames # << >>
      /\ ParseHeader(formats).formats = parsed
  BY DEF ParseHeader, Ok, Error
<1>2. Listed(formats) /\ Len(formats) \in Nat
  BY DEF Kept, Listed, IsSequence
<1>3. /\ DOMAIN table = 1 .. Len(formats)
      /\ \A k \in 1 .. Len(formats) : table[k] = ParseFormat(ScanDir(formats)[k])
      /\ Len(formats) # 0
  <2>1. DOMAIN ScanDir(formats) = 1 .. Len(formats) /\ Len(ScanDir(formats)) = Len(formats)
    BY <1>2, ScanDirLen
  <2>2. Len(formats) # 0
    BY <1>1, <1>2, <2>1
  <2> QED  BY <2>1, <2>2
<1> HIDE DEF table, parsed
<1>4. ASSUME NEW k \in 1 .. Len(formats)
      PROVE  /\ Listed(ScanDir(formats)[k].dir.frames)
             /\ table[k].index = ScanDir(formats)[k].index
             /\ SameFrames(table[k].frames, ScanDir(formats)[k].dir.frames)
  <2>1. PICK p \in [1 .. Len(formats) -> 1 .. Len(formats)] :
          ScanDir(formats) = [m \in 1 .. Len(formats) |-> [index |-> p[m], dir |-> formats[p[m]]]]
    BY <1>2, ScanDirFacts DEF Entries
  <2>2. Listed(ScanDir(formats)[k].dir.frames)
    BY <2>1 DEF Kept
  <2> QED  BY <1>3, <2>2, ParseFormatFacts
<1>5. /\ parsed = [m \in 1 .. Len(formats) |-> parsed[m]]
      /\ \A m \in 1 .. Len(formats) :
           \E k \in 1 .. Len(formats) :
             ScanDir(formats)[k] = [index |-> m, dir |-> formats[m]] /\ parsed[m] = table[k]
  BY <1>2, <1>3, <1>4, InOrder DEF parsed
<1>6. Len(parsed) = Len(formats)
  BY <1>2, <1>5, SequenceFacts
<1>7. ASSUME NEW f \in 1 .. Len(formats)
      PROVE  /\ SameFrames(parsed[f].frames, formats[f].frames)
             /\ formats[f].frames # << >>
  <2>1. PICK k \in 1 .. Len(formats) :
             ScanDir(formats)[k] = [index |-> f, dir |-> formats[f]] /\ parsed[f] = table[k]
    BY <1>5
  <2>2. ScanDir(formats)[k].dir.frames = formats[f].frames
    BY <2>1
  <2>3. k \in 1 .. Len(ScanDir(formats))
    BY <1>2, ScanDirLen
  <2> QED  BY <1>1, <1>4, <2>1, <2>2, <2>3
<1>8. Mirrors(parsed, formats)
  BY <1>6, <1>7 DEF Mirrors
<1>9. WellFormed(parsed)
  <2>1. ASSUME NEW f \in 1 .. Len(parsed)
        PROVE  /\ Len(parsed[f].frames) \in Nat \ {0}
               /\ \A r \in 1 .. Len(parsed[f].frames) : Ascending(parsed[f].frames[r].intervals)
    <3>1. f \in 1 .. Len(formats) /\ Listed(formats[f].frames)
      BY <1>6, <2>1 DEF Kept
    <3>2. IsSequence(formats[f].frames) /\ formats[f].frames # << >>
      BY <1>7, <3>1 DEF Listed
    <3>3. Len(formats[f].frames) \in Nat \ {0}
      BY <3>2 DEF IsSequence
    <3> QED  BY <1>7, <3>1, <3>3 DEF Kept, SameFrames
  <2> QED  BY <1>2, <1>3, <1>6, <2>1 DEF WellFormed
<1> QED  BY <1>1, <1>8, <1>9

LEMMA LowestIsLeast ==
  ASSUME NEW S \in SUBSET Nat, S # {}
  PROVE  Lowest(S) \in S /\ \A j \in S : Lowest(S) <= j
<1> DEFINE R == OpToRel(<, Nat)
<1>1. IsWellFoundedOn(R, Nat)
  BY NatLessThanWellFounded
<1>2. \A i, j \in Nat : i < j => <<i, j>> \in R
  BY DEF OpToRel
<1> HIDE DEF R
<1>3. PICK k \in S : \A j \in S : ~ (<<j, k>> \in R)
  BY <1>1, WFMin
<1>4. ASSUME NEW j \in S PROVE k <= j
  <2>1. j \in Nat /\ k \in Nat /\ ~ (j < k)
    BY <1>2, <1>3
  <2> QED  BY <2>1
<1> QED  BY <1>4 DEF Lowest

LEMMA MinFacts ==
  ASSUME NEW S \in SUBSET Nat, S # {}
  PROVE  Min(S) \in S /\ \A j \in S : Min(S) <= j
BY LowestIsLeast DEF Lowest, Min

\* The node that is found belongs to the controller and to the function.
LEMMA VideoFacts ==
  ASSUME NEW videos, IsSequence(videos), NEW udc, NEW name, FindVideoDevice(videos, udc, name) # 0
  PROVE  /\ FindVideoDevice(videos, udc, name) \in 1 .. Len(videos)
         /\ udc \in {videos[FindVideoDevice(videos, udc, name)].udc, "any"}
         /\ name \in {videos[FindVideoDevice(videos, udc, name)].function, "any"}
<1> DEFINE S == {i \in 1 .. Len(videos) : udc \in {videos[i].udc, "any"} /\ name \in {videos[i].function, "any"}}
<1>1. FindVideoDevice(videos, udc, name) = IF S # {} THEN Min(S) ELSE 0
  BY DEF FindVideoDevice, SelectInSeq
<1>2. S \in SUBSET Nat /\ S # {}
  BY <1>1 DEF IsSequence
<1>3. Min(S) \in S
  BY <1>2, MinFacts
<1> QED  BY <1>1, <1>2, <1>3

\* The functions of that name; the first of a sequence bears every name.
Matching(functions, name) == {i \in 1 .. Len(functions) : name \in {functions[i].name, "any"}}

\* The first function of that name, or 0.
FirstMatching(functions, name) ==
  IF Matching(functions, name) # {} THEN Min(Matching(functions, name)) ELSE 0

LEMMA FirstMatchingFacts ==
  ASSUME NEW functions, IsSequence(functions), NEW name, FirstMatching(functions, name) # 0
  PROVE  /\ FirstMatching(functions, name) \in 1 .. Len(functions)
         /\ name \in {functions[FirstMatching(functions, name)].name, "any"}
         /\ name = "any" => FirstMatching(functions, name) = 1
<1> DEFINE i == FirstMatching(functions, name)
           S == Matching(functions, name)
<1>1. S \in SUBSET Nat /\ S # {} /\ i = Min(S)
  BY DEF FirstMatching, Matching, IsSequence
<1>2. i \in S /\ \A j \in S : i <= j
  BY <1>1, MinFacts
<1>3. i \in 1 .. Len(functions) /\ name \in {functions[i].name, "any"}
  BY <1>2 DEF Matching
<1>4. ASSUME name = "any" PROVE i = 1
  <2>1. Len(functions) \in Nat
    BY DEF IsSequence
  <2>2. 1 \in 1 .. Len(functions)
    BY <1>3, <2>1
  <2>3. 1 \in S
    BY <1>4, <2>2 DEF Matching
  <2>4. i <= 1 /\ i \in 1 .. Len(functions)
    BY <1>2, <1>3, <2>3
  <2> QED  BY <2>1, <2>4
<1> QED  BY <1>3, <1>4

\* The gadgets that have the argument's name and a function of its name.
Serving(gadgets, arg) ==
  {k \in 1 .. Len(gadgets) :
     arg.gadget \in {gadgets[k].name, "any"} /\ FirstMatching(gadgets[k].functions, arg.name) # 0}

\* The function that is found has the name, and is its gadget's first without one.
FoundAt(gadgets, arg, g, i) ==
  /\ g \in 1 .. Len(gadgets) /\ i \in 1 .. Len(gadgets[g].functions)
  /\ FindFunction(gadgets, arg) = <<g, i>>
  /\ arg.name \in {gadgets[g].functions[i].name, "any"}
  /\ arg.name = "any" => i = 1

LEMMA FindFunctionFacts ==
  ASSUME NEW gadgets, IsSequence(gadgets), \A g \in 1 .. Len(gadgets) : IsSequence(gadgets[g].functions),
         NEW arg, FindFunction(gadgets, arg) # <<0, 0>>
  PROVE  \E g, i \in Nat : FoundAt(gadgets, arg, g, i)
<1> DEFINE G == Serving(gadgets, arg)
           g == IF G # {} THEN Min(G) ELSE 0
<1>1. FindFunction(gadgets, arg) = IF g = 0 THEN <<0, 0>> ELSE <<g, FirstMatching(gadgets[g].functions, arg.name)>>
  BY DEF FindFunction, SelectInSeq, FirstMatching, Matching, Serving
<1>2. G \in SUBSET Nat
  BY DEF IsSequence, Serving
<1>3. g # 0
  BY <1>1
<1>4. G # {} /\ g = Min(G)
  BY <1>3
<1>5. g \in G
  BY <1>2, <1>4, MinFacts
<1>6. g \in 1 .. Len(gadgets) /\ FirstMatching(gadgets[g].functions, arg.name) # 0
  BY <1>5 DEF Serving
<1> DEFINE i == FirstMatching(gadgets[g].functions, arg.name)
<1>7. /\ i \in 1 .. Len(gadgets[g].functions)
      /\ arg.name \in {gadgets[g].functions[i].name, "any"}
      /\ arg.name = "any" => i = 1
  BY <1>6, FirstMatchingFacts
<1>8. FindFunction(gadgets, arg) = <<g, i>>
  BY <1>1, <1>3
<1>9. g \in Nat /\ i \in Nat
  <2>1. Len(gadgets) \in Nat /\ Len(gadgets[g].functions) \in Nat
    BY <1>6 DEF IsSequence
  <2> HIDE DEF g, i
  <2> QED  BY <1>6, <1>7, <2>1
<1> HIDE DEF g, i
<1>10. FoundAt(gadgets, arg, g, i)
  BY <1>6, <1>7, <1>8 DEF FoundAt
<1> QED  BY <1>9, <1>10

-----------------------------------------------------------------------------
(* The invariant *)

\* The control is an entry of the table.
Entry(ctrl) ==
  /\ ctrl.format \in 1 .. Len(Formats)
  /\ ctrl.frame \in 1 .. Len(Formats[ctrl.format].frames)
  /\ \E k \in 1 .. Len(Intervals(ctrl.format, ctrl.frame)) :
       ctrl.interval = Intervals(ctrl.format, ctrl.frame)[k]

Setup ==
  /\ world \in Worlds
  /\ fc = ParseUvcFunction(world)
  /\ kind \in {"slideshow", "camera"}
  /\ loop # "exited" => fc.ret = "ok"

Controls ==
  /\ loop # "exited" => Entry(probe) /\ Entry(commit)
  /\ resp # NoResponse => loop # "exited" /\ Entry(resp)

Answers == {probe, commit, resp} \subseteq [format : Nat, frame : Nat, interval : Nat]

\* The slides.
Slides ==
  /\ slides \in Nat /\ cur \in Nat
  /\ EndsAgree
  /\ SlideToShow

\* The timer has a period once the rate was set, and runs while the source streams.
Timer ==
  /\ period \in Nat /\ armed \in Nat
  /\ kind = "slideshow" /\ rate # 0 => period # 0
  /\ kind = "slideshow" /\ streaming => armed # 0

FastTimer == period < 1000000000

-----------------------------------------------------------------------------
(* The slides: both ends have one format, and there is a slide to show *)

\* The slide after the next k ones is one of the list, if the last one was.
LEMMA SlideAfterFacts ==
  ASSUME Slides, NEW k \in Nat \ {0}
  PROVE  SlideAfter(k) \in Nat /\ (cur \in 1 .. slides => SlideAfter(k) \in 1 .. slides)
<1>1. CASE slides = 0
  BY <1>1 DEF Slides, SlideAfter
<1>2. CASE slides # 0
  <2>1. slides \in Nat \ {0} /\ cur - 1 + k \in Nat
    BY <1>2 DEF Slides
  <2>2. (cur - 1 + k) % slides \in 0 .. slides - 1
    BY <2>1
  <2> QED  BY <1>2, <2>1, <2>2 DEF SlideAfter
<1> QED  BY <1>1, <1>2

LEMMA SetFormatSlides ==
  ASSUME Slides, NEW fmt, SetFormat(fmt), kind' = kind
  PROVE  Slides'
<1>1. CASE UNCHANGED <<sinkFormat, srcFormat, slides, cur>>
  BY <1>1 DEF Slides, EndsAgree, SlideToShow
<1>2. CASE sinkFormat' = fmt /\ SourceSetFormat(fmt)
  <2>1. CASE kind = "camera"
    BY <1>2, <2>1 DEF SourceSetFormat, CameraSetFormat, Slides, EndsAgree, SlideToShow
  <2>2. CASE kind # "camera"
    <3>1. /\ srcFormat' = fmt /\ slides' \in {DummySlide} \cup 1 .. MaxSlides
          /\ cur' = IF slides' = 0 THEN 0 ELSE 1
      BY <1>2, <2>2 DEF SourceSetFormat, SlideshowSetFormat
    <3>2. slides' \in Nat /\ 1 <= slides' /\ cur' = 1
      BY <3>1, MaxSlidesAssumption DEF DummySlide
    <3> QED  BY <1>2, <3>1, <3>2 DEF Slides, EndsAgree, SlideToShow
  <2> QED  BY <2>1, <2>2
<1> QED  BY <1>1, <1>2 DEF SetFormat

LEMMA SlidesStep == Slides /\ [Next]_vars => Slides'
<1> SUFFICES ASSUME Slides, [Next]_vars PROVE Slides'  OBVIOUS
<1>1. CASE UNCHANGED <<kind, sinkFormat, srcFormat, slides, cur>>
  BY <1>1 DEF Slides, EndsAgree, SlideToShow
<1>2. CASE ~ UNCHANGED <<kind, sinkFormat, srcFormat, slides, cur>>
  <2>0. kind' = kind
    BY DEF Next, vars, setup
  <2>1. CASE ProcessSetup
    BY <1>2, <2>0, <2>1 DEF ProcessSetup, source
  <2>2. CASE ProcessData
    <3>1. PICK ctrl : \/ UNCHANGED source
                      \/ Commit(ctrl)
      BY <2>2 DEF ProcessData
    <3>2. Commit(ctrl)
      BY <1>2, <2>0, <3>1 DEF source
    <3> QED  BY <2>0, <3>2, SetFormatSlides DEF Commit
  <2>3. CASE StreamOn \/ FillFrame
    <3>1. UNCHANGED <<kind, sinkFormat, srcFormat, slides>> /\ cur' \in {cur, SlideAfter(Prefill), SlideAfter(1)}
      BY <2>0, <2>3 DEF StreamOn, FillFrame
    <3>2. cur' \in Nat /\ (cur \in 1 .. slides => cur' \in 1 .. slides)
      BY <3>1, SlideAfterFacts DEF Slides, Prefill
    <3> QED  BY <3>1, <3>2 DEF Slides, EndsAgree, SlideToShow
  <2>4. CASE StreamOff
    BY <1>2, <2>0, <2>4 DEF StreamOff
  <2>5. CASE UNCHANGED vars
    BY <1>2, <2>5 DEF vars, setup, source
  <2> QED  BY <2>1, <2>2, <2>3, <2>4, <2>5 DEF Next
<1> QED  BY <1>1, <1>2

LEMMA SlidesInductive == Spec => []Slides
<1>1. Init => Slides
  BY DEF Init, Slides, EndsAgree, SlideToShow
<1> QED  BY <1>1, SlidesStep, PTL DEF Spec

\* Whatever the host commits and the UVC device refuses, the slideshow plays the
\* format that the UVC device announces.
THEOREM EndsAgreeHolds == Spec => []EndsAgree
BY SlidesInductive, PTL DEF Slides

\* Whatever the directories hold and however often the format changes, there is
\* a slide to show once a format is set.
THEOREM SlideToShowHolds == Spec => []SlideToShow
BY SlidesInductive, PTL DEF Slides


\* The interval found is one of the frame's, and an interval of the frame is
\* found when it is asked for: this is where they have to be in order.
LEMMA FirstNotBelowFacts ==
  ASSUME NEW ivals, Ascending(ivals), NEW v \in Nat
  PROVE  /\ \E k \in 1 .. Len(ivals) : FirstNotBelow(ivals, v) = ivals[k]
         /\ (\E k \in 1 .. Len(ivals) : v = ivals[k]) => FirstNotBelow(ivals, v) = v
<1> DEFINE S == {k \in 1 .. Len(ivals) : v <= ivals[k]}
<1>0. Len(ivals) \in Nat /\ Len(ivals) \in 1 .. Len(ivals) /\ S \in SUBSET Nat
  BY DEF Ascending
<1>1. FirstNotBelow(ivals, v) = ivals[IF S = {} THEN Len(ivals) ELSE Lowest(S)]
  BY DEF FirstNotBelow
<1>2. S # {} => Lowest(S) \in S /\ \A j \in S : Lowest(S) <= j
  BY <1>0, LowestIsLeast
<1>3. ASSUME NEW k \in 1 .. Len(ivals), v = ivals[k] PROVE FirstNotBelow(ivals, v) = v
  <2>1. k \in S
    BY <1>3, <1>0
  <2>2. Lowest(S) \in 1 .. Len(ivals) /\ v <= ivals[Lowest(S)] /\ Lowest(S) <= k
    BY <1>2, <2>1
  <2>3. ivals[Lowest(S)] <= ivals[k]
    BY <2>2 DEF Ascending
  <2>4. ivals[Lowest(S)] \in Nat
    BY <2>2 DEF Ascending
  <2>5. ivals[Lowest(S)] = v
    BY <1>3, <2>2, <2>3, <2>4
  <2> QED  BY <1>1, <2>1, <2>5
<1> QED  BY <1>0, <1>1, <1>2, <1>3

LEMMA ClampFacts ==
  ASSUME NEW v \in Nat, NEW n \in Nat \ {0}
  PROVE  Clamp(v, 1, n) \in 1 .. n /\ (v \in 1 .. n => Clamp(v, 1, n) = v)
BY DEF Clamp

\* Whatever is asked for, an entry is chosen; an entry that is asked for is kept.
LEMMA FillFacts ==
  ASSUME WellFormed(Formats), NEW iformat \in Nat, NEW iframe \in Nat, NEW ival \in Nat
  PROVE  /\ Entry(Fill(iformat, iframe, ival))
         /\ Fill(iformat, iframe, ival) \in [format : Nat, frame : Nat, interval : Nat]
         /\ Entry([format |-> iformat, frame |-> iframe, interval |-> ival]) =>
              Fill(iformat, iframe, ival) = [format |-> iformat, frame |-> iframe, interval |-> ival]
<1> DEFINE f == Clamp(iformat, 1, Len(Formats))
           r == Clamp(iframe, 1, Len(Formats[f].frames))
           ivals == Intervals(f, r)
<1>1. f \in 1 .. Len(Formats) /\ (iformat \in 1 .. Len(Formats) => f = iformat)
  BY ClampFacts DEF WellFormed
<1> HIDE DEF f
<1>2. Len(Formats[f].frames) \in Nat \ {0}
  BY <1>1 DEF WellFormed
<1>3. r \in 1 .. Len(Formats[f].frames) /\ (iframe \in 1 .. Len(Formats[f].frames) => r = iframe)
  BY <1>2, ClampFacts
<1> HIDE DEF r
<1>4. Ascending(ivals)
  BY <1>1, <1>3 DEF WellFormed, Intervals
<1>5. PICK k \in 1 .. Len(ivals) : FirstNotBelow(ivals, ival) = ivals[k]
  BY <1>4, FirstNotBelowFacts
<1>6. (\E j \in 1 .. Len(ivals) : ival = ivals[j]) => FirstNotBelow(ivals, ival) = ival
  BY <1>4, FirstNotBelowFacts
<1>7. Fill(iformat, iframe, ival) = [format |-> f, frame |-> r, interval |-> FirstNotBelow(ivals, ival)]
  BY DEF Fill, f, r
<1>8. f \in Nat /\ r \in Nat /\ ivals[k] \in Nat
  BY <1>1, <1>2, <1>3, <1>4 DEF WellFormed, Ascending
<1> QED  BY <1>1, <1>3, <1>5, <1>6, <1>7, <1>8 DEF Entry

-----------------------------------------------------------------------------
(* What is negotiated is an entry of the table *)

\* The table of every world in which the program runs.
Tables == \A w \in Worlds : ParseUvcFunction(w).ret = "ok" => WellFormed(ParseUvcFunction(w).formats)

StreamingControls == [format : Nat, frame : Nat, interval : Nat]
Negotiated == Setup /\ Controls /\ Answers

LEMMA TableInUse ==
  ASSUME Tables, Setup, loop # "exited"
  PROVE  WellFormed(Formats) /\ Len(Formats) \in Nat
BY DEF Tables, Setup, Formats, WellFormed

LEMMA RefillFacts ==
  ASSUME WellFormed(Formats), NEW ctrl \in StreamingControls
  PROVE  /\ Entry(Refill(ctrl)) /\ Refill(ctrl) \in StreamingControls
         /\ Entry(ctrl) => Refill(ctrl) = ctrl
<1>1. /\ ctrl.format \in Nat /\ ctrl.frame \in Nat /\ ctrl.interval \in Nat
      /\ ctrl = [format |-> ctrl.format, frame |-> ctrl.frame, interval |-> ctrl.interval]
  BY DEF StreamingControls
<1> QED  BY <1>1, FillFacts DEF Refill, StreamingControls

LEMMA AnswerFacts ==
  ASSUME WellFormed(Formats), Controls, Answers, loop # "exited",
         NEW cs \in {"PROBE", "COMMIT"}, NEW req \in {"GET_CUR", "GET_MAX", "GET_MIN", "GET_DEF", "GET_RES"}
  PROVE  /\ Answer(req, cs) \in StreamingControls
         /\ Answer(req, cs) # NoResponse => Entry(Answer(req, cs))
<1>1. Answer(req, cs) \in {probe, commit, Fill(UIntMax, UIntMax, UIntMax), Fill(1, 1, 0), NoResponse}
  BY DEF Answer
<1>2. ASSUME NEW c \in {Fill(UIntMax, UIntMax, UIntMax), Fill(1, 1, 0)}
      PROVE  c \in StreamingControls /\ Entry(c)
  <2>1. UIntMax \in Nat
    BY SMT DEF UIntMax
  <2>2. /\ Fill(UIntMax, UIntMax, UIntMax) \in StreamingControls
        /\ Entry(Fill(UIntMax, UIntMax, UIntMax))
    BY <2>1, FillFacts DEF StreamingControls
  <2>3. Fill(1, 1, 0) \in StreamingControls /\ Entry(Fill(1, 1, 0))
    BY FillFacts DEF StreamingControls
  <2> QED  BY <2>2, <2>3
<1>3. {probe, commit, NoResponse} \subseteq StreamingControls /\ Entry(probe) /\ Entry(commit)
  BY DEF Controls, Answers, NoResponse, StreamingControls
<1> QED  BY <1>1, <1>2, <1>3

\* A step that keeps the table keeps its entries.
LEMMA EntryKept ==
  ASSUME fc' = fc, NEW c, Entry(c)
  PROVE  Entry(c)'
BY DEF Entry, Formats, Intervals

LEMMA NegotiatedSetup ==
  ASSUME Negotiated, Tables, ProcessSetup, UNCHANGED setup
  PROVE  Negotiated'
<1>0. loop = "runs" /\ UNCHANGED <<world, fc, kind, loop, probe, commit>>
  BY DEF ProcessSetup, SetCur, Get, OtherRequest, setup, source
<1>1. WellFormed(Formats) /\ Controls /\ Answers /\ loop # "exited"
  BY <1>0, TableInUse DEF Negotiated
<1>2. resp \in StreamingControls /\ (resp # NoResponse => Entry(resp))
  BY <1>1 DEF Controls, Answers, StreamingControls
<1>3. resp' \in StreamingControls /\ (resp' # NoResponse => Entry(resp'))
  <2>1. ASSUME NEW cs \in {"PROBE", "COMMIT"},
               NEW req \in {"GET_CUR", "GET_MAX", "GET_MIN", "GET_DEF", "GET_RES"}, Get(req, cs)
        PROVE  <1>3!:
    BY <2>1, <1>1, AnswerFacts DEF Get
  <2>2. CASE resp' = resp
    BY <2>2, <1>2
  <2> QED  BY <2>1, <2>2 DEF ProcessSetup, SetCur, OtherRequest
<1>4. Entry(probe) /\ Entry(commit)
  BY <1>1 DEF Controls
<1>5. Setup'
  BY <1>0 DEF Negotiated, Setup
<1>6. Answers'
  BY <1>0, <1>1, <1>3 DEF Answers, StreamingControls
<1>7. Controls'
  <2>1. Entry(probe)' /\ Entry(commit)'
    BY <1>0, <1>4 DEF Entry, Formats, Intervals
  <2>2. resp' # NoResponse => Entry(resp)'
    BY <1>0, <1>3 DEF Entry, Formats, Intervals
  <2> QED  BY <1>0, <2>1, <2>2 DEF Controls, NoResponse
<1> QED  BY <1>5, <1>6, <1>7 DEF Negotiated

LEMMA NegotiatedData ==
  ASSUME Negotiated, Tables, ProcessData, UNCHANGED setup
  PROVE  Negotiated'
<1>0. loop = "runs" /\ UNCHANGED <<world, fc, kind, resp>>
  BY DEF ProcessData, setup
<1>1. WellFormed(Formats) /\ Controls /\ Answers /\ loop # "exited" /\ Len(Formats) \in Nat
  BY <1>0, TableInUse DEF Negotiated
<1>2. /\ {probe, commit, resp} \subseteq StreamingControls
      /\ Entry(probe) /\ Entry(commit) /\ (resp # NoResponse => Entry(resp))
  BY <1>1 DEF Controls, Answers, StreamingControls
<1>3. PICK ctrl \in {resp} \cup [format : AnyIndex, frame : AnyIndex, interval : HostIntervals] :
        /\ probe' \in {probe, Refill(ctrl)}
        /\ commit' \in {commit, Refill(ctrl)}
  BY DEF ProcessData, Commit
<1>4. ctrl \in StreamingControls
  <2>1. AnyIndex \subseteq Nat
    BY <1>1 DEF AnyIndex
  <2>2. ASSUME NEW c \in [format : AnyIndex, frame : AnyIndex, interval : HostIntervals]
        PROVE  c \in StreamingControls
    BY <2>1, HostIntervalsAssumption DEF StreamingControls
  <2> QED  BY <1>2, <1>3, <2>2
<1>5. /\ {probe', commit'} \subseteq StreamingControls
      /\ Entry(probe') /\ Entry(commit')
  BY <1>1, <1>2, <1>3, <1>4, RefillFacts
<1>6. Setup'
  BY <1>0, <1>1 DEF Negotiated, Setup
<1>7. Answers'
  BY <1>0, <1>2, <1>5 DEF Answers, StreamingControls
<1>8. Controls'
  <2>1. Entry(probe)' /\ Entry(commit)'
    BY <1>0, <1>5 DEF Entry, Formats, Intervals
  <2>2. resp' # NoResponse => Entry(resp)'
    BY <1>0, <1>2 DEF Entry, Formats, Intervals
  <2>3. loop' # "exited"
    BY <1>0 DEF ProcessData, Commit, SetFrameRate, source
  <2> QED  BY <2>1, <2>2, <2>3 DEF Controls, NoResponse
<1> QED  BY <1>6, <1>7, <1>8 DEF Negotiated

LEMMA NegotiatedStep == Tables /\ Negotiated /\ [Next]_vars => Negotiated'
<1> SUFFICES ASSUME Tables, Negotiated, [Next]_vars PROVE Negotiated'  OBVIOUS
<1>1. ASSUME StreamOn \/ FillFrame \/ StreamOff \/ UNCHANGED vars PROVE Negotiated'
  <2>1. /\ UNCHANGED <<world, fc, kind, probe, commit, resp>>
        /\ loop' # "exited" <=> loop # "exited"
    <3>1. CASE UNCHANGED vars
      BY <3>1 DEF vars, setup, negotiation, source
    <3>2. CASE ~ UNCHANGED vars
      <4>1. UNCHANGED setup /\ loop = "runs" /\ loop' \in {loop, AfterFill} /\ UNCHANGED negotiation
        BY <1>1, <3>2, SMT DEF StreamOn, FillFrame, StreamOff, Next, vars
      <4> QED  BY <4>1, SMT DEF AfterFill, setup, negotiation
    <3> QED  BY <3>1, <3>2
  <2>2. Setup' /\ Answers'
    BY <2>1 DEF Negotiated, Setup, Answers
  <2>3. Controls'
    BY <2>1 DEF Negotiated, Controls, Entry, Formats, Intervals, NoResponse
  <2> QED  BY <2>2, <2>3 DEF Negotiated
<1> QED  BY <1>1, NegotiatedSetup, NegotiatedData DEF Next, vars

LEMMA NegotiatedInit == Tables /\ Init => Negotiated
<1> SUFFICES ASSUME Tables, Init PROVE Negotiated  OBVIOUS
<1>1. Setup /\ resp = NoResponse /\ commit = probe /\ resp \in StreamingControls
  BY SourcesAssumption DEF Init, Setup, NoResponse, StreamingControls
<1>2. CASE loop # "exited"
  <2>1. loop = "runs" /\ probe = Fill(1, 1, 0)
    BY <1>2 DEF Init
  <2>2. Entry(probe) /\ probe \in StreamingControls
    BY <1>1, <2>1, TableInUse, FillFacts DEF StreamingControls
  <2> QED  BY <1>1, <2>2 DEF Negotiated, Controls, Answers, StreamingControls
<1>3. CASE loop = "exited"
  <2>1. probe = NoResponse
    BY <1>3 DEF Init
  <2> QED  BY <1>1, <1>3, <2>1 DEF Negotiated, Controls, Answers, StreamingControls
<1> QED  BY <1>2, <1>3

LEMMA NegotiatedInductive == Tables => (Spec => []Negotiated)
<1>1. Tables /\ Init => Negotiated
  BY NegotiatedInit
<1>2. Tables /\ Negotiated /\ [Next]_vars => Negotiated'
  BY NegotiatedStep
<1> SUFFICES ASSUME Tables PROVE Spec => []Negotiated
  OBVIOUS
<1>3. Init => Negotiated
  BY <1>1
<1>4. Negotiated /\ [Next]_vars => Negotiated'
  BY <1>2
<1> QED  BY <1>3, <1>4, PTL DEF Spec

-----------------------------------------------------------------------------
(* The timer *)

LEMMA DivFacts ==
  ASSUME NEW a \in Nat, NEW b \in Nat \ {0}
  PROVE  /\ a \div b \in Nat /\ a \div b <= a
         /\ \A m \in Nat : m * b <= a => m <= a \div b
<1>1. a \div b \in Nat /\ a = b * (a \div b) + (a % b) /\ a % b \in 0 .. b - 1
  OBVIOUS
<1> QED  BY <1>1

\* At intervals of at most the n-th part of a second there are n frames at least.
LEMMA RateFacts ==
  ASSUME NEW n \in {1, 2}, Rates(n), Setup, loop # "exited", NEW ctrl, Entry(ctrl)
  PROVE  /\ FramesPerSecond(ctrl.interval) \in Nat
         /\ n <= FramesPerSecond(ctrl.interval) /\ FramesPerSecond(ctrl.interval) <= Second
<1>1. ctrl.interval \in 1 .. Second \div n
  BY DEF Rates, Setup, Entry, Formats, Intervals
<1>2. Second \in Nat
  BY SMT DEF Second
<1>3. /\ Second \div n \in Nat /\ ctrl.interval \in Nat \ {0}
      /\ ctrl.interval <= Second \div n
  BY <1>1, <1>2, DivFacts
<1>4. n * ctrl.interval <= Second
  BY <1>3, SMT DEF Second
<1> QED  BY <1>2, <1>3, <1>4, DivFacts DEF FramesPerSecond

\* The period of a rate that is a number of frames, and of one of two at least.
LEMMA PeriodFacts ==
  ASSUME NEW fps \in Nat, 1 <= fps, fps <= Second
  PROVE  /\ 1000000000 \div fps \in Nat /\ 1000000000 \div fps # 0
         /\ 2 <= fps => 1000000000 \div fps < 1000000000
<1>1. fps <= 1000000000
  BY SMT DEF Second
<1>2. 1000000000 \div fps \in Nat /\ 1 <= 1000000000 \div fps
  BY <1>1, DivFacts, SMT
<1>3. ASSUME 2 <= fps PROVE 1000000000 \div fps < 1000000000
  <2>1. 1000000000 = fps * (1000000000 \div fps) + (1000000000 % fps) /\ 1000000000 % fps \in 0 .. fps - 1
    BY SMT
  <2> QED  BY <1>2, <1>3, <2>1, SMT
<1> QED  BY <1>2, <1>3, SMT

\* What a commit does to the timer, if the interval is one the program can pace.
LEMMA SetFrameRateFacts ==
  ASSUME NEW fps \in Nat, 1 <= fps, fps <= Second, period \in Nat, SetFrameRate(fps)
  PROVE  /\ rate' = fps /\ loop' = loop /\ period' \in Nat
         /\ kind = "slideshow" => period' # 0
         /\ kind # "camera" /\ 2 <= fps => period' < 1000000000
         /\ kind = "camera" => period' = period
<1>1. CASE kind = "camera"
  BY <1>1, SMT DEF SetFrameRate
<1>2. CASE kind # "camera"
  <2>1. rate' = fps /\ loop' = loop /\ period' = 1000000000 \div fps
    BY <1>2, SMT DEF SetFrameRate
  <2> QED  BY <1>2, <2>1, PeriodFacts, SMT
<1> QED  BY <1>1, <1>2, SMT

\* While there is a slide and a running timer, filling a buffer does not end it.
LEMMA AfterFillFacts ==
  ASSUME Slides, Timer, kind = "slideshow", sinkFormat # NoFormat
  PROVE  AfterFill = "runs"
BY DEF Slides, SlideToShow, Timer, AfterFill

Running == Timer /\ LoopRuns

\* What a commit sets, whatever the host sent with it.
LEMMA CommitFacts ==
  ASSUME NEW n \in {1, 2}, Rates(n), Negotiated, Negotiated', Timer, NEW ctrl, Commit(ctrl),
         loop = "runs", UNCHANGED setup
  PROVE  /\ loop' = "runs" /\ period' \in Nat /\ UNCHANGED <<kind, armed, streaming, sinkOn>>
         /\ kind = "slideshow" => period' # 0
         /\ kind = "slideshow" /\ n = 2 => period' < 1000000000
         /\ kind = "camera" => period' = period
<1>1. UNCHANGED <<world, fc, kind, armed, streaming, sinkOn>>
  BY DEF Commit, setup
<1>2. Setup /\ Controls'
  BY DEF Negotiated
<1>3. \/ loop' = "exited"
      \/ Entry(commit)'
  BY <1>2 DEF Controls
<1>4. loop' # "exited"
  BY DEF Commit, SetFrameRate
<1>5. Entry(commit')
  BY <1>1, <1>3, <1>4 DEF Entry, Formats, Intervals
<1>6. /\ FramesPerSecond(commit'.interval) \in Nat
      /\ n <= FramesPerSecond(commit'.interval) /\ FramesPerSecond(commit'.interval) <= Second
  BY <1>2, <1>5, RateFacts
<1>7. SetFrameRate(FramesPerSecond(commit'.interval)) /\ period \in Nat
  BY DEF Commit, Timer
<1>8. 1 <= FramesPerSecond(commit'.interval)
  BY <1>6, SMT
<1> HIDE DEF FramesPerSecond, Second
<1>9. /\ loop' = loop /\ period' \in Nat
      /\ kind = "slideshow" => period' # 0
      /\ kind # "camera" /\ 2 <= FramesPerSecond(commit'.interval) => period' < 1000000000
      /\ kind = "camera" => period' = period
  BY <1>6, <1>7, <1>8, SetFrameRateFacts
<1> QED  BY <1>1, <1>6, <1>9, SMT

\* The other steps: what becomes of the timer when frames are filled.
LEMMA StreamFacts ==
  ASSUME Slides, Timer, kind \in {"slideshow", "camera"}, StreamOn \/ FillFrame \/ StreamOff, UNCHANGED setup
  PROVE  Timer' /\ (LoopRuns => LoopRuns')
<1>1. UNCHANGED <<kind, sinkFormat, period, rate>>
  BY DEF StreamOn, FillFrame, StreamOff, setup
<1>2. CASE kind = "camera"
  BY <1>1, <1>2, SMT DEF StreamOn, FillFrame, StreamOff, Timer, LoopRuns
<1>3. CASE kind = "slideshow"
  <2>1. CASE StreamOff
    BY <1>1, <1>3, <2>1, SMT DEF StreamOff, Timer, LoopRuns, StoppedStreaming
  <2>2. CASE FillFrame
    BY <1>1, <1>3, <2>2, AfterFillFacts, SMT DEF FillFrame, Timer, LoopRuns
  <2>3. CASE StreamOn
    <3>1. rate # 0 /\ period # 0 /\ loop' = AfterFill
      BY <1>3, <2>3 DEF StreamOn, Timer
    <3>2. \/ armed' = armed /\ streaming' = streaming
          \/ armed' = Armed /\ streaming' = (streaming \/ FastTimer)
      BY <1>3, <2>3, SMT DEF StreamOn, FastTimer
    <3>3. Armed = IF FastTimer THEN period ELSE armed
      BY SMT DEF Armed, FastTimer
    <3>4. armed' \in {armed, period} /\ (streaming' => armed' # 0)
      <4>1. streaming => armed # 0
        BY <1>3 DEF Timer
      <4>2. CASE FastTimer
        BY <3>1, <3>2, <3>3, <4>1, <4>2
      <4>3. CASE ~FastTimer
        <5>1. armed' = armed
          BY <3>2, <3>3, <4>3
        <5>2. ASSUME streaming' = (streaming \/ FastTimer), streaming' PROVE streaming
          BY <4>3, <5>2, Zenon
        <5>3. streaming' => streaming
          BY <3>2, <5>2, Zenon
        <5> QED  BY <4>1, <5>1, <5>3
      <4> QED  BY <4>2, <4>3
    <3>5. Timer'
      BY <1>1, <3>1, <3>4 DEF Timer
    <3> QED  BY <1>1, <1>3, <3>1, <3>5, AfterFillFacts, SMT DEF LoopRuns
  <2> QED  BY <2>1, <2>2, <2>3
<1> QED  BY <1>2, <1>3

LEMMA RunningStep ==
  Rates(1) /\ Negotiated /\ Negotiated' /\ Slides /\ Running /\ [Next]_vars => Running'
<1> SUFFICES ASSUME Rates(1), Negotiated, Negotiated', Slides, Running, [Next]_vars PROVE Running'
  OBVIOUS
<1>0. kind \in {"slideshow", "camera"}
  BY DEF Negotiated, Setup
<1>1. CASE UNCHANGED <<kind, source>>
  BY <1>1, SMT DEF source, Running, Timer, LoopRuns
<1>2. CASE UNCHANGED setup /\ (StreamOn \/ FillFrame \/ StreamOff)
  BY <1>0, <1>2, StreamFacts DEF Running
<1>3. ASSUME UNCHANGED setup, loop = "runs", NEW ctrl, Commit(ctrl) PROVE Running'
  <2>1. /\ loop' = "runs" /\ period' \in Nat /\ UNCHANGED <<kind, armed, streaming, sinkOn>>
        /\ kind = "slideshow" => period' # 0
    BY <1>3, CommitFacts DEF Running
  <2> QED  BY <2>1, SMT DEF Running, Timer, LoopRuns
<1>4. CASE UNCHANGED setup /\ ProcessData
  BY <1>1, <1>3, <1>4 DEF ProcessData, setup
<1> QED  BY <1>1, <1>2, <1>4 DEF Next, vars, setup, ProcessSetup

LEMMA RunningInductive == Tables /\ Rates(1) => (Spec => [](Running /\ Negotiated /\ Slides))
<1> SUFFICES ASSUME Tables, Rates(1) PROVE Spec => [](Running /\ Negotiated /\ Slides)
  OBVIOUS
<1>1. Init => Running
  BY SMT DEF Init, Running, Timer, LoopRuns
<1>2. Negotiated /\ Negotiated' /\ Slides /\ Running /\ [Next]_vars => Running'
  BY RunningStep
<1>3. Spec => []Negotiated
  BY NegotiatedInductive
<1> QED  BY <1>1, <1>2, <1>3, SlidesInductive, PTL DEF Spec

\* At two frames a second and more the period is below a second, which the timer
\* takes: it runs whenever the slideshow is on.
FastPaced == FastTimer /\ Paced

LEMMA FastPacedStream ==
  ASSUME FastPaced, Timer, StreamOn \/ FillFrame \/ StreamOff, UNCHANGED setup
  PROVE  FastPaced'
<1>1. kind' = kind /\ FastTimer' /\ period' = period
  BY SMT DEF StreamOn, FillFrame, StreamOff, setup, FastPaced, FastTimer
<1>2. CASE StreamOff
  BY <1>1, <1>2 DEF StreamOff, FastPaced, Paced
<1>3. CASE FillFrame
  BY <1>1, <1>3 DEF FillFrame, FastPaced, Paced
<1>4. CASE StreamOn
  <2>1. CASE kind # "slideshow"
    BY <1>1, <2>1 DEF FastPaced, Paced
  <2>2. CASE kind = "slideshow"
    <3>1. period # 0 /\ FastTimer
      BY <1>4, <2>2 DEF StreamOn, Timer, FastPaced
    <3>2. \/ UNCHANGED <<armed, streaming, sinkOn>>
          \/ armed' = Armed /\ streaming' = (streaming \/ FastTimer)
      BY <1>4, <2>2, SMT DEF StreamOn, FastTimer
    <3>3. Armed = IF FastTimer THEN period ELSE armed
      BY SMT DEF Armed, FastTimer
    <3>4. CASE UNCHANGED <<armed, streaming, sinkOn>>
      BY <1>1, <3>4 DEF FastPaced, Paced
    <3>5. CASE armed' = Armed /\ streaming' = (streaming \/ FastTimer)
      <4>1. armed' # 0
        BY <3>1, <3>3, <3>5
      <4>2. streaming'
        BY <3>1, <3>5, Zenon
      <4> QED  BY <1>1, <4>1, <4>2 DEF FastPaced, Paced
    <3> QED  BY <3>2, <3>4, <3>5
  <2> QED  BY <2>1, <2>2
<1> QED  BY <1>2, <1>3, <1>4

LEMMA FastPacedStep ==
  Rates(2) /\ Negotiated /\ Negotiated' /\ Timer /\ FastPaced /\ [Next]_vars => FastPaced'
<1> SUFFICES ASSUME Rates(2), Negotiated, Negotiated', Timer, FastPaced, [Next]_vars PROVE FastPaced'
  OBVIOUS
<1>0. kind \in {"slideshow", "camera"}
  BY DEF Negotiated, Setup
<1>1. CASE UNCHANGED <<kind, source>>
  BY <1>1, SMT DEF source, FastPaced, FastTimer, Paced
<1>2. CASE UNCHANGED setup /\ (StreamOn \/ FillFrame \/ StreamOff)
  BY <1>2, FastPacedStream
<1>3. ASSUME UNCHANGED setup, loop = "runs", NEW ctrl, Commit(ctrl) PROVE FastPaced'
  <2>1. /\ UNCHANGED <<kind, armed, streaming, sinkOn>>
        /\ kind = "slideshow" => period' < 1000000000
        /\ kind = "camera" => period' = period
    BY <1>3, CommitFacts
  <2> QED  BY <1>0, <2>1, SMT DEF FastPaced, FastTimer, Paced
<1>4. CASE UNCHANGED setup /\ ProcessData
  BY <1>1, <1>3, <1>4 DEF ProcessData, setup
<1> QED  BY <1>1, <1>2, <1>4 DEF Next, vars, setup, ProcessSetup

LEMMA FastRates == Rates(2) => Rates(1)
<1>1. Second \div 1 \in Nat /\ Second \div 2 \in Nat /\ Second \div 2 <= Second \div 1
  BY SMT DEF Second
<1>2. 1 .. Second \div 2 \subseteq 1 .. Second \div 1
  BY <1>1
<1> QED  BY <1>2 DEF Rates

LEMMA FastPacedInductive == Tables /\ Rates(2) => (Spec => []FastPaced)
<1> SUFFICES ASSUME Tables, Rates(2) PROVE Spec => []FastPaced
  OBVIOUS
<1>1. Init => FastPaced
  BY SMT DEF Init, FastPaced, FastTimer, Paced
<1>2. Negotiated /\ Negotiated' /\ Timer /\ FastPaced /\ [Next]_vars => FastPaced'
  BY FastPacedStep
<1>3. Spec => [](Running /\ Negotiated /\ Slides)
  BY FastRates, RunningInductive
<1>4. Running => Timer
  BY DEF Running
<1> QED  BY <1>1, <1>2, <1>3, <1>4, PTL DEF Spec

-----------------------------------------------------------------------------
(* Answers *)

LEMMA EntryStands ==
  ASSUME Tables, Negotiated
  PROVE  AnswerStands
<1> SUFFICES ASSUME resp # NoResponse PROVE Refill(resp) = resp
  BY DEF AnswerStands
<1>1. resp \in StreamingControls /\ Entry(resp) /\ WellFormed(Formats)
  BY TableInUse DEF Negotiated, Controls, Answers, StreamingControls
<1> QED  BY <1>1, RefillFacts

-----------------------------------------------------------------------------
(* The table is that of the function behind the video device *)

\* The program serves a g_webcam.
ServesWebcam(w) ==
  LET fn == ParseUvcFunction(w) IN
  /\ FindFunction(w.gadgets, w.function) = <<0, 0>>
  /\ fn.video \in 1 .. Len(w.videos)
  /\ fn.formats = Webcam

\* It serves function i of gadget g, and has its node and its formats.
ServesFunction(w, g, i) ==
  LET fn == ParseUvcFunction(w)
      function == w.gadgets[g].functions[i]
  IN /\ g \in 1 .. Len(w.gadgets) /\ i \in 1 .. Len(w.gadgets[g].functions)
     /\ fn.video \in 1 .. Len(w.videos)
     /\ w.videos[fn.video].udc = w.gadgets[g].udc
     /\ w.function.name # "any" =>
          function.name = w.function.name /\ w.videos[fn.video].function = w.function.name
     /\ w.function.name = "any" => i = 1
     /\ function.kind = "uvc"
     /\ ParseHeader(function.formats).ret = "ok"
     /\ fn.formats = ParseHeader(function.formats).formats

Serves(w) == ServesWebcam(w) \/ \E g, i \in Nat : ServesFunction(w, g, i)

LEMMA LegacyServes ==
  ASSUME NEW w, IsSequence(w.videos), FindFunction(w.gadgets, w.function) = <<0, 0>>,
         ParseUvcFunction(w).ret = "ok"
  PROVE  ServesWebcam(w)
<1> DEFINE v == FindVideoDevice(w.videos, w.function.name, "any")
<1>1. ParseUvcFunction(w) = At(v, IF v = 0 THEN Error ELSE Ok(Webcam))
  BY DEF ParseUvcFunction, ParseLegacy
<1> HIDE DEF v
<1>2. v # 0
  BY <1>1 DEF At, Error
<1>3. ParseUvcFunction(w).video = v /\ ParseUvcFunction(w).formats = Webcam
  BY <1>1, <1>2 DEF At, Ok
<1>4. v \in 1 .. Len(w.videos)
  BY <1>2, VideoFacts DEF v
<1> QED  BY <1>3, <1>4 DEF ServesWebcam

LEMMA FoundServes ==
  ASSUME NEW w, IsSequence(w.videos), NEW g \in Nat, NEW i \in Nat,
         FoundAt(w.gadgets, w.function, g, i), w.gadgets[g].udc # "any",
         ParseUvcFunction(w).ret = "ok"
  PROVE  ServesFunction(w, g, i)
<1> DEFINE v == FindVideoDevice(w.videos, w.gadgets[g].udc, w.function.name)
           function == w.gadgets[g].functions[i]
<1>0. g # 0 /\ FindFunction(w.gadgets, w.function) = <<g, i>>
  BY DEF FoundAt
<1>1. ParseUvcFunction(w) = At(v, IF v = 0 THEN Error ELSE ParseUvc(function))
  BY <1>0 DEF ParseUvcFunction, ParseFound
<1> HIDE DEF v, function
<1>2. v # 0
  BY <1>1 DEF At, Error
<1>3. /\ ParseUvcFunction(w).video = v /\ ParseUvcFunction(w).formats = ParseUvc(function).formats
      /\ ParseUvc(function).ret = "ok"
  BY <1>1, <1>2 DEF At
<1>4. /\ v \in 1 .. Len(w.videos)
      /\ w.videos[v].udc = w.gadgets[g].udc
      /\ w.function.name # "any" => w.videos[v].function = w.function.name
  BY <1>2, VideoFacts DEF v, FoundAt
<1>5. function.kind = "uvc" /\ ParseUvc(function) = ParseHeader(function.formats)
  BY <1>3 DEF ParseUvc, Error
<1> QED  BY <1>3, <1>4, <1>5 DEF ServesFunction, function, FoundAt

LEMMA WorldServes ==
  ASSUME Trees, NEW w \in Worlds, ParseUvcFunction(w).ret = "ok"
  PROVE  Serves(w)
<1>1. /\ IsSequence(w.gadgets) /\ IsSequence(w.videos)
      /\ \A g \in 1 .. Len(w.gadgets) : w.gadgets[g].udc # "any" /\ IsSequence(w.gadgets[g].functions)
  BY DEF Trees
<1>2. CASE FindFunction(w.gadgets, w.function) = <<0, 0>>
  BY <1>1, <1>2, LegacyServes DEF Serves
<1>3. CASE FindFunction(w.gadgets, w.function) # <<0, 0>>
  <2>1. PICK g \in Nat, i \in Nat : FoundAt(w.gadgets, w.function, g, i)
    BY <1>1, <1>3, FindFunctionFacts
  <2>2. w.gadgets[g].udc # "any"
    BY <1>1, <2>1 DEF FoundAt
  <2>3. ServesFunction(w, g, i)
    BY <1>1, <2>1, <2>2, FoundServes
  <2> QED  BY <2>3 DEF Serves
<1> QED  BY <1>2, <1>3

LEMMA WebcamFacts == WellFormed(Webcam)
<1> DEFINE some == <<666666, 10000000, 50000000>>
           one == <<50000000>>
           frames == << [index |-> 1, size |-> "640x360", intervals |-> some],
                        [index |-> 2, size |-> "1280x720", intervals |-> one] >>
<1>1. Ascending(some)
  BY SMT DEF Ascending
<1>2. Ascending(one)
  BY SMT DEF Ascending
<1>3. Webcam = << [index |-> 1, fcc |-> "YUY2", frames |-> frames], [index |-> 2, fcc |-> "MJPG", frames |-> frames] >>
  BY SMT DEF Webcam
<1> HIDE DEF some, one
<1>4. Len(frames) = 2 /\ frames[1].intervals = some /\ frames[2].intervals = one
  OBVIOUS
<1>5. \A r \in 1 .. 2 : Ascending(frames[r].intervals)
  BY <1>1, <1>2, <1>4
<1> HIDE DEF frames
<1>6. Len(Webcam) = 2 /\ \A f \in 1 .. 2 : Webcam[f].frames = frames
  BY <1>3
<1>7. Len(frames) \in Nat \ {0} /\ \A r \in 1 .. Len(frames) : Ascending(frames[r].intervals)
  BY <1>4, <1>5
<1> HIDE DEF Webcam
<1> QED  BY <1>6, <1>7 DEF WellFormed

LEMMA TablesHold == Trees => Tables
<1> SUFFICES ASSUME Trees, NEW w \in Worlds, ParseUvcFunction(w).ret = "ok"
             PROVE  WellFormed(ParseUvcFunction(w).formats)
  BY DEF Tables
<1>1. CASE ServesWebcam(w)
  BY <1>1, WebcamFacts DEF ServesWebcam
<1>2. ASSUME NEW g \in Nat, NEW i \in Nat, ServesFunction(w, g, i)
      PROVE  WellFormed(ParseUvcFunction(w).formats)
  <2>1. Kept(w.gadgets[g].functions[i].formats)
    BY <1>2 DEF ServesFunction, Trees
  <2> QED  BY <1>2, <2>1, HeaderFacts DEF ServesFunction
<1> QED  BY <1>1, <1>2, WorldServes DEF Serves

\* The function served is one behind the node.
LEMMA FunctionIsBehind ==
  ASSUME Trees, Named, NEW w \in Worlds, ParseUvcFunction(w).ret = "ok",
         NEW g \in Nat, NEW i \in Nat, ServesFunction(w, g, i)
  PROVE  w.gadgets[g].functions[i] \in Behind(w, w.videos[ParseUvcFunction(w).video])
<1> DEFINE video == w.videos[ParseUvcFunction(w).video]
           gadget == w.gadgets[g]
           function == gadget.functions[i]
<1>1. /\ g \in 1 .. Len(w.gadgets) /\ i \in 1 .. Len(gadget.functions)
      /\ ParseUvcFunction(w).video \in 1 .. Len(w.videos) /\ video.udc = gadget.udc
  BY DEF ServesFunction
<1>2. video.function = function.name
  <2>1. CASE w.function.name = "any"
    BY <1>1, <2>1 DEF ServesFunction, Named
  <2>2. CASE w.function.name # "any"
    BY <2>2 DEF ServesFunction
  <2> QED  BY <2>1, <2>2
<1>3. gadget \in ToSet(w.gadgets) /\ function \in ToSet(gadget.functions)
  <2>1. DOMAIN w.gadgets = 1 .. Len(w.gadgets) /\ DOMAIN gadget.functions = 1 .. Len(gadget.functions)
    BY <1>1 DEF Trees, IsSequence
  <2> QED  BY <1>1, <2>1 DEF ToSet
<1> HIDE DEF video, gadget, function
<1>4. function \in UNION {ToSet(h.functions) : h \in {k \in ToSet(w.gadgets) : k.udc = video.udc}}
  BY <1>1, <1>3
<1>5. function \in Behind(w, video)
  BY <1>2, <1>4 DEF Behind
<1> QED  BY <1>5 DEF video, function, gadget

\* An entry of the table is a frame and an interval of the formats it mirrors.
LEMMA EntryOfTable ==
  ASSUME NEW table, WellFormed(table), NEW formats, Mirrors(table, formats),
         NEW f \in 1 .. Len(table), NEW r \in 1 .. Len(table[f].frames),
         NEW k \in 1 .. Len(table[f].frames[r].intervals)
  PROVE  /\ f \in 1 .. Len(formats) /\ r \in 1 .. Len(formats[f].frames)
         /\ table[f].frames[r].intervals[k] \in ToSet(formats[f].frames[r].intervals)
<1>1. Ascending(table[f].frames[r].intervals)
  BY DEF WellFormed
<1>2. DOMAIN table[f].frames[r].intervals = 1 .. Len(table[f].frames[r].intervals)
  BY <1>1 DEF Ascending
<1>3. f \in 1 .. Len(formats) /\ r \in 1 .. Len(formats[f].frames)
      /\ formats[f].frames[r].intervals = table[f].frames[r].intervals
  BY DEF Mirrors, SameFrames
<1> QED  BY <1>2, <1>3 DEF ToSet

LEMMA EntryDeclared ==
  ASSUME Trees, Named, Alone, Setup, fc.ret = "ok", NEW ctrl, Entry(ctrl)
  PROVE  Declares(world, world.videos[fc.video], ctrl.format, ctrl.frame, ctrl.interval)
<1> DEFINE video == world.videos[fc.video]
<1>1. world \in Worlds /\ fc = ParseUvcFunction(world) /\ WellFormed(fc.formats) /\ Serves(world)
  BY TablesHold, WorldServes DEF Setup, Tables
<1>2. ASSUME NEW formats, Mirrors(fc.formats, formats)
      PROVE  /\ ctrl.format \in 1 .. Len(formats) /\ ctrl.frame \in 1 .. Len(formats[ctrl.format].frames)
             /\ ctrl.interval \in ToSet(formats[ctrl.format].frames[ctrl.frame].intervals)
  BY <1>1, <1>2, EntryOfTable DEF Entry, Formats, Intervals
<1>3. CASE ServesWebcam(world)
  <2>1. fc.formats = Webcam /\ Behind(world, video) = {}
    BY <1>1, <1>3 DEF ServesWebcam, Alone
  <2>2. Mirrors(fc.formats, Webcam)
    BY <2>1 DEF Mirrors, SameFrames
  <2> QED  BY <1>2, <2>1, <2>2 DEF Declares
<1>4. ASSUME NEW g \in Nat, NEW i \in Nat, ServesFunction(world, g, i)
      PROVE  Declares(world, video, ctrl.format, ctrl.frame, ctrl.interval)
  <2> DEFINE function == world.gadgets[g].functions[i]
  <2>1. function \in Behind(world, video)
    BY <1>1, <1>4, FunctionIsBehind DEF Setup
  <2>2. Kept(function.formats) /\ ParseHeader(function.formats).ret = "ok"
        /\ fc.formats = ParseHeader(function.formats).formats
    BY <1>1, <1>4 DEF ServesFunction, Trees
  <2>3. Mirrors(fc.formats, function.formats)
    BY <2>2, HeaderFacts
  <2> HIDE DEF function
  <2> QED  BY <1>2, <2>1, <2>3 DEF Declares
<1> QED  BY <1>1, <1>3, <1>4 DEF Serves

-----------------------------------------------------------------------------
(* The theorems *)

\* Whatever the host asks for, what is negotiated is a frame and an interval that
\* the function behind the video device declares: in every tree whose directories
\* have names, with any number of gadgets, functions, nodes and formats.
THEOREM DeclaredHolds == Trees /\ Named /\ Alone => (Spec => []Declared)
<1> SUFFICES ASSUME Trees, Named, Alone PROVE Spec => []Declared
  OBVIOUS
<1>1. Negotiated => Declared
  BY EntryDeclared DEF Negotiated, Setup, Controls, Declared
<1>2. Spec => []Negotiated
  BY TablesHold, NegotiatedInductive
<1> QED  BY <1>1, <1>2, PTL

\* A host that commits what it was told gets exactly that.
THEOREM AnswerStandsHolds == Trees => (Spec => []AnswerStands)
<1> SUFFICES ASSUME Trees PROVE Spec => []AnswerStands
  OBVIOUS
<1>1. Negotiated => AnswerStands
  BY TablesHold, EntryStands
<1>2. Spec => []Negotiated
  BY TablesHold, NegotiatedInductive
<1> QED  BY <1>1, <1>2, PTL

\* Where no frame lasts longer than a second the event loop never waits for a
\* timer that does not run.
THEOREM LoopRunsHolds == Trees /\ Rates(1) => (Spec => []LoopRuns)
<1> SUFFICES ASSUME Trees, Rates(1) PROVE Spec => []LoopRuns
  OBVIOUS
<1>1. Spec => [](Running /\ Negotiated /\ Slides)
  BY TablesHold, RunningInductive
<1> QED  BY <1>1, PTL DEF Running

\* Where no frame lasts longer than half a second the timer of a slideshow that
\* is on always runs.
THEOREM PacedHolds == Trees /\ Rates(2) => (Spec => []Paced)
<1> SUFFICES ASSUME Trees, Rates(2) PROVE Spec => []Paced
  OBVIOUS
<1>1. Spec => []FastPaced
  BY TablesHold, FastPacedInductive
<1> QED  BY <1>1, PTL DEF FastPaced
=============================================================================
