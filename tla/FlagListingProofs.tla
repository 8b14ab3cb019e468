------------------------- MODULE FlagListingProofs -------------------------
(***************************************************************************)
(* Proofs about FlagListing, for any flags, dates, searches and page       *)
(* sizes.  A flag whose date is its own has a place in every sorted list:  *)
(* that of the flags that are newer.  What a walk may show twice needs     *)
(* only that offsets count the newer flags; what it may miss needs that a  *)
(* page that is not full is the end of its list.                           *)
(***************************************************************************)
EXTENDS FlagListing, FiniteSetTheorems, TLAPS

Dates == created_at \in [Flags -> Nat] /\ stored \subseteq Begun

Pages ==
    /\ walk = None \/ walk \in Walk
    /\ walk = None => shown = <<>>
    /\ shown \in Seq(SUBSET Flags)
    /\ walk # None => /\ Len(shown) <= walk.page
                      /\ walk.at # "done" => Len(shown) = walk.page - 1

Listed == seen.stayed \cup seen.left \cup seen.entered

History ==
    walk # None => /\ seen.stayed \subseteq Matches(walk.filter)
                   /\ Matches(walk.filter) \subseteq seen.stayed \cup seen.entered
                   /\ Listed \subseteq Begun

Ahead(f, set) == {g \in set : Newer(g, f)}
Place(f, set) == Cardinality(Ahead(f, set))

(* As long as no newer flag has entered, a flag of page j has less than j  *)
(* pages of flags before it.                                               *)
Behind(j, f) ==
    \/ Tied(f)
    \/ \E g \in seen.entered : Newer(g, f)
    \/ Place(f, Matches(walk.filter)) < j * walk.limit
Shifts == \A j \in DOMAIN shown : \A f \in shown[j] : f \in Begun /\ Behind(j, f)

Inv == Dates /\ Pages /\ History /\ Shifts /\ WalkRepeatsOnlyShifted

LEMMA WalkFields ==
  ASSUME walk \in Walk
  PROVE  walk.limit \in Nat \ {0} /\ walk.page \in Nat \ {0}
  <1>1. walk.limit \in Limits /\ walk.page \in Nat \ {0}
    BY DEF Walk
  <1>2. \A n \in Limits : n \in 1 .. 100
    BY ListParameters
  <1> QED BY <1>1, <1>2

LEMMA WalkMoves ==
  ASSUME NEW w \in Walk, NEW s \in Steps
  PROVE  /\ [w EXCEPT !.at = s] \in Walk
         /\ [w EXCEPT !.at = s].filter = w.filter
         /\ [w EXCEPT !.at = s].limit = w.limit
         /\ [w EXCEPT !.at = s].page = w.page
         /\ [w EXCEPT !.at = s].at = s
  <1> DEFINE counts == 0 .. Cardinality(Flags)
  <1>1. Walk = [filter : Filter, limit : Limits, page : Nat \ {0}, at : Steps, total : counts]
    BY DEF Walk
  <1> HIDE DEF counts
  <1> QED BY <1>1

LEMMA WalkCounts ==
  ASSUME NEW w \in Walk, NEW s \in Steps, NEW n \in 0 .. Cardinality(Flags)
  PROVE  /\ [w EXCEPT !.at = s, !.total = n] \in Walk
         /\ [w EXCEPT !.at = s, !.total = n].filter = w.filter
         /\ [w EXCEPT !.at = s, !.total = n].limit = w.limit
         /\ [w EXCEPT !.at = s, !.total = n].page = w.page
         /\ [w EXCEPT !.at = s, !.total = n].at = s
  <1> DEFINE counts == 0 .. Cardinality(Flags)
  <1>1. /\ n \in counts
        /\ Walk = [filter : Filter, limit : Limits, page : Nat \ {0}, at : Steps, total : counts]
    BY DEF Walk
  <1> HIDE DEF counts
  <1> QED BY <1>1

LEMMA WalkTurns ==
  ASSUME NEW w \in Walk
  PROVE  /\ [w EXCEPT !.at = "project", !.page = @ + 1] \in Walk
         /\ [w EXCEPT !.at = "project", !.page = @ + 1].filter = w.filter
         /\ [w EXCEPT !.at = "project", !.page = @ + 1].limit = w.limit
         /\ [w EXCEPT !.at = "project", !.page = @ + 1].page = w.page + 1
         /\ [w EXCEPT !.at = "project", !.page = @ + 1].at = "project"
  <1> DEFINE counts == 0 .. Cardinality(Flags)
             pages == Nat \ {0}
  <1>1. /\ Walk = [filter : Filter, limit : Limits, page : pages, at : Steps, total : counts]
        /\ "project" \in Steps
    BY DEF Walk, Steps
  <1>2. w.page + 1 \in pages
    BY <1>1
  <1> HIDE DEF counts, pages
  <1> QED BY <1>1, <1>2

LEMMA MatchesDated ==
  ASSUME Dates, NEW filter
  PROVE  /\ Matches(filter) \subseteq Flags /\ Matches(filter) \subseteq Begun
         /\ IsFiniteSet(Matches(filter))
         /\ Cardinality(Matches(filter)) \in Nat
  <1>1. Matches(filter) \in SUBSET Flags /\ Matches(filter) \subseteq Begun
    BY DEF Dates, Begun, Matches
  <1>2. IsFiniteSet(Matches(filter))
    BY <1>1, ListParameters, FS_Subset
  <1> QED BY <1>1, <1>2, FS_CardinalityType

LEMMA PlaceInList ==
  ASSUME Dates, NEW f, NEW filter
  PROVE  /\ IsFiniteSet(Ahead(f, Matches(filter)))
         /\ Place(f, Matches(filter)) \in Nat
  <1>1. Ahead(f, Matches(filter)) \in SUBSET Matches(filter)
    BY DEF Ahead
  <1>2. IsFiniteSet(Ahead(f, Matches(filter)))
    BY <1>1, MatchesDated, FS_Subset
  <1> QED BY <1>2, FS_CardinalityType DEF Place

(***************************************************************************)
(* Places in a sorted list.                                                *)
(***************************************************************************)

(* Places hold one flag each. *)
LEMMA SlotsFilled ==
  ASSUME NEW list, IsInjective(list), NEW D, D \subseteq DOMAIN list, IsFiniteSet(D)
  PROVE  /\ IsFiniteSet({list[n] : n \in D})
         /\ Cardinality({list[n] : n \in D}) = Cardinality(D)
  <1> DEFINE image == {list[n] : n \in D}
             part == [n \in D |-> list[n]]
  <1>1. part \in [D -> image]
    OBVIOUS
  <1>2. \A a, b \in D : list[a] = list[b] => a = b
    BY DEF IsInjective
  <1>3. \A a, b \in D : part[a] = part[b] => a = b
    BY <1>2
  <1>4. \A t \in image : \E s \in D : part[s] = t
    OBVIOUS
  <1>5. DOMAIN part = D
    OBVIOUS
  <1> HIDE DEF part, image
  <1>6. part \in Bijection(D, image)
    BY <1>1, <1>3, <1>4, <1>5 DEF Bijection, Injection, Surjection, IsInjective
  <1>7. ExistsBijection(D, image)
    BY <1>6 DEF ExistsBijection
  <1>8. IsFiniteSet(image) /\ Cardinality(image) = Cardinality(D)
    BY <1>7, FS_Bijection
  <1> QED BY <1>8 DEF image

LEMMA ListShape ==
  ASSUME NEW set, IsFiniteSet(set), NEW list \in Sorted(set)
  PROVE  /\ Cardinality(set) \in Nat
         /\ DOMAIN list = 1 .. Cardinality(set)
         /\ IsInjective(list)
         /\ \A n \in DOMAIN list : list[n] \in set
         /\ \A f \in set : \E n \in DOMAIN list : list[n] = f
         /\ \A i, j \in DOMAIN list : i < j => ~Newer(list[j], list[i])
  <1>1. Cardinality(set) \in Nat
    BY FS_CardinalityType
  <1> DEFINE n == Cardinality(set)
  <1>2. /\ list \in [1 .. n -> set] /\ IsInjective(list)
        /\ \A f \in set : \E i \in 1 .. n : list[i] = f
        /\ \A i, j \in DOMAIN list : i < j => ~Newer(list[j], list[i])
    BY DEF Sorted, Lists, Bijection, Injection, Surjection
  <1> QED BY <1>1, <1>2

(* Whatever the order of the others, a flag of a date of its own comes     *)
(* behind the newer ones and before the older ones.                        *)
LEMMA PlaceSorted ==
  ASSUME Dates, NEW set, set \subseteq Flags, IsFiniteSet(set), NEW list \in Sorted(set),
         NEW n \in DOMAIN list,
         \A g \in set \ {list[n]} : created_at[g] # created_at[list[n]]
  PROVE  Place(list[n], set) = n - 1
  <1>1. /\ Cardinality(set) \in Nat
        /\ DOMAIN list = 1 .. Cardinality(set)
        /\ IsInjective(list)
        /\ \A i \in DOMAIN list : list[i] \in set
        /\ \A f \in set : \E i \in DOMAIN list : list[i] = f
        /\ \A i, j \in DOMAIN list : i < j => ~Newer(list[j], list[i])
    BY ListShape
  <1>2. n \in Nat /\ n >= 1 /\ 1 .. n - 1 \subseteq DOMAIN list
    BY <1>1
  <1>3. \A g \in set : created_at[g] \in Nat
    BY DEF Dates
  <1>4. ASSUME NEW i \in 1 .. n - 1 PROVE list[i] \in Ahead(list[n], set)
    <2>1. i \in DOMAIN list /\ i < n /\ i # n
      BY <1>1, <1>2
    <2>2. list[i] \in set /\ list[i] # list[n] /\ ~Newer(list[n], list[i])
      BY <1>1, <2>1 DEF IsInjective
    <2>3. created_at[list[i]] > created_at[list[n]]
      BY <1>1, <1>3, <2>2 DEF Newer
    <2> QED BY <2>2, <2>3 DEF Ahead, Newer
  <1>5. ASSUME NEW g \in Ahead(list[n], set) PROVE \E i \in 1 .. n - 1 : list[i] = g
    <2>1. g \in set /\ Newer(g, list[n])
      BY DEF Ahead
    <2>2. PICK i \in DOMAIN list : list[i] = g
      BY <1>1, <2>1
    <2>3. ~(n < i)
      BY <1>1, <2>1, <2>2
    <2>4. i # n
      BY <1>1, <1>3, <2>1, <2>2 DEF Newer
    <2> QED BY <1>1, <1>2, <2>2, <2>3, <2>4
  <1> DEFINE m == n - 1
             D == 1 .. m
  <1>6. Ahead(list[n], set) = {list[i] : i \in D}
    BY <1>4, <1>5
  <1>7. m \in Nat /\ 1 \in Int /\ m \in Int
    BY <1>2
  <1>8. D \subseteq DOMAIN list
    BY <1>2
  <1> HIDE DEF m
  <1>9. IsFiniteSet(D) /\ Cardinality(D) = m
    <2>1. IsFiniteSet(D) /\ Cardinality(D) = IF 1 > m THEN 0 ELSE m - 1 + 1
      BY <1>7, FS_Interval
    <2> QED BY <1>7, <2>1
  <1> HIDE DEF D
  <1>10. Cardinality({list[i] : i \in D}) = m
    <2>1. IsInjective(list) /\ IsFiniteSet(D)
      BY <1>1, <1>9
    <2>2. Cardinality({list[i] : i \in D}) = Cardinality(D)
      BY <1>8, <2>1, SlotsFilled
    <2> QED BY <1>9, <2>2
  <1> QED BY <1>6, <1>10 DEF Place, m

(* A page of a list: no longer than the limit; a flag of a date of its own *)
(* is on it exactly if its place is; and one that is not full is the last. *)
LEMMA PageCut ==
  ASSUME Dates, NEW set, set \subseteq Flags, IsFiniteSet(set), NEW list \in Sorted(set),
         NEW k \in Nat \ {0}, NEW limit \in Nat \ {0}
  PROVE  /\ PageOf(list, k, limit) \subseteq set
         /\ Cardinality(PageOf(list, k, limit)) \in Nat
         /\ Cardinality(PageOf(list, k, limit)) <= limit
         /\ Cardinality(PageOf(list, k, limit)) < limit => Cardinality(set) < k * limit
         /\ \A f \in set :
               (\A g \in set \ {f} : created_at[g] # created_at[f]) =>
                  /\ Place(f, set) \in 0 .. Cardinality(set) - 1
                  /\ f \in PageOf(list, k, limit)
                        <=> Place(f, set) \in (k - 1) * limit .. k * limit - 1
  <1> DEFINE slots == Slots(k, limit)
             cut == DOMAIN list \cap slots
             size == Cardinality(set)
             a == (k - 1) * limit
             b == k * limit
  <1>1. /\ size \in Nat
        /\ DOMAIN list = 1 .. size
        /\ IsInjective(list)
        /\ \A i \in DOMAIN list : list[i] \in set
        /\ \A f \in set : \E i \in DOMAIN list : list[i] = f
    BY ListShape
  <1>2. a \in Nat /\ b \in Nat /\ b = a + limit /\ slots = a + 1 .. b
    BY DEF Slots
  <1>3. PageOf(list, k, limit) = {list[i] : i \in cut}
    BY DEF PageOf
  <1> HIDE DEF a, b
  <1>4. IsFiniteSet(slots) /\ Cardinality(slots) = limit
    <2>1. a + 1 \in Int /\ b \in Int
      BY <1>2
    <2> HIDE DEF slots
    <2> QED BY <1>2, <2>1, FS_Interval
  <1> HIDE DEF size, slots
  <1>5. IsFiniteSet(cut) /\ Cardinality(cut) <= limit /\ Cardinality(cut) \in Nat
    <2>1. cut \in SUBSET slots
      OBVIOUS
    <2> HIDE DEF cut
    <2> QED BY <1>4, <2>1, FS_Subset, FS_CardinalityType
  <1>6. Cardinality({list[i] : i \in cut}) = Cardinality(cut)
    <2>1. cut \subseteq DOMAIN list
      OBVIOUS
    <2> HIDE DEF cut
    <2> QED BY <1>1, <1>5, <2>1, SlotsFilled
  <1>7. Cardinality(cut) < limit => size < b
    <2> SUFFICES ASSUME ~(size < b) PROVE Cardinality(cut) = limit
      BY <1>5
    <2>1. slots \subseteq DOMAIN list
      BY <1>1, <1>2
    <2>2. cut = slots
      BY <2>1
    <2> QED BY <1>4, <2>2
  <1>8. ASSUME NEW f \in set, \A g \in set \ {f} : created_at[g] # created_at[f]
        PROVE  /\ Place(f, set) \in 0 .. size - 1
               /\ f \in {list[i] : i \in cut} <=> Place(f, set) \in a .. b - 1
    <2>1. PICK n \in DOMAIN list : list[n] = f
      BY <1>1
    <2>2. Place(f, set) = n - 1
      BY <1>8, <2>1, PlaceSorted
    <2>3. n \in 1 .. size
      BY <1>1
    <2>4. f \in {list[i] : i \in cut} <=> n \in slots
      <3>1. n \in slots => f \in {list[i] : i \in cut}
        BY <2>1
      <3>2. ASSUME NEW i \in cut, list[i] = f PROVE n \in slots
        BY <1>1, <2>1, <3>2 DEF IsInjective
      <3> QED BY <3>1, <3>2
    <2>5. n \in slots <=> n - 1 \in a .. b - 1
      BY <1>1, <1>2, <2>3
    <2> QED BY <1>1, <2>2, <2>3, <2>4, <2>5
  <1> HIDE DEF cut
  <1>9. PageOf(list, k, limit) \subseteq set
    BY <1>1, <1>3 DEF cut
  <1> QED BY <1>3, <1>5, <1>6, <1>7, <1>8, <1>9 DEF a, b, size

(* The page that ReadPage reads. *)
LEMMA PageRead ==
  ASSUME Inv, ReadPage
  PROVE  \E page \in SUBSET Flags :
            /\ page \subseteq Matches(walk.filter)
            /\ Cardinality(page) \in Nat /\ Cardinality(page) <= walk.limit
            /\ shown' = Append(shown, page)
            /\ walk' \in Walk /\ walk'.filter = walk.filter /\ walk'.limit = walk.limit
            /\ \/ /\ walk'.at = "done" /\ walk'.page = walk.page
                  /\ Cardinality(Matches(walk.filter)) < walk.page * walk.limit
               \/ walk'.at = "project" /\ walk'.page = walk.page + 1
            /\ \A f \in Matches(walk.filter) :
                  Tied(f) \/ /\ Place(f, Matches(walk.filter)) < Cardinality(Matches(walk.filter))
                             /\ f \in page <=> /\ Place(f, Matches(walk.filter)) >= (walk.page - 1) * walk.limit
                                               /\ Place(f, Matches(walk.filter)) < walk.page * walk.limit
  <1> DEFINE set == Matches(walk.filter)
             size == Cardinality(set)
             a == (walk.page - 1) * walk.limit
             b == walk.page * walk.limit
  <1>1. walk \in Walk /\ walk # None /\ walk.page \in Nat \ {0} /\ walk.limit \in Nat \ {0}
    BY WalkFields DEF ReadPage, At, Inv, Pages
  <1>2. PICK list \in Sorted(set) :
           LET page == PageOf(list, walk.page, walk.limit) IN
           /\ shown' = Append(shown, page)
           /\ walk' = IF Cardinality(page) < walk.limit THEN [walk EXCEPT !.at = "done"]
                      ELSE [walk EXCEPT !.at = "project", !.page = @ + 1]
    BY DEF ReadPage
  <1> DEFINE page == PageOf(list, walk.page, walk.limit)
  <1>3. /\ set \subseteq Flags /\ IsFiniteSet(set) /\ size \in Nat
        /\ set \subseteq seen.stayed \cup seen.entered
    BY <1>1, MatchesDated DEF Inv, History
  <1> HIDE DEF set
  <1>4. /\ page \subseteq set
        /\ Cardinality(page) \in Nat /\ Cardinality(page) <= walk.limit
        /\ Cardinality(page) < walk.limit => size < b
        /\ \A f \in set :
              (\A g \in set \ {f} : created_at[g] # created_at[f]) =>
                 /\ Place(f, set) \in 0 .. size - 1
                 /\ f \in page <=> Place(f, set) \in a .. b - 1
    BY <1>1, <1>3, PageCut DEF Inv
  <1>5. a \in Nat /\ b \in Nat
    BY <1>1
  <1> HIDE DEF page, a, b, size
  <1>6. ASSUME NEW f \in set, ~Tied(f)
        PROVE  /\ Place(f, set) < size
               /\ f \in page <=> Place(f, set) >= a /\ Place(f, set) < b
    <2>1. \A g \in set \ {f} : created_at[g] # created_at[f]
      BY <1>3, <1>6 DEF Tied
    <2>2. /\ Place(f, set) \in 0 .. size - 1
          /\ f \in page <=> Place(f, set) \in a .. b - 1
      BY <1>4, <2>1
    <2> QED BY <1>3, <1>5, <2>2 DEF size
  <1>7. /\ walk' \in Walk /\ walk'.filter = walk.filter /\ walk'.limit = walk.limit
        /\ \/ walk'.at = "done" /\ walk'.page = walk.page /\ size < b
           \/ walk'.at = "project" /\ walk'.page = walk.page + 1
    <2>1. \/ walk' = [walk EXCEPT !.at = "done"] /\ Cardinality(page) < walk.limit
          \/ walk' = [walk EXCEPT !.at = "project", !.page = @ + 1]
      BY <1>2 DEF page
    <2>2. CASE walk' = [walk EXCEPT !.at = "done"] /\ Cardinality(page) < walk.limit
      <3>1. "done" \in Steps
        BY DEF Steps
      <3> QED BY <1>1, <1>4, <2>2, <3>1, WalkMoves
    <2>3. CASE walk' = [walk EXCEPT !.at = "project", !.page = @ + 1]
      BY <1>1, <2>3, WalkTurns
    <2> QED BY <2>1, <2>2, <2>3
  <1>8. shown' = Append(shown, page)
    BY <1>2 DEF page
  <1> page \in SUBSET Flags
    BY <1>3, <1>4
  <1> WITNESS page \in SUBSET Flags
  <1> QED BY <1>4, <1>6, <1>7, <1>8 DEF a, b, size, set

(***************************************************************************)
(* What a walk shows twice.                                                *)
(***************************************************************************)

(* A flag is dated when its creation begins, and keeps its date. *)
Dated ==
    \/ created_at' = created_at
    \/ \E f \in Flags \ Begun, now \in Nat \ {0} : created_at' = [created_at EXCEPT ![f] = now]

LEMMA DatesKept ==
  ASSUME Dates, Dated
  PROVE  /\ created_at' \in [Flags -> Nat]
         /\ Begun \subseteq Begun'
         /\ \A f \in Begun : created_at'[f] = created_at[f]
         /\ \A f, g \in Begun : Newer(g, f)' <=> Newer(g, f)
  <1>1. created_at \in [Flags -> Nat]
    BY DEF Dates
  <1>2. created_at' \in [Flags -> Nat] /\ \A f \in Begun : created_at'[f] = created_at[f]
    <2>1. CASE created_at' = created_at
      BY <1>1, <2>1
    <2>2. ASSUME NEW n \in Flags \ Begun, NEW now \in Nat \ {0},
                 created_at' = [created_at EXCEPT ![n] = now]
          PROVE  created_at' \in [Flags -> Nat] /\ \A f \in Begun : created_at'[f] = created_at[f]
      BY <1>1, <2>2 DEF Begun
    <2> QED BY <2>1, <2>2 DEF Dated
  <1>3. Begun \subseteq Begun'
    BY <1>2 DEF Begun
  <1>4. \A f, g \in Begun : Newer(g, f)' <=> Newer(g, f)
    BY <1>2 DEF Newer
  <1> QED BY <1>2, <1>3, <1>4

(* What the walk has seen stays seen, with its date. *)
LEMMA ListedKept ==
  ASSUME Inv, Observe, Dated, walk # None
  PROVE  /\ Listed \subseteq Listed'
         /\ Listed \subseteq Begun
         /\ seen.entered \subseteq seen'.entered /\ seen.left \subseteq seen'.left
         /\ \A f \in Begun : Tied(f) => Tied(f)'
         /\ \A f \in Begun : (\E g \in seen.entered : Newer(g, f)) =>
                              \E g \in seen'.entered : Newer(g, f)'
         /\ \A f \in Begun : (\E g \in seen.left : Newer(g, f)) =>
                              \E g \in seen'.left : Newer(g, f)'
  <1> DEFINE older == Matches(walk.filter)
             new == Matches(walk.filter)'
  <1>1. /\ seen'.stayed = seen.stayed \cap new
        /\ seen'.left = seen.left \cup (older \ new)
        /\ seen'.entered = seen.entered \cup (new \ older)
    BY DEF Observe
  <1>2. seen.stayed \subseteq older /\ Listed \subseteq Begun
    BY DEF Inv, History
  <1>3. Listed \subseteq Listed'
    BY <1>1, <1>2 DEF Listed
  <1>4. /\ \A f \in Begun : created_at'[f] = created_at[f]
        /\ \A f, g \in Begun : Newer(g, f)' <=> Newer(g, f)
    BY DatesKept DEF Inv
  <1>5. ASSUME NEW f \in Begun, Tied(f) PROVE Tied(f)'
    <2>1. PICK g \in Listed \ {f} : created_at[g] = created_at[f]
      BY <1>5 DEF Tied, Listed
    <2>2. g \in Listed' \ {f} /\ created_at'[g] = created_at'[f]
      BY <1>2, <1>3, <1>4, <2>1
    <2> QED BY <2>2 DEF Tied, Listed
  <1>6. seen.entered \subseteq Begun /\ seen.left \subseteq Begun
    BY <1>2 DEF Listed
  <1> QED BY <1>1, <1>2, <1>3, <1>4, <1>5, <1>6

LEMMA HistoryKept ==
  ASSUME Inv, Observe, Dated, stored' \subseteq Begun'
  PROVE  History'
  <1>1. walk' = walk
    BY DEF Observe
  <1> SUFFICES ASSUME walk # None PROVE History'
    BY <1>1 DEF History
  <1> DEFINE older == Matches(walk.filter)
             new == Matches(walk.filter)'
  <1>2. /\ seen'.stayed = seen.stayed \cap new
        /\ seen'.left = seen.left \cup (older \ new)
        /\ seen'.entered = seen.entered \cup (new \ older)
    BY DEF Observe
  <1>3. /\ seen.stayed \subseteq older /\ older \subseteq seen.stayed \cup seen.entered
        /\ Listed \subseteq Begun
    BY DEF Inv, History
  <1>4. new \subseteq Begun' /\ older \subseteq Begun /\ Begun \subseteq Begun'
    <2>1. new \subseteq stored' /\ older \subseteq stored
      BY DEF Matches
    <2> QED BY <2>1, DatesKept DEF Inv, Dates
  <1>5. Matches(walk.filter)' = new
    BY <1>1
  <1>6. /\ seen'.stayed \subseteq new
        /\ new \subseteq seen'.stayed \cup seen'.entered
    BY <1>2, <1>3
  <1>7. Listed' \subseteq Begun'
    BY <1>2, <1>3, <1>4 DEF Listed
  <1> QED BY <1>5, <1>6, <1>7 DEF History

(* A step of the flags, with the walk looking on. *)
LEMMA Observed ==
  ASSUME Inv, Observe, Dated, stored' \subseteq Begun'
  PROVE  Inv'
  <1>1. Dates'
    BY DatesKept DEF Inv, Dates
  <1>2. UNCHANGED <<walk, shown>>
    BY DEF Observe
  <1>3. Pages' /\ History'
    BY <1>2, HistoryKept DEF Inv, Pages
  <1>4. CASE walk = None
    <2>1. shown' = <<>>
      BY <1>2, <1>4 DEF Inv, Pages
    <2>2. Shifts' /\ WalkRepeatsOnlyShifted'
      BY <2>1 DEF Shifts, WalkRepeatsOnlyShifted
    <2> QED BY <1>1, <1>3, <2>2 DEF Inv
  <1>5. CASE walk # None
    <2> DEFINE older == Matches(walk.filter)
               new == Matches(walk.filter)'
    <2>1. seen'.entered = seen.entered \cup (new \ older)
      BY <1>5 DEF Observe
    <2>2. Begun \subseteq Begun' /\ \A f, g \in Begun : Newer(g, f)' <=> Newer(g, f)
      BY DatesKept DEF Inv
    <2>3. \A f \in Begun : /\ Tied(f) => Tied(f)'
                           /\ (\E g \in seen.entered : Newer(g, f)) =>
                                \E g \in seen'.entered : Newer(g, f)'
      BY <1>5, ListedKept
    <2>4. older \subseteq Begun
      BY DEF Matches, Inv, Dates
    <2>5. ASSUME NEW j \in DOMAIN shown, NEW f \in shown[j]
          PROVE  f \in Begun' /\ Behind(j, f)'
      <3>1. f \in Begun /\ Behind(j, f)
        BY <2>5 DEF Inv, Shifts
      <3>2. f \in Begun'
        BY <2>2, <3>1
      <3>3. CASE Tied(f) \/ \E g \in seen.entered : Newer(g, f)
        BY <2>3, <3>1, <3>2, <3>3 DEF Behind
      <3>4. CASE \E g \in seen'.entered : Newer(g, f)'
        BY <3>2, <3>4 DEF Behind
      <3>5. CASE /\ ~Tied(f) /\ ~\E g \in seen.entered : Newer(g, f)
                 /\ ~\E g \in seen'.entered : Newer(g, f)'
        <4>1. Place(f, Matches(walk.filter)) < j * walk.limit
          BY <3>1, <3>5 DEF Behind
        <4> DEFINE ahead == Ahead(f, Matches(walk.filter))
        <4>2. ahead' \subseteq ahead
          <5> SUFFICES ASSUME NEW g \in ahead'
                       PROVE  g \in ahead
            OBVIOUS
          <5>1. g \in new /\ Newer(g, f)'
            BY DEF Ahead
          <5>2. g \in older
            BY <2>1, <3>5, <5>1
          <5>3. Newer(g, f)
            BY <2>2, <2>4, <3>1, <5>1, <5>2
          <5> QED BY <5>2, <5>3 DEF Ahead
        <4>3. IsFiniteSet(ahead) /\ Cardinality(ahead) \in Nat
          BY PlaceInList DEF Inv, Place
        <4>4. Cardinality(ahead') <= Cardinality(ahead) /\ Cardinality(ahead') \in Nat
          BY <4>2, <4>3, FS_Subset, FS_CardinalityType
        <4>5. j * walk.limit \in Nat /\ walk' = walk
          <5>1. walk \in Walk /\ shown \in Seq(SUBSET Flags)
            BY <1>5 DEF Inv, Pages
          <5>2. walk.limit \in Nat /\ j \in Nat
            <6>1. walk.limit \in Nat
              BY <5>1, WalkFields
            <6>2. DOMAIN shown = 1 .. Len(shown) /\ Len(shown) \in Nat
              BY <5>1
            <6> QED BY <6>1, <6>2
          <5> QED BY <1>2, <5>2
        <4>6. Place(f, Matches(walk.filter))' = Cardinality(ahead')
              /\ Place(f, Matches(walk.filter)) = Cardinality(ahead)
          BY DEF Place
        <4>7. Place(f, Matches(walk.filter))' < j * walk.limit
          <5> HIDE DEF ahead
          <5> QED BY <4>1, <4>3, <4>4, <4>5, <4>6
        <4> QED BY <3>2, <4>5, <4>7 DEF Behind
      <3> QED BY <3>3, <3>4, <3>5
    <2>6. Shifts'
      BY <1>2, <2>5 DEF Shifts
    <2>7. WalkRepeatsOnlyShifted'
      <3> SUFFICES ASSUME NEW j \in DOMAIN shown, NEW k \in DOMAIN shown, j # k,
                          NEW f \in shown[j] \cap shown[k]
                   PROVE  Tied(f)' \/ \E g \in seen'.entered : Newer(g, f)'
        BY <1>2 DEF WalkRepeatsOnlyShifted
      <3>1. Tied(f) \/ \E g \in seen.entered : Newer(g, f)
        BY DEF Inv, WalkRepeatsOnlyShifted
      <3>2. f \in Begun
        BY DEF Inv, Shifts
      <3> QED BY <2>3, <3>1, <3>2
    <2> QED BY <1>1, <1>3, <2>6, <2>7 DEF Inv
  <1> QED BY <1>4, <1>5

(* A page is read: its flags have enough flags before them not to have     *)
(* been in an earlier one.                                                 *)
LEMMA PageKept ==
  ASSUME Inv, ReadPage
  PROVE  Inv'
  <1> DEFINE set == Matches(walk.filter)
  <1>1. /\ walk \in Walk /\ walk # None /\ shown \in Seq(SUBSET Flags)
        /\ Len(shown) = walk.page - 1
    BY DEF ReadPage, At, Inv, Pages
  <1>2. /\ walk.page \in Nat \ {0} /\ walk.limit \in Nat \ {0} /\ Len(shown) \in Nat
        /\ DOMAIN shown = 1 .. walk.page - 1
    BY <1>1, WalkFields
  <1>3. UNCHANGED <<created_at, stored, enabled, archived, seen>>
    BY DEF ReadPage, flags_vars
  <1>4. PICK page \in SUBSET Flags :
            /\ page \subseteq set
            /\ shown' = Append(shown, page)
            /\ walk' \in Walk /\ walk'.filter = walk.filter /\ walk'.limit = walk.limit
            /\ \/ walk'.at = "done" /\ walk'.page = walk.page
               \/ walk'.at = "project" /\ walk'.page = walk.page + 1
            /\ \A f \in set : Tied(f) \/ (f \in page => /\ Place(f, set) >= (walk.page - 1) * walk.limit
                                                        /\ Place(f, set) < walk.page * walk.limit)
    BY PageRead
  <1>5. /\ shown' \in Seq(SUBSET Flags) /\ Len(shown') = walk.page
        /\ DOMAIN shown' = 1 .. walk.page
        /\ \A j \in 1 .. walk.page - 1 : shown'[j] = shown[j]
        /\ shown'[walk.page] = page
    BY <1>1, <1>2, <1>4
  <1>6. Dates' /\ Pages'
    <2>1. Dates'
      BY <1>3 DEF Inv, Dates, Begun
    <2>2. Len(shown') <= walk'.page /\ (walk'.at # "done" => Len(shown') = walk'.page - 1)
      BY <1>2, <1>4, <1>5
    <2> QED BY <1>4, <1>5, <2>1, <2>2, NoneIsNoWalk DEF Pages
  <1>7. Matches(walk.filter)' = set
    BY <1>3, <1>4 DEF Matches
  <1>8. History'
    BY <1>1, <1>3, <1>7 DEF Inv, History, Listed, Begun
  <1>9. \A f \in set : f \in Begun /\ Place(f, set) \in Nat
    BY MatchesDated, PlaceInList DEF Inv
  <1>10. \A f : Tied(f)' = Tied(f) /\ \A g : Newer(g, f)' = Newer(g, f)
    BY <1>3 DEF Tied, Newer
  <1>11. \A f : Place(f, Matches(walk.filter))' = Place(f, set)
    BY <1>3, <1>7 DEF Place, Ahead, Newer
  <1> HIDE DEF set
  <1>12. Shifts'
    <2> SUFFICES ASSUME NEW j \in DOMAIN shown', NEW f \in shown'[j]
                 PROVE  f \in Begun' /\ Behind(j, f)'
      BY DEF Shifts
    <2>1. (f \in Begun /\ Behind(j, f)) => (f \in Begun' /\ Behind(j, f)')
      BY <1>3, <1>4, <1>10, <1>11 DEF Behind, Begun, set
    <2>2. CASE j \in DOMAIN shown
      BY <1>2, <1>5, <2>1, <2>2 DEF Inv, Shifts
    <2>3. CASE j \notin DOMAIN shown
      <3>1. j = walk.page /\ f \in page
        BY <1>2, <1>5, <2>3
      <3>2. f \in Begun /\ Behind(j, f)
        BY <1>4, <1>9, <3>1 DEF Behind, set
      <3> QED BY <2>1, <3>2
    <2> QED BY <2>2, <2>3
  <1>13. WalkRepeatsOnlyShifted'
    <2> SUFFICES ASSUME NEW j \in DOMAIN shown', NEW k \in DOMAIN shown', j # k,
                        NEW f \in shown'[j] \cap shown'[k]
                 PROVE  Tied(f) \/ \E g \in seen.entered : Newer(g, f)
      BY <1>3, <1>10 DEF WalkRepeatsOnlyShifted
    <2>1. CASE j \in DOMAIN shown /\ k \in DOMAIN shown
      BY <1>2, <1>5, <2>1 DEF Inv, WalkRepeatsOnlyShifted
    <2>2. ASSUME NEW i \in DOMAIN shown, f \in shown[i], f \in page, ~Tied(f)
          PROVE  \E g \in seen.entered : Newer(g, f)
      <3>1. Behind(i, f)
        BY <2>2 DEF Inv, Shifts
      <3>2. i <= walk.page - 1 /\ i \in Nat
        BY <1>2
      <3>3. i * walk.limit <= (walk.page - 1) * walk.limit
        BY <1>2, <3>2
      <3>4. Place(f, set) \in Nat /\ Place(f, set) >= (walk.page - 1) * walk.limit
        BY <1>4, <1>9, <2>2
      <3>5. i * walk.limit \in Nat /\ (walk.page - 1) * walk.limit \in Nat
        BY <1>2, <3>2
      <3>6. ~(Place(f, set) < i * walk.limit)
        BY <3>3, <3>4, <3>5
      <3> QED BY <2>2, <3>1, <3>6 DEF Behind, set
    <2>3. CASE ~(j \in DOMAIN shown /\ k \in DOMAIN shown)
      <3>1. \/ j = walk.page /\ k \in DOMAIN shown
            \/ k = walk.page /\ j \in DOMAIN shown
        BY <1>2, <1>5, <2>3
      <3> QED BY <1>2, <1>5, <2>2, <3>1
    <2> QED BY <2>1, <2>3
  <1> QED BY <1>6, <1>8, <1>12, <1>13 DEF Inv

(* Between two pages the walk checks the project and counts. *)
Advance ==
    /\ walk \in Walk /\ walk' \in Walk
    /\ walk'.filter = walk.filter /\ walk'.limit = walk.limit /\ walk'.page = walk.page
    /\ walk.at # "done" /\ walk'.at # "done"
    /\ UNCHANGED <<flags_vars, shown, seen>>

LEMMA WalkAdvances ==
  ASSUME Inv, ReadProject \/ Count
  PROVE  Advance
  <1> DEFINE counts == 0 .. Cardinality(Flags)
             next == Steps \ {"done"}
  <1>1. walk \in Walk /\ walk.at # "done" /\ UNCHANGED <<flags_vars, shown, seen>>
    BY DEF ReadProject, Count, At, Inv, Pages
  <1>2. Cardinality(Counted(walk.filter)) \in counts
    <2>1. Counted(walk.filter) \in SUBSET Flags
      BY DEF Counted, Inv, Dates, Begun
    <2>2. IsFiniteSet(Flags)
      BY ListParameters
    <2>3. /\ Cardinality(Counted(walk.filter)) <= Cardinality(Flags)
          /\ IsFiniteSet(Counted(walk.filter))
      BY <2>1, <2>2, FS_Subset
    <2> QED BY <2>2, <2>3, FS_CardinalityType
  <1>3. \/ walk' = [walk EXCEPT !.at = IF project_active THEN "count" ELSE "not_found"]
        \/ walk' = [walk EXCEPT !.at = "page", !.total = Cardinality(Counted(walk.filter))]
    BY DEF ReadProject, Count
  <1>4. "count" \in next /\ "not_found" \in next /\ "page" \in next
    BY DEF Steps
  <1>5. CASE \E s \in next : walk' = [walk EXCEPT !.at = s]
    <2>1. PICK s \in next : walk' = [walk EXCEPT !.at = s]
      BY <1>5
    <2> QED BY <1>1, <2>1, WalkMoves DEF Advance
  <1>6. CASE \E s \in next, n \in counts : walk' = [walk EXCEPT !.at = s, !.total = n]
    <2>1. PICK s \in next, n \in counts : walk' = [walk EXCEPT !.at = s, !.total = n]
      BY <1>6
    <2>2. s \in Steps /\ s # "done" /\ n \in 0 .. Cardinality(Flags)
      OBVIOUS
    <2> HIDE DEF counts, next
    <2>3. /\ [walk EXCEPT !.at = s, !.total = n] \in Walk
          /\ [walk EXCEPT !.at = s, !.total = n].filter = walk.filter
          /\ [walk EXCEPT !.at = s, !.total = n].limit = walk.limit
          /\ [walk EXCEPT !.at = s, !.total = n].page = walk.page
          /\ [walk EXCEPT !.at = s, !.total = n].at = s
      BY <1>1, <2>2, WalkCounts
    <2> QED BY <1>1, <2>1, <2>2, <2>3 DEF Advance
  <1> HIDE DEF counts, next
  <1> QED BY <1>2, <1>3, <1>4, <1>5, <1>6

(* The steps of the flags are observed. *)
LEMMA FlagSteps ==
  ASSUME Inv, NEW f \in Flags, BeginCreate(f) \/ CommitCreate(f) \/ Switch(f) \/ Archive(f)
  PROVE  Observe /\ Dated /\ stored' \subseteq Begun'
  <1>1. CASE BeginCreate(f)
    <2>1. Observe /\ stored' = stored /\ f \notin Begun
      BY <1>1 DEF BeginCreate
    <2>2. PICK now \in 1 .. Instants : created_at' = [created_at EXCEPT ![f] = now]
      BY <1>1 DEF BeginCreate
    <2>3. now \in Nat \ {0}
      BY ListParameters
    <2>4. Dated
      BY <2>1, <2>2, <2>3 DEF Dated
    <2>5. Begun \subseteq Begun'
      BY <2>4, DatesKept DEF Inv
    <2> QED BY <2>1, <2>4, <2>5 DEF Inv, Dates
  <1>2. CASE CommitCreate(f) \/ Switch(f) \/ Archive(f)
    <2>1. /\ Observe /\ created_at' = created_at
          /\ stored' = stored \/ (f \in Begun /\ stored' = stored \cup {f})
      BY <1>2 DEF CommitCreate, Switch, Archive
    <2>2. Begun' = Begun
      BY <2>1 DEF Begun
    <2> QED BY <2>1, <2>2 DEF Inv, Dates, Dated
  <1> QED BY <1>1, <1>2

LEMMA DeleteSteps ==
  ASSUME Inv, DeleteProject
  PROVE  Observe /\ Dated /\ stored' \subseteq Begun'
  BY DEF DeleteProject, Inv, Dates, Dated, Begun

LEMMA InvInit == ASSUME Init PROVE Inv
  <1>1. Dates
    BY ListParameters DEF Init, Dates
  <1> QED BY <1>1 DEF Init, Inv, Pages, History, Shifts, WalkRepeatsOnlyShifted

LEMMA InvNext == ASSUME Inv, [Next]_vars PROVE Inv'
  <1>1. ASSUME NEW f \in Flags, BeginCreate(f) \/ CommitCreate(f) \/ Switch(f) \/ Archive(f)
        PROVE  Inv'
    BY <1>1, FlagSteps, Observed
  <1>2. CASE DeleteProject
    BY <1>2, DeleteSteps, Observed
  <1>3. ASSUME NEW filter \in Filter, NEW limit \in Limits, Ask(filter, limit)
        PROVE  Inv'
    <2>1. walk = None /\ shown = <<>> /\ shown' = <<>>
      BY <1>3 DEF Ask, Inv, Pages
    <2>2. walk' \in Walk /\ walk'.page = 1 /\ walk'.filter = filter
      BY <1>3, ListParameters, FS_CardinalityType DEF Ask, Walk, Steps
    <2>3. Dates'
      BY <1>3 DEF Ask, flags_vars, Inv, Dates, Begun
    <2>4. History'
      <3>1. Matches(filter)' = Matches(filter) /\ Begun' = Begun
        BY <1>3 DEF Ask, flags_vars, Matches, Begun
      <3>2. seen' = [stayed |-> Matches(filter), left |-> {}, entered |-> {}]
        BY <1>3 DEF Ask
      <3>3. Matches(filter) \subseteq Begun
        BY MatchesDated DEF Inv
      <3> QED BY <2>2, <3>1, <3>2, <3>3 DEF History, Listed
    <2> QED BY <2>1, <2>2, <2>3, <2>4, NoneIsNoWalk
            DEF Inv, Pages, Shifts, WalkRepeatsOnlyShifted
  <1>4. ASSUME walk' \in Walk \/ walk' = None, walk' = None <=> walk = None,
               UNCHANGED <<created_at, stored, enabled, archived, shown, seen>>,
               walk'.filter = walk.filter, walk'.limit = walk.limit, walk'.page = walk.page,
               walk'.at # "done" => walk.at # "done"
        PROVE  Inv'
    <2>1. Dates' /\ Pages'
      BY <1>4 DEF Inv, Dates, Pages, Begun
    <2>2. Matches(walk.filter)' = Matches(walk.filter) /\ Begun' = Begun /\ Listed' = Listed
      BY <1>4 DEF Matches, Begun, Listed
    <2>3. \A f : /\ Tied(f)' = Tied(f)
                 /\ \A g : Newer(g, f)' = Newer(g, f)
                 /\ Place(f, Matches(walk.filter))' = Place(f, Matches(walk.filter))
      BY <1>4, <2>2 DEF Tied, Newer, Place, Ahead
    <2>4. History'
      BY <1>4, <2>2 DEF Inv, History
    <2>5. Shifts'
      BY <1>4, <2>2, <2>3 DEF Inv, Shifts, Behind
    <2>6. WalkRepeatsOnlyShifted'
      BY <1>4, <2>3 DEF Inv, WalkRepeatsOnlyShifted
    <2> QED BY <2>1, <2>4, <2>5, <2>6 DEF Inv
  <1>5. CASE ReadProject \/ Count
    BY <1>4, <1>5, WalkAdvances, NoneIsNoWalk DEF Advance, flags_vars
  <1>6. CASE UNCHANGED vars
    <2>1. UNCHANGED <<created_at, stored, enabled, archived, walk, shown, seen>>
      BY <1>6 DEF vars, flags_vars
    <2> QED BY <1>4, <2>1 DEF Inv, Pages
  <1> QED BY <1>1, <1>2, <1>3, <1>5, <1>6, PageKept DEF Next

(* A walk shows a flag twice only if a newer one entered the list while it *)
(* lasted or another had its date: offsets shift flags to later pages in   *)
(* no other way.                                                           *)
THEOREM RepeatsAreShifts == Spec => []WalkRepeatsOnlyShifted
  <1>1. Init => Inv
    BY InvInit
  <1>2. Inv /\ [Next]_vars => Inv'
    BY InvNext
  <1>3. Inv => WalkRepeatsOnlyShifted
    BY DEF Inv
  <1> QED BY <1>1, <1>2, <1>3, PTL DEF Spec

(***************************************************************************)
(* What a walk misses.                                                     *)
(***************************************************************************)

(* What the walk has not shown of the flags that matched all along is      *)
(* still behind the pages read, or a newer flag has left the list.         *)
Waits(f) ==
    \/ Tied(f)
    \/ \E g \in seen.left : Newer(g, f)
    \/ walk.at # "done" /\ Place(f, Matches(walk.filter)) >= Len(shown) * walk.limit
Awaited == walk # None => \A f \in seen.stayed \ UNION Range(shown) : Waits(f)

(* A step of the flags: a flag that waits either keeps the flags before it *)
(* or sees one of them leave.                                              *)
LEMMA ObservedWaits ==
  ASSUME Inv, Awaited, Observe, Dated, stored' \subseteq Begun'
  PROVE  Awaited'
  <1>1. walk' = walk /\ shown' = shown
    BY DEF Observe
  <1>2. CASE walk = None
    BY <1>1, <1>2 DEF Awaited
  <1>3. CASE walk # None
    <2> DEFINE older == Matches(walk.filter)
               new == Matches(walk.filter)'
    <2>1. /\ seen'.stayed = seen.stayed \cap new
          /\ seen'.left = seen.left \cup (older \ new)
      BY <1>3 DEF Observe
    <2>2. /\ seen.stayed \subseteq older
          /\ \A f \in seen.stayed \ UNION Range(shown) : Waits(f)
      BY <1>3 DEF Awaited, Inv, History
    <2>3. /\ older \subseteq Begun
          /\ \A f, g \in Begun : Newer(g, f)' <=> Newer(g, f)
      BY DatesKept, MatchesDated DEF Inv
    <2>4. \A f \in Begun : /\ Tied(f) => Tied(f)'
                           /\ (\E g \in seen.left : Newer(g, f)) =>
                                \E g \in seen'.left : Newer(g, f)'
      BY <1>3, ListedKept
    <2>5. IsFiniteSet(new)
      <3>1. created_at' \in [Flags -> Nat]
        BY DatesKept DEF Inv
      <3>2. new \in SUBSET Flags
        BY <3>1 DEF Matches, Begun
      <3> HIDE DEF new
      <3> QED BY <3>2, ListParameters, FS_Subset
    <2>6. ASSUME NEW f \in seen'.stayed \ UNION Range(shown)
          PROVE  Waits(f)'
      <3>1. f \in seen.stayed /\ Waits(f) /\ f \in Begun
        BY <2>1, <2>2, <2>3
      <3>2. CASE Tied(f) \/ \E g \in seen'.left : Newer(g, f)'
        BY <2>4, <3>1, <3>2 DEF Waits
      <3>3. CASE ~Tied(f) /\ ~\E g \in seen'.left : Newer(g, f)'
        <4> DEFINE ahead == Ahead(f, older)
                   then == Ahead(f, Matches(walk.filter))'
        <4>1. ~\E g \in seen.left : Newer(g, f)
          BY <2>4, <3>1, <3>3
        <4>2. walk.at # "done" /\ Place(f, older) >= Len(shown) * walk.limit
          BY <3>1, <3>3, <4>1 DEF Waits
        <4>3. then = {g \in new : Newer(g, f)'}
          BY DEF Ahead
        <4>4. ahead \subseteq then
          <5> SUFFICES ASSUME NEW g \in ahead
                       PROVE  g \in then
            OBVIOUS
          <5>1. g \in older /\ Newer(g, f)
            BY DEF Ahead
          <5>2. Newer(g, f)'
            BY <2>3, <3>1, <5>1
          <5>3. g \in new
            BY <2>1, <3>3, <5>1, <5>2
          <5> QED BY <4>3, <5>2, <5>3
        <4>5. IsFiniteSet(then)
          <5>1. then \subseteq new
            BY <4>3
          <5> HIDE DEF then, new
          <5> QED BY <2>5, <5>1, FS_Subset
        <4>6. /\ Cardinality(ahead) <= Cardinality(then)
              /\ Cardinality(ahead) \in Nat /\ Cardinality(then) \in Nat
          <5> HIDE DEF ahead, then
          <5>1. IsFiniteSet(ahead)
            BY <4>4, <4>5, FS_Subset
          <5> QED BY <4>4, <4>5, <5>1, FS_Subset, FS_CardinalityType
        <4>7. Len(shown) * walk.limit \in Nat
          <5>1. walk \in Walk /\ shown \in Seq(SUBSET Flags)
            BY <1>3 DEF Inv, Pages
          <5>2. walk.limit \in Nat /\ Len(shown) \in Nat
            BY <5>1, WalkFields
          <5> QED BY <5>2
        <4>8. Place(f, older) = Cardinality(ahead)
              /\ Place(f, Matches(walk.filter))' = Cardinality(then)
          BY DEF Place
        <4>9. Place(f, Matches(walk.filter))' >= Len(shown) * walk.limit
          <5> HIDE DEF ahead, then, older
          <5> QED BY <4>2, <4>6, <4>7, <4>8
        <4> QED BY <1>1, <4>2, <4>9 DEF Waits
      <3> QED BY <3>2, <3>3
    <2> QED BY <1>1, <1>3, <2>6 DEF Awaited
  <1> QED BY <1>2, <1>3

(* A page is read: what waits and is not on it is behind it, and nothing   *)
(* is behind the last one.                                                 *)
LEMMA PageWaits ==
  ASSUME Inv, Awaited, ReadPage
  PROVE  Awaited'
  <1> DEFINE set == Matches(walk.filter)
             size == Cardinality(set)
  <1>1. /\ walk \in Walk /\ walk.at = "page" /\ walk # None /\ shown \in Seq(SUBSET Flags)
        /\ Len(shown) = walk.page - 1 /\ walk.page \in Nat \ {0} /\ walk.limit \in Nat \ {0}
    BY WalkFields DEF ReadPage, At, Inv, Pages
  <1>2. UNCHANGED <<created_at, stored, enabled, archived, seen>>
    BY DEF ReadPage, flags_vars
  <1>3. PICK page \in SUBSET Flags :
            /\ shown' = Append(shown, page)
            /\ walk'.filter = walk.filter /\ walk'.limit = walk.limit
            /\ walk'.at = "done" => size < walk.page * walk.limit
            /\ \A f \in set :
                  Tied(f) \/ /\ Place(f, set) < size
                             /\ f \in page <=> /\ Place(f, set) >= (walk.page - 1) * walk.limit
                                               /\ Place(f, set) < walk.page * walk.limit
    <2>1. \E page \in SUBSET Flags :
            /\ shown' = Append(shown, page)
            /\ walk'.filter = walk.filter /\ walk'.limit = walk.limit
            /\ \/ walk'.at = "done" /\ size < walk.page * walk.limit
               \/ walk'.at = "project"
            /\ \A f \in set :
                  Tied(f) \/ /\ Place(f, set) < size
                             /\ f \in page <=> /\ Place(f, set) >= (walk.page - 1) * walk.limit
                                               /\ Place(f, set) < walk.page * walk.limit
      BY PageRead
    <2> HIDE DEF set, size
    <2> QED BY <2>1
  <1>4. /\ Len(shown') = walk.page
        /\ UNION Range(shown) \subseteq UNION Range(shown')
        /\ page \subseteq UNION Range(shown')
    <2>1. /\ Len(shown') = walk.page /\ DOMAIN shown' = 1 .. walk.page
          /\ DOMAIN shown = 1 .. walk.page - 1
          /\ \A j \in 1 .. walk.page - 1 : shown'[j] = shown[j]
          /\ shown'[walk.page] = page
      BY <1>1, <1>3
    <2>2. walk.page \in DOMAIN shown' /\ DOMAIN shown \subseteq DOMAIN shown'
      BY <1>1, <2>1
    <2>3. Range(shown) \subseteq Range(shown')
      BY <2>1, <2>2 DEF Range
    <2>4. page \in Range(shown')
      BY <2>1, <2>2 DEF Range
    <2> QED BY <2>1, <2>3, <2>4
  <1>5. Matches(walk.filter)' = set
    BY <1>2, <1>3 DEF Matches
  <1>6. seen.stayed \subseteq set /\ \A f \in set : Place(f, set) \in Nat
    BY <1>1, PlaceInList DEF Inv, History
  <1>7. size \in Nat /\ walk.page * walk.limit \in Nat /\ (walk.page - 1) * walk.limit \in Nat
    BY <1>1, MatchesDated DEF Inv
  <1>8. \A f : /\ Tied(f)' = Tied(f)
               /\ \A g : Newer(g, f)' = Newer(g, f)
               /\ Place(f, Matches(walk.filter))' = Place(f, set)
    BY <1>2, <1>5 DEF Tied, Newer, Place, Ahead
  <1> HIDE DEF set, size
  <1>9. ASSUME NEW f \in seen.stayed \ UNION Range(shown')
        PROVE  Waits(f)'
    <2>1. Waits(f) /\ f \in set /\ f \notin page
      BY <1>1, <1>4, <1>6 DEF Awaited
    <2>2. CASE Tied(f) \/ \E g \in seen.left : Newer(g, f)
      BY <1>2, <1>8, <2>2 DEF Waits
    <2>3. CASE ~Tied(f) /\ ~\E g \in seen.left : Newer(g, f)
      <3>1. Place(f, set) >= (walk.page - 1) * walk.limit
        BY <1>1, <2>1, <2>3 DEF Waits, set
      <3>2. ~(Place(f, set) < walk.page * walk.limit) /\ Place(f, set) < size
        BY <1>3, <2>1, <2>3, <3>1
      <3>3. Place(f, set) >= walk.page * walk.limit /\ walk'.at # "done"
        BY <1>3, <1>6, <1>7, <2>1, <3>2
      <3> QED BY <1>3, <1>4, <1>8, <3>3 DEF Waits
    <2> QED BY <2>2, <2>3
  <1> QED BY <1>2, <1>9 DEF Awaited

(* Nothing else changes what waits. *)
LEMMA OthersWait ==
  ASSUME Awaited, walk # None, UNCHANGED <<created_at, stored, enabled, archived, shown, seen>>,
         walk'.filter = walk.filter, walk'.limit = walk.limit,
         walk.at # "done" => walk'.at # "done"
  PROVE  Awaited'
  <1>1. Matches(walk.filter)' = Matches(walk.filter)
    BY DEF Matches
  <1>2. \A f : /\ Tied(f)' = Tied(f)
               /\ \A g : Newer(g, f)' = Newer(g, f)
               /\ Place(f, Matches(walk.filter))' = Place(f, Matches(walk.filter))
    BY <1>1 DEF Tied, Newer, Place, Ahead
  <1>3. ASSUME NEW f, Waits(f) PROVE Waits(f)'
    BY <1>2, <1>3 DEF Waits
  <1>4. \A f \in seen.stayed \ UNION Range(shown) : Waits(f)'
    BY <1>3 DEF Awaited
  <1>5. (\A f \in seen.stayed \ UNION Range(shown) : Waits(f))'
    BY <1>4
  <1> QED BY <1>5 DEF Awaited

LEMMA AwaitedInit == ASSUME Init PROVE Awaited
  BY DEF Init, Awaited

LEMMA AwaitedNext == ASSUME Inv, Awaited, [Next]_vars PROVE Awaited'
  <1>1. ASSUME NEW f \in Flags, BeginCreate(f) \/ CommitCreate(f) \/ Switch(f) \/ Archive(f)
        PROVE  Awaited'
    BY <1>1, FlagSteps, ObservedWaits
  <1>2. CASE DeleteProject
    BY <1>2, DeleteSteps, ObservedWaits
  <1>3. ASSUME NEW filter \in Filter, NEW limit \in Limits, Ask(filter, limit)
        PROVE  Awaited'
    <2>1. walk = None /\ shown = <<>> /\ shown' = <<>>
      BY <1>3 DEF Ask, Inv, Pages
    <2>2. /\ walk'.filter = filter /\ walk'.at = "project" /\ walk'.limit = limit
          /\ seen'.stayed = Matches(filter)
      BY <1>3 DEF Ask
    <2>3. ASSUME NEW f \in Matches(filter) PROVE Waits(f)'
      <3>1. Place(f, Matches(filter))' \in Nat
        <4>1. Place(f, Matches(filter))' = Place(f, Matches(filter))
          BY <1>3 DEF Ask, flags_vars, Place, Ahead, Newer, Matches
        <4> QED BY <4>1, PlaceInList DEF Inv
      <3>2. Len(shown') * walk'.limit = 0
        <4>1. limit \in 1 .. 100
          BY ListParameters
        <4> QED BY <2>1, <2>2, <4>1
      <3> QED BY <2>2, <3>1, <3>2 DEF Waits
    <2> QED BY <2>2, <2>3 DEF Awaited
  <1>4. CASE ReadProject \/ Count
    <2>1. /\ walk # None /\ walk'.filter = walk.filter /\ walk'.limit = walk.limit
          /\ walk.at # "done" /\ walk'.at # "done" /\ UNCHANGED <<flags_vars, shown, seen>>
      BY <1>4, WalkAdvances, NoneIsNoWalk DEF Advance
    <2> QED BY <2>1, OthersWait DEF flags_vars
  <1>5. CASE UNCHANGED vars
    <2>1. UNCHANGED <<created_at, stored, enabled, archived, walk, shown, seen>>
      BY <1>5 DEF vars, flags_vars
    <2>2. CASE walk = None
      BY <2>1, <2>2 DEF Awaited
    <2> QED BY <2>1, <2>2, OthersWait
  <1> QED BY <1>1, <1>2, <1>3, <1>4, <1>5, PageWaits DEF Next

(* A walk to the last page misses a flag that matched all along only if a  *)
(* newer one left the list meanwhile or another had its date: nothing else *)
(* moves a flag to a page that was read already.                           *)
THEOREM MissesAreShifts == Spec => []WalkMissesNoFlag
  <1>1. Init => Inv /\ Awaited
    BY InvInit, AwaitedInit
  <1>2. (Inv /\ Awaited) /\ [Next]_vars => (Inv /\ Awaited)'
    BY InvNext, AwaitedNext
  <1>3. Awaited => WalkMissesNoFlag
    BY DEF Awaited, WalkMissesNoFlag, Waits, At
  <1> QED BY <1>1, <1>2, <1>3, PTL DEF Spec

(***************************************************************************)
(* What lists and pages hold.                                              *)
(***************************************************************************)
Contents ==
    /\ archived \subseteq stored /\ enabled \subseteq stored /\ project_active \in BOOLEAN
    /\ \A k \in DOMAIN shown : /\ Cardinality(shown[k]) <= walk.limit
                               /\ shown[k] \subseteq walk.filter.found

LEMMA PageContents ==
  ASSUME Inv, Contents, ReadPage
  PROVE  Contents'
  <1>1. /\ walk \in Walk /\ shown \in Seq(SUBSET Flags)
        /\ Len(shown) = walk.page - 1 /\ walk.page \in Nat \ {0}
    BY WalkFields DEF ReadPage, At, Inv, Pages
  <1>2. UNCHANGED <<stored, enabled, archived, project_active>>
    BY DEF ReadPage, flags_vars
  <1>3. PICK page \in SUBSET Flags :
            /\ page \subseteq Matches(walk.filter)
            /\ Cardinality(page) <= walk.limit
            /\ shown' = Append(shown, page)
            /\ walk'.filter = walk.filter /\ walk'.limit = walk.limit
    BY PageRead
  <1>4. page \subseteq walk.filter.found
    BY <1>3 DEF Matches
  <1>5. /\ DOMAIN shown' = 1 .. walk.page /\ DOMAIN shown = 1 .. walk.page - 1
        /\ \A j \in 1 .. walk.page - 1 : shown'[j] = shown[j]
        /\ shown'[walk.page] = page
    BY <1>1, <1>3
  <1>6. ASSUME NEW k \in DOMAIN shown'
        PROVE  Cardinality(shown'[k]) <= walk.limit /\ shown'[k] \subseteq walk.filter.found
    <2>1. CASE k \in DOMAIN shown
      BY <1>5, <2>1 DEF Contents
    <2>2. CASE k \notin DOMAIN shown
      <3>1. k = walk.page
        BY <1>1, <1>5, <2>2
      <3> QED BY <1>3, <1>4, <1>5, <3>1
    <2> QED BY <2>1, <2>2
  <1>7. (archived \subseteq stored /\ enabled \subseteq stored /\ project_active \in BOOLEAN)'
    BY <1>2 DEF Contents
  <1>8. (\A k \in DOMAIN shown : /\ Cardinality(shown[k]) <= walk.limit
                                 /\ shown[k] \subseteq walk.filter.found)'
    BY <1>3, <1>6
  <1> QED BY <1>7, <1>8 DEF Contents

LEMMA ContentsNext == ASSUME Inv, Contents, [Next]_vars PROVE Contents'
  <1>1. ASSUME UNCHANGED <<shown, walk>>,
               (archived \subseteq stored /\ enabled \subseteq stored /\ project_active \in BOOLEAN)'
        PROVE  Contents'
    BY <1>1 DEF Contents
  <1>2. ASSUME NEW f \in Flags, BeginCreate(f) \/ CommitCreate(f) \/ Switch(f) \/ Archive(f)
        PROVE  Contents'
    <2>1. UNCHANGED <<shown, walk>> /\ project_active' = project_active
      BY <1>2 DEF BeginCreate, CommitCreate, Switch, Archive, Observe
    <2>2. (archived \subseteq stored /\ enabled \subseteq stored)'
      <3>1. CASE BeginCreate(f) \/ CommitCreate(f)
        BY <3>1 DEF BeginCreate, CommitCreate, Contents
      <3>2. CASE Switch(f)
        BY <3>2 DEF Switch, Contents
      <3>3. CASE Archive(f)
        BY <3>3 DEF Archive, Contents
      <3> QED BY <1>2, <3>1, <3>2, <3>3
    <2> QED BY <1>1, <2>1, <2>2 DEF Contents
  <1>3. CASE DeleteProject
    BY <1>1, <1>3 DEF DeleteProject, Observe, Contents
  <1>4. ASSUME NEW filter \in Filter, NEW limit \in Limits, Ask(filter, limit)
        PROVE  Contents'
    <2>1. shown' = <<>>
      BY <1>4 DEF Ask, Inv, Pages
    <2>2. UNCHANGED <<archived, stored, enabled, project_active>>
      BY <1>4 DEF Ask, flags_vars
    <2> QED BY <2>1, <2>2 DEF Contents
  <1>5. CASE ReadProject \/ Count
    <2>1. /\ walk'.filter = walk.filter /\ walk'.limit = walk.limit
          /\ UNCHANGED <<shown, archived, stored, enabled, project_active>>
      BY <1>5, WalkAdvances DEF Advance, flags_vars
    <2> QED BY <2>1 DEF Contents
  <1>6. CASE UNCHANGED vars
    BY <1>6 DEF vars, flags_vars, Contents
  <1> QED BY <1>2, <1>3, <1>4, <1>5, <1>6, PageContents DEF Next

(* Lists hold the flags of the project and pages no more flags than their  *)
(* limit, all of which the search finds.                                   *)
THEOREM TypeCorrect == Spec => []TypeOK
  <1>1. Init => Inv /\ Contents
    <2>1. Init => Contents
      BY DEF Init, Contents
    <2> QED BY <2>1, InvInit
  <1>2. (Inv /\ Contents) /\ [Next]_vars => (Inv /\ Contents)'
    BY InvNext, ContentsNext
  <1>3. Inv /\ Contents => TypeOK
    BY DEF Inv, Dates, Pages, Contents, TypeOK
  <1> QED BY <1>1, <1>2, <1>3, PTL DEF Spec
=============================================================================
