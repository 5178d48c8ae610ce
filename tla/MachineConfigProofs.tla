------------------------- MODULE MachineConfigProofs -------------------------
(***************************************************************************)
(* Lemmas about the operators of MachineConfig: what the recursively built *)
(* list of machine images holds, what the zones of a pool add up to, and   *)
(* what a hash tells of the disks.                                         *)
(***************************************************************************)
EXTENDS MachineConfig, FiniteSetsExt, FiniteSetTheorems, TLAPS

-----------------------------------------------------------------------------
(* Induction, on sets *)

LEMMA LeastNatural ==
    ASSUME NEW S \in SUBSET Nat, S # {}
    PROVE  \E m \in S : \A k \in S : m <= k
  <1> DEFINE T == {0 .. k : k \in S}
  <1>1. T # {}
    OBVIOUS
  <1>2. T \subseteq FiniteSubsetsOf(Nat)
    <2> SUFFICES ASSUME NEW k \in S PROVE 0 .. k \in FiniteSubsetsOf(Nat)
      OBVIOUS
    <2>1. IsFiniteSet(0 .. k)
      BY FS_Interval
    <2> QED
      BY <2>1 DEF FiniteSubsetsOf
  <1>3. PICK x \in T : \A y \in T : ~ (<<y, x>> \in StrictSubsetOrdering(Nat))
    BY <1>1, <1>2, FS_StrictSubsetOrderingWellFounded, WFMin
  <1>4. PICK m \in S : x = 0 .. m
    BY <1>3
  <1>5. ASSUME NEW k \in S, k < m PROVE FALSE
    <2>1. k \in Nat /\ m \in Nat
      OBVIOUS
    <2>2. 0 .. k \subseteq 0 .. m /\ 0 .. k # 0 .. m /\ 0 .. k \in T
      BY <1>5, <2>1
    <2>3. <<0 .. k, 0 .. m>> \in StrictSubsetOrdering(Nat)
      BY <2>1, <2>2 DEF StrictSubsetOrdering
    <2> QED
      BY <1>3, <1>4, <2>2, <2>3
  <1> QED
    BY <1>5

LEMMA SetInduction ==
    ASSUME NEW S, 0 \in S, \A n \in Nat : n \in S => n + 1 \in S
    PROVE  Nat \subseteq S
  <1> SUFFICES ASSUME Nat \ S # {} PROVE FALSE
    OBVIOUS
  <1>1. PICK m \in Nat \ S : \A k \in Nat \ S : m <= k
    BY LeastNatural
  <1>2. m # 0 /\ m - 1 \in Nat
    BY <1>1
  <1>3. m - 1 \in S
    BY <1>1, <1>2
  <1> QED
    BY <1>1, <1>2, <1>3

-----------------------------------------------------------------------------
(* Machine images *)

LEMMA FirstOfFound ==
    ASSUME NEW list, NEW found \in SUBSET Nat, found # {}
    PROVE  \E i \in found : FirstOf(list, found) = list[i]
  <1>1. \E i \in found : \A j \in found : i <= j
    BY LeastNatural
  <1> QED
    BY <1>1 DEF FirstOf

\* A list of images as the worker controller keeps it.
Listed(images) ==
    /\ images \in Seq({images[i] : i \in DOMAIN images})
    /\ \A i \in DOMAIN images : images[i] # Nil

LEMMA NothingListed == Listed(<<>>)
  BY DEF Listed

LEMMA ListedImage ==
    ASSUME NEW images, Listed(images), NEW image,
           \E i \in DOMAIN images : images[i].image = image
    PROVE  FindMachineImage(images, image) # Nil /\ FindMachineImage(images, image).image = image
  <1> DEFINE found == {i \in DOMAIN images : images[i].image = image}
  <1>1. found \in SUBSET Nat /\ found # {}
    BY DEF Listed
  <1>2. PICK i \in found : FindMachineImage(images, image) = images[i]
    BY <1>1, FirstOfFound DEF FindMachineImage
  <1> QED
    BY <1>2 DEF Listed

LEMMA FoundImage ==
    ASSUME NEW images, NEW image, FindMachineImage(images, image) # Nil
    PROVE  \E i \in DOMAIN images : images[i].image = image
  BY DEF FindMachineImage, FirstOf

\* What is found for a pool is an image of the name that the pool asks for.
LEMMA ImageOfPool ==
    ASSUME NEW profile, NEW images, Listed(images), NEW image, findMachineImage(profile, images, image) # Nil
    PROVE  findMachineImage(profile, images, image).image = image
  <1>1. CASE FindImageFromCloudProfile(profile, image) # Nil
    BY <1>1 DEF findMachineImage, FindImageFromCloudProfile
  <1>2. CASE FindImageFromCloudProfile(profile, image) = Nil
    BY <1>2, FoundImage, ListedImage DEF findMachineImage
  <1> QED
    BY <1>1, <1>2

LEMMA AppendedImage ==
    ASSUME NEW images, Listed(images), NEW new, new # Nil
    PROVE  LET all == appendMachineImage(images, new)
           IN  /\ Listed(all)
               /\ FindMachineImage(all, new.image) # Nil
               /\ \A image : FindMachineImage(images, image) # Nil => FindMachineImage(all, image) # Nil
  <1>1. CASE FindMachineImage(images, new.image) # Nil
    BY <1>1 DEF appendMachineImage
  <1>2. CASE FindMachineImage(images, new.image) = Nil
    <2> DEFINE all == Append(images, new)
               S == {images[i] : i \in DOMAIN images} \cup {new}
    <2>1. images \in Seq({images[i] : i \in DOMAIN images})
      BY DEF Listed
    <2>2. images \in Seq(S)
      BY <2>1
    <2>3. /\ all \in Seq(S) /\ DOMAIN all = 1 .. Len(images) + 1 /\ DOMAIN images = 1 .. Len(images)
          /\ Len(images) \in Nat
          /\ all[Len(images) + 1] = new /\ \A i \in DOMAIN images : all[i] = images[i]
      BY <2>2
    <2> HIDE DEF all, S
    <2>4. all \in Seq({all[i] : i \in DOMAIN all})
      BY <2>3
    <2>5. \A i \in DOMAIN all : all[i] # Nil
      <3> SUFFICES ASSUME NEW i \in DOMAIN all PROVE all[i] # Nil
        OBVIOUS
      <3>1. i = Len(images) + 1 \/ i \in DOMAIN images
        BY <2>3
      <3> QED
        BY <2>3, <3>1 DEF Listed
    <2>6. Listed(all)
      BY <2>4, <2>5 DEF Listed
    <2>7. Len(images) + 1 \in DOMAIN all /\ DOMAIN images \subseteq DOMAIN all
      BY <2>3
    <2>8. FindMachineImage(all, new.image) # Nil
      BY <2>3, <2>6, <2>7, ListedImage
    <2>9. ASSUME NEW image, FindMachineImage(images, image) # Nil
          PROVE  FindMachineImage(all, image) # Nil
      <3>1. PICK i \in DOMAIN images : images[i].image = image
        BY <2>9, FoundImage
      <3> QED
        BY <2>3, <2>6, <2>7, <3>1, ListedImage
    <2> QED
      BY <1>2, <2>6, <2>8, <2>9 DEF appendMachineImage, all
  <1> QED
    BY <1>1, <1>2

\* The list of the first images, for every number of them.
LEMMA ImageLists ==
    ASSUME NEW n \in Nat, NEW image
    PROVE  \E f : f = [i \in 0 .. n |-> IF i = 0 THEN <<>> ELSE appendMachineImage(f[i - 1], image[i])]
  <1> DEFINE Is(f, m) == f = [i \in 0 .. m |-> IF i = 0 THEN <<>> ELSE appendMachineImage(f[i - 1], image[i])]
             S == {m \in Nat : \E f : Is(f, m)}
  <1>1. 0 \in S
    <2>1. Is([i \in 0 .. 0 |-> <<>>], 0)
      OBVIOUS
    <2> QED
      BY <2>1
  <1>2. ASSUME NEW m \in Nat, m \in S PROVE m + 1 \in S
    <2>1. PICK f : Is(f, m)
      BY <1>2
    <2> DEFINE g == [i \in 0 .. m + 1 |-> IF i = m + 1 THEN appendMachineImage(f[m], image[m + 1]) ELSE f[i]]
    <2>2. ASSUME NEW i \in 0 .. m + 1
          PROVE  g[i] = IF i = 0 THEN <<>> ELSE appendMachineImage(g[i - 1], image[i])
      <3>1. CASE i = m + 1
        BY <3>1
      <3>2. CASE i = 0
        BY <2>1, <3>2
      <3>3. CASE i \in 1 .. m
        <4>1. i \in 0 .. m /\ i - 1 \in 0 .. m /\ i # m + 1 /\ i - 1 # m + 1 /\ i # 0 /\ i - 1 \in 0 .. m + 1
          BY <3>3
        <4>2. f[i] = appendMachineImage(f[i - 1], image[i])
          BY <2>1, <4>1
        <4> QED
          BY <4>1, <4>2
      <3> QED
        BY <3>1, <3>2, <3>3
    <2>3. Is(g, m + 1)
      <3>1. g = [i \in 0 .. m + 1 |-> g[i]]
        OBVIOUS
      <3> HIDE DEF g
      <3> QED
        BY <2>2, <3>1
    <2> HIDE DEF g, Is
    <2>4. \E h : Is(h, m + 1)
      BY <2>3
    <2> QED
      BY <2>4
  <1> HIDE DEF S
  <1>3. Nat \subseteq S
    BY <1>1, <1>2, SetInduction
  <1> QED
    BY <1>3 DEF S

\* The images that are generated hold an image for every pool.
LEMMA GeneratedImages ==
    ASSUME NEW w, NEW version, NEW profile, NEW auth, w.pools \in Seq({w.pools[i] : i \in DOMAIN w.pools}), Listed(w.machineImages),
           generateMachineConfig(w, version, profile, auth) # Nil
    PROVE  LET images == generateMachineConfig(w, version, profile, auth).images
           IN  Listed(images) /\ \A i \in DOMAIN w.pools : FindMachineImage(images, w.pools[i].image) # Nil
  <1> DEFINE n == Len(w.pools)
             Image(pool) == findMachineImage(profile, w.machineImages, pool.image)
             Is(f) == f = [i \in 0 .. n |->
                             IF i = 0 THEN <<>> ELSE appendMachineImage(f[i - 1], Image(w.pools[i]))]
             lists == CHOOSE f : Is(f)
  <1>1. n \in Nat /\ DOMAIN w.pools = 1 .. n
    OBVIOUS
  <1>2. /\ generateMachineConfig(w, version, profile, auth).images = lists[n]
        /\ \A i \in DOMAIN w.pools : Image(w.pools[i]) # Nil
    BY DEF generateMachineConfig
  <1> HIDE DEF n
  <1>3. Is(lists)
    <2> DEFINE image == [i \in 1 .. n |-> Image(w.pools[i])]
    <2>1. PICK f : f = [i \in 0 .. n |-> IF i = 0 THEN <<>> ELSE appendMachineImage(f[i - 1], image[i])]
      BY <1>1, ImageLists
    <2>2. \A i \in 0 .. n : i # 0 => i \in 1 .. n /\ image[i] = Image(w.pools[i])
      BY <1>1
    <2> HIDE DEF image, Image
    <2>3. Is(f)
      BY <2>1, <2>2
    <2> QED
      BY <2>3
  <1> HIDE DEF lists
  <1> DEFINE S == {m \in Nat : m <= n =>
                      /\ Listed(lists[m])
                      /\ \A i \in 1 .. m : FindMachineImage(lists[m], w.pools[i].image) # Nil}
  <1>4. 0 \in S
    <2>1. lists[0] = <<>>
      BY <1>1, <1>3
    <2> QED
      BY <2>1, NothingListed
  <1>5. ASSUME NEW m \in Nat, m \in S PROVE m + 1 \in S
    <2> SUFFICES ASSUME m + 1 <= n
                 PROVE  /\ Listed(lists[m + 1])
                        /\ \A i \in 1 .. m + 1 : FindMachineImage(lists[m + 1], w.pools[i].image) # Nil
      OBVIOUS
    <2> DEFINE new == Image(w.pools[m + 1])
    <2>1. Listed(lists[m]) /\ \A i \in 1 .. m : FindMachineImage(lists[m], w.pools[i].image) # Nil
      BY <1>1, <1>5
    <2>2. lists[m + 1] = appendMachineImage(lists[m], new)
      BY <1>1, <1>3
    <2>3. new # Nil /\ new.image = w.pools[m + 1].image
      BY <1>1, <1>2, ImageOfPool
    <2> HIDE DEF new
    <2>4. /\ Listed(lists[m + 1])
          /\ FindMachineImage(lists[m + 1], w.pools[m + 1].image) # Nil
          /\ \A image : FindMachineImage(lists[m], image) # Nil => FindMachineImage(lists[m + 1], image) # Nil
      BY <2>1, <2>2, <2>3, AppendedImage
    <2> QED
      BY <2>1, <2>4
  <1> HIDE DEF S
  <1>6. n \in S
    BY <1>1, <1>4, <1>5, SetInduction
  <1> QED
    BY <1>1, <1>2, <1>6 DEF S

-----------------------------------------------------------------------------
(* Data volumes *)

\* Volumes with names of their own can be sorted by them.
LEMMA SortedVolumes ==
    ASSUME NEW n \in Nat, NEW volumes, DOMAIN volumes = 1 .. n,
           \A i \in 1 .. n : volumes[i].name \in Int,
           \A i, j \in 1 .. n : volumes[i].name = volumes[j].name => i = j
    PROVE  LET sorted == SortedByName(volumes)
           IN  /\ sorted \in [1 .. n -> {volumes[i] : i \in 1 .. n}]
               /\ \A i, j \in 1 .. n : i < j => sorted[i].name < sorted[j].name
               /\ \A i \in 1 .. n : \E j \in 1 .. n : sorted[j] = volumes[i]
  <1> DEFINE D == 1 .. n
             name == [i \in D |-> volumes[i].name]
             Below(i) == {k \in D : name[k] <= name[i]}
             rank == [i \in D |-> Cardinality(Below(i))]
             sorted == [j \in D |-> volumes[CHOOSE i \in D : rank[i] = j]]
  <1>1. IsFiniteSet(D) /\ Cardinality(D) = n
    BY FS_Interval
  <1>2. \A i \in D : name[i] \in Int
    OBVIOUS
  <1>3. \A i, j \in D : name[i] = name[j] => i = j
    OBVIOUS
  <1> HIDE DEF name
  <1>4. ASSUME NEW i \in D
        PROVE  /\ IsFiniteSet(Below(i)) /\ Cardinality(Below(i)) \in 1 .. n
               /\ rank[i] = Cardinality(Below(i))
    <2>1. Below(i) \in SUBSET D /\ i \in Below(i)
      BY <1>2
    <2>2. IsFiniteSet(Below(i)) /\ Cardinality(Below(i)) <= n
      <3> HIDE DEF D, Below
      <3> QED
        BY <1>1, <2>1, FS_Subset
    <2>3. Cardinality(Below(i)) \in Nat /\ Cardinality(Below(i)) # 0
      BY <2>1, <2>2, FS_CardinalityType, FS_EmptySet
    <2> QED
      BY <2>2, <2>3
  <1>5. ASSUME NEW i \in D, NEW j \in D, name[i] < name[j]
        PROVE  rank[i] < rank[j]
    <2>1. Below(i) \in SUBSET Below(j) /\ j \in Below(j) /\ j \notin Below(i)
      BY <1>2, <1>5
    <2>2. Cardinality(Below(i)) <= Cardinality(Below(j)) /\ Cardinality(Below(i)) # Cardinality(Below(j))
      <3>1. IsFiniteSet(Below(j)) /\ Below(i) # Below(j)
        BY <1>4, <2>1
      <3> HIDE DEF Below
      <3> QED
        BY <2>1, <3>1, FS_Subset
    <2>3. /\ rank[i] = Cardinality(Below(i)) /\ Cardinality(Below(i)) \in 1 .. n
          /\ rank[j] = Cardinality(Below(j)) /\ Cardinality(Below(j)) \in 1 .. n
      BY <1>4
    <2> HIDE DEF rank, Below
    <2> QED
      BY <2>2, <2>3
  <1> HIDE DEF rank, Below
  <1>6. \A i \in D : rank[i] \in D
    BY <1>4
  <1>7. ASSUME NEW i \in D, NEW j \in D, rank[i] = rank[j]
        PROVE  i = j
    BY <1>2, <1>3, <1>5, <1>6, <1>7
  <1>8. rank \in Surjection(D, D)
    <2>1. rank \in [D -> D]
      BY <1>6 DEF rank
    <2>2. rank \in Injection(D, D)
      BY <1>7, <2>1 DEF Injection, IsInjective
    <2> QED
      BY <1>1, <2>2, FS_Injection
  <1>9. \A j \in D : \E i \in D : rank[i] = j
    BY <1>8 DEF Surjection
  <1>10. ASSUME NEW j \in D
         PROVE  \E i \in D : rank[i] = j /\ sorted[j] = volumes[i]
    BY <1>9
  <1>11. sorted \in [D -> {volumes[i] : i \in D}]
    BY <1>10
  <1>12. ASSUME NEW i \in D, NEW j \in D, i < j
         PROVE  sorted[i].name < sorted[j].name
    <2>1. PICK a \in D : rank[a] = i /\ sorted[i] = volumes[a]
      BY <1>10
    <2>2. PICK b \in D : rank[b] = j /\ sorted[j] = volumes[b]
      BY <1>10
    <2>3. name[a] < name[b]
      BY <1>2, <1>3, <1>5, <1>6, <1>12, <2>1, <2>2
    <2> QED
      BY <2>1, <2>2, <2>3 DEF name
  <1>13. ASSUME NEW i \in D
         PROVE  \E j \in D : sorted[j] = volumes[i]
    <2>1. rank[i] \in D
      BY <1>6
    <2>2. PICK a \in D : rank[a] = rank[i] /\ sorted[rank[i]] = volumes[a]
      BY <1>10, <2>1
    <2>3. a = i
      BY <1>7, <2>2
    <2> QED
      BY <2>1, <2>2, <2>3
  <1>14. \E s \in [D -> {volumes[i] : i \in D}] :
            /\ \A i, j \in DOMAIN s : i < j => s[i].name < s[j].name
            /\ \A i \in D : \E j \in DOMAIN s : s[j] = volumes[i]
    <2> HIDE DEF sorted
    <2>1. DOMAIN sorted = D
      BY <1>11
    <2> WITNESS sorted \in [D -> {volumes[i] : i \in D}]
    <2>2. \A i, j \in DOMAIN sorted : i < j => sorted[i].name < sorted[j].name
      BY <1>12, <2>1
    <2> QED
      BY <1>13, <2>1, <2>2
  <1> DEFINE Good(s) == /\ \A i, j \in DOMAIN s : i < j => s[i].name < s[j].name
                        /\ \A i \in D : \E j \in DOMAIN s : s[j] = volumes[i]
             R == [D -> {volumes[i] : i \in D}]
  <1>15. SortedByName(volumes) = CHOOSE s \in R : Good(s)
    BY DEF SortedByName
  <1>16. \E s \in R : Good(s)
    BY <1>14
  <1> HIDE DEF Good, sorted
  <1>17. SortedByName(volumes) \in R /\ Good(SortedByName(volumes))
    BY <1>15, <1>16
  <1> QED
    BY <1>17 DEF Good

\* Sizes and types, and how many there are of one.
Disks(volumes) == [i \in DOMAIN volumes |-> <<volumes[i].size, volumes[i].type>>]
Count(disks, x) == Cardinality({i \in DOMAIN disks : disks[i] = x})

\* Sorting keeps the disks: as many of each size and type.
LEMMA SameDisks ==
    ASSUME NEW n \in Nat, NEW volumes, DOMAIN volumes = 1 .. n,
           \A i \in 1 .. n : volumes[i].name \in Int,
           \A i, j \in 1 .. n : volumes[i].name = volumes[j].name => i = j,
           NEW x
    PROVE  /\ DOMAIN SortedByName(volumes) = DOMAIN volumes
           /\ Count(Disks(SortedByName(volumes)), x) = Count(Disks(volumes), x)
  <1> DEFINE sorted == SortedByName(volumes)
  <1>1. /\ sorted \in [1 .. n -> {volumes[i] : i \in 1 .. n}]
        /\ \A i, j \in 1 .. n : i < j => sorted[i].name < sorted[j].name
        /\ \A i \in 1 .. n : \E j \in 1 .. n : sorted[j] = volumes[i]
    BY SortedVolumes
  <1> HIDE DEF sorted
  <1>2. ASSUME NEW j \in 1 .. n
        PROVE  \E i \in 1 .. n : sorted[j] = volumes[i]
    <2>1. sorted[j] \in {volumes[i] : i \in 1 .. n}
      BY <1>1
    <2> QED
      BY <2>1
  <1>3. ASSUME NEW i \in 1 .. n, NEW j \in 1 .. n, sorted[i] = sorted[j]
        PROVE  i = j
    <2>1. sorted[i].name = sorted[j].name
      BY <1>3
    <2>2. ~(i < j) /\ ~(j < i)
      <3>1. sorted[i].name \in Int
        BY <1>2
      <3>2. /\ i < j => sorted[i].name < sorted[j].name
            /\ j < i => sorted[j].name < sorted[i].name
        BY <1>1
      <3> QED
        BY <2>1, <3>1, <3>2
    <2> QED
      BY <2>2
  <1> DEFINE S == {i \in 1 .. n : <<sorted[i].size, sorted[i].type>> = x}
             T == {i \in 1 .. n : <<volumes[i].size, volumes[i].type>> = x}
             place == [i \in T |-> CHOOSE j \in 1 .. n : sorted[j] = volumes[i]]
  <1>4. ASSUME NEW i \in T
        PROVE  place[i] \in 1 .. n /\ sorted[place[i]] = volumes[i]
    BY <1>1
  <1>5. place \in [T -> S]
    BY <1>4
  <1>6. \A i, j \in T : place[i] = place[j] => i = j
    <2> SUFFICES ASSUME NEW i \in T, NEW j \in T, place[i] = place[j]
                 PROVE  i = j
      OBVIOUS
    <2>1. volumes[i] = volumes[j]
      BY <1>4
    <2> QED
      BY <2>1
  <1>7. \A j \in S : \E i \in T : place[i] = j
    <2> SUFFICES ASSUME NEW j \in S PROVE \E i \in T : place[i] = j
      OBVIOUS
    <2>1. PICK i \in 1 .. n : sorted[j] = volumes[i]
      BY <1>2
    <2>2. i \in T
      BY <2>1
    <2>3. place[i] = j
      BY <1>3, <1>4, <2>1, <2>2
    <2> QED
      BY <2>2, <2>3
  <1> HIDE DEF place
  <1>8. place \in Bijection(T, S)
    BY <1>5, <1>6, <1>7 DEF Bijection, Injection, Surjection, IsInjective
  <1>9. T \in SUBSET (1 .. n) /\ IsFiniteSet(1 .. n)
    BY FS_Interval
  <1> HIDE DEF S, T
  <1>10. IsFiniteSet(T)
    BY <1>9, FS_Subset
  <1>11. Cardinality(S) = Cardinality(T)
    BY <1>8, <1>10, FS_Bijection DEF ExistsBijection
  <1>12. S = {i \in DOMAIN Disks(sorted) : Disks(sorted)[i] = x}
    BY <1>1 DEF S, Disks
  <1>13. T = {i \in DOMAIN Disks(volumes) : Disks(volumes)[i] = x}
    BY DEF T, Disks
  <1> QED
    BY <1>1, <1>11, <1>12, <1>13 DEF Count, sorted

-----------------------------------------------------------------------------
(* The zones of a pool *)

\* What the deployments have in a field, all together.
Total(field, mine) == MapThenSumSet(LAMBDA d : d[field], mine)
Have(field, value, mine) == {d \in mine : d[field] = value}

\* A set whose elements have one of two neighbouring values in a field.
LEMMA SumOfNeighbours ==
    ASSUME NEW S, IsFiniteSet(S), NEW field, NEW q \in Int, \A d \in S : d[field] \in {q, q + 1}
    PROVE  Total(field, S) = q * Cardinality(S) + Cardinality(Have(field, q + 1, S))
  <1> DEFINE More(s) == {d \in s : d[field] = q + 1}
             Expected(s) == q * Cardinality(s) + Cardinality(More(s))
             Adds(f) == f = [s \in SUBSET S |->
                               IF s = {} THEN 0
                               ELSE LET x == CHOOSE x \in s : TRUE IN x[field] + f[s \ {x}]]
             sum == CHOOSE f : Adds(f)
             total == [s \in SUBSET S |-> Expected(s)]
  <1>1. Total(field, S) = sum[S]
    BY DEF Total, MapThenSumSet, MapThenFoldSet
  <1>2. ASSUME NEW s \in SUBSET S
        PROVE  IsFiniteSet(s) /\ Cardinality(s) \in Nat /\ IsFiniteSet(More(s)) /\ Cardinality(More(s)) \in Nat
    <2>1. IsFiniteSet(s) /\ More(s) \in SUBSET s
      BY FS_Subset
    <2>2. IsFiniteSet(More(s))
      BY <2>1, FS_Subset
    <2> QED
      BY <2>1, <2>2, FS_CardinalityType
  <1>3. Expected({}) = 0
    <2>1. More({}) = {}
      OBVIOUS
    <2> QED
      BY <2>1, FS_EmptySet
  <1>4. ASSUME NEW s \in SUBSET S, NEW x \in s
        PROVE  Expected(s) = x[field] + Expected(s \ {x})
    <2>1. /\ IsFiniteSet(s) /\ Cardinality(s) \in Nat /\ Cardinality(s \ {x}) = Cardinality(s) - 1
      BY <1>2, FS_RemoveElement
    <2>2. Cardinality(More(s)) \in Nat /\ IsFiniteSet(More(s))
      BY <1>2
    <2>3. More(s \ {x}) = More(s) \ {x}
      OBVIOUS
    <2>4. CASE x[field] = q + 1
      <3>1. x \in More(s)
        BY <2>4
      <3> HIDE DEF More, Expected, Adds, sum, total
      <3>2. Cardinality(More(s) \ {x}) = Cardinality(More(s)) - 1
        BY <2>2, <3>1, FS_RemoveElement
      <3>3. Cardinality(More(s \ {x})) = Cardinality(More(s)) - 1
        BY <2>3, <3>2
      <3> QED
        BY <2>1, <2>2, <2>4, <3>3 DEF Expected
    <2>5. CASE x[field] = q
      <3>1. x \notin More(s)
        BY <2>5
      <3> HIDE DEF More
      <3>2. Cardinality(More(s \ {x})) = Cardinality(More(s))
        BY <2>2, <2>3, <3>1, FS_RemoveElement
      <3> QED
        BY <2>1, <2>2, <2>5, <3>2
    <2> QED
      BY <2>4, <2>5
  <1> HIDE DEF Expected
  <1>5. Adds(total)
    <2>1. ASSUME NEW s \in SUBSET S
          PROVE  total[s] = IF s = {} THEN 0 ELSE LET x == CHOOSE x \in s : TRUE IN x[field] + total[s \ {x}]
      <3>1. CASE s = {}
        BY <1>3, <3>1
      <3>2. CASE s # {}
        <4> DEFINE x == CHOOSE x \in s : TRUE
        <4>1. x \in s /\ s \ {x} \in SUBSET S
          BY <3>2
        <4> HIDE DEF x
        <4>2. total[s] = x[field] + total[s \ {x}]
          BY <1>4, <4>1
        <4> QED
          BY <3>2, <4>2 DEF x
      <3> QED
        BY <3>1, <3>2
    <2>2. total = [s \in SUBSET S |-> total[s]]
      OBVIOUS
    <2> HIDE DEF total
    <2> QED
      BY <2>1, <2>2
  <1>6. Adds(sum)
    <2> HIDE DEF Adds, total
    <2> QED
      BY <1>5
  <1> HIDE DEF sum
  <1>7. ASSUME sum[S] # total[S] PROVE FALSE
    <2> DEFINE Wrong == {s \in SUBSET S : sum[s] # total[s]}
    <2>1. Wrong # {} /\ Wrong \subseteq FiniteSubsetsOf(S)
      BY <1>2, <1>7 DEF FiniteSubsetsOf
    <2>2. PICK s \in Wrong : \A t \in Wrong : ~ (<<t, s>> \in StrictSubsetOrdering(S))
      BY <2>1, FS_StrictSubsetOrderingWellFounded, WFMin
    <2> DEFINE x == CHOOSE x \in s : TRUE
    <2>3. s # {}
      BY <1>5, <1>6
    <2>4. x \in s /\ s \ {x} \in SUBSET S
      BY <2>3
    <2>5. sum[s] = x[field] + sum[s \ {x}] /\ total[s] = x[field] + total[s \ {x}]
      BY <1>5, <1>6, <2>3
    <2> HIDE DEF x
    <2>6. <<s \ {x}, s>> \in StrictSubsetOrdering(S)
      BY <2>4 DEF StrictSubsetOrdering
    <2>7. s \ {x} \notin Wrong
      BY <2>2, <2>6
    <2> QED
      BY <2>4, <2>5, <2>7
  <1> QED
    BY <1>1, <1>7 DEF Expected, Have

LEMMA Division ==
    ASSUME NEW n \in Nat, n > 0, NEW a \in Nat
    PROVE  (a \div n) \in Nat /\ (a % n) \in 0 .. n - 1 /\ a = n * (a \div n) + (a % n)
  OBVIOUS

\* The nodes of n zones are the nodes of the pool.
LEMMA SharesAddUp ==
    ASSUME NEW n \in Nat, n > 0, NEW size \in Nat, NEW S, NEW field,
           NEW share \in Bijection(0 .. n - 1, S),
           \A i \in 0 .. n - 1 : share[i][field] = DistributeOverZones(i, size, n)
    PROVE  Total(field, S) = size
  <1> DEFINE q == size \div n
             r == size % n
             more == Have(field, q + 1, S)
             first == [i \in 0 .. r - 1 |-> share[i]]
  <1>1. q \in Nat /\ r \in 0 .. n - 1 /\ size = n * q + r
    BY Division
  <1>2. \A i \in 0 .. n - 1 : share[i][field] = IF i < r THEN q + 1 ELSE q
    BY <1>1 DEF DistributeOverZones
  <1> HIDE DEF q, r
  <1>3. /\ share \in [0 .. n - 1 -> S]
        /\ \A i, j \in 0 .. n - 1 : share[i] = share[j] => i = j
        /\ \A d \in S : \E i \in 0 .. n - 1 : share[i] = d
    BY DEF Bijection, Injection, Surjection, IsInjective
  <1>4. IsFiniteSet(0 .. n - 1) /\ Cardinality(0 .. n - 1) = n
    BY FS_Interval
  <1>5. IsFiniteSet(S) /\ Cardinality(S) = n
    BY <1>4, FS_Bijection DEF ExistsBijection
  <1>6. first \in Bijection(0 .. r - 1, more)
    <2>1. \A i \in 0 .. r - 1 : i \in 0 .. n - 1 /\ i < r
      BY <1>1
    <2>2. first \in [0 .. r - 1 -> more]
      BY <1>2, <1>3, <2>1 DEF Have
    <2>3. \A i, j \in 0 .. r - 1 : first[i] = first[j] => i = j
      BY <1>3, <2>1
    <2>4. ASSUME NEW d \in more PROVE \E i \in 0 .. r - 1 : first[i] = d
      <3>1. PICK i \in 0 .. n - 1 : share[i] = d
        BY <1>3 DEF Have
      <3>2. i < r
        BY <1>1, <1>2, <3>1 DEF Have
      <3> QED
        BY <1>1, <3>1, <3>2
    <2> HIDE DEF first, more
    <2> QED
      BY <2>2, <2>3, <2>4 DEF Bijection, Injection, Surjection, IsInjective
  <1>7. Cardinality(more) = r
    <2>1. r \in Nat /\ r - 1 \in Int
      BY <1>1
    <2>2. IsFiniteSet(0 .. r - 1)
      BY <2>1, FS_Interval
    <2>3. Cardinality(0 .. r - 1) = IF 0 > r - 1 THEN 0 ELSE (r - 1) - 0 + 1
      BY <2>1, FS_Interval
    <2>4. Cardinality(0 .. r - 1) = r
      BY <2>1, <2>3
    <2> HIDE DEF first, more
    <2> QED
      BY <1>6, <2>2, <2>4, FS_Bijection DEF ExistsBijection
  <1>8. \A d \in S : d[field] \in {q, q + 1}
    BY <1>2, <1>3
  <1>9. Total(field, S) = q * Cardinality(S) + Cardinality(more)
    <2>1. q \in Int /\ IsFiniteSet(S)
      BY <1>1, <1>5
    <2> QED
      BY <1>8, <2>1, SumOfNeighbours, Zenon
  <1> HIDE DEF more
  <1> QED
    BY <1>1, <1>5, <1>7, <1>9

\* A larger pool has no smaller share in any zone.
LEMMA SharesGrow ==
    ASSUME NEW n \in Nat, n > 0, NEW a \in Nat, NEW b \in Nat, a <= b, NEW i \in 0 .. n - 1
    PROVE  DistributeOverZones(i, a, n) <= DistributeOverZones(i, b, n)
  <1>1. /\ (a \div n) \in Nat /\ (a % n) \in 0 .. n - 1 /\ a = n * (a \div n) + (a % n)
        /\ (b \div n) \in Nat /\ (b % n) \in 0 .. n - 1 /\ b = n * (b \div n) + (b % n)
    BY Division
  <1>2. (a \div n) <= (b \div n)
    BY <1>1
  <1>3. (a \div n) = (b \div n) => (a % n) <= (b % n)
    BY <1>1
  <1> QED
    BY <1>1, <1>2, <1>3 DEF DistributeOverZones

\* What the deployments of a pool owe to it.
Shares(mine, pool) ==
    /\ Total("minimum", mine) = pool.minimum
    /\ Total("maximum", mine) = pool.maximum
    /\ \A d \in mine : d.minimum <= d.maximum
    /\ \A d, e \in mine : d.maximum <= e.maximum + 1

LEMMA ZonedPoolShares ==
    ASSUME NEW pool, NEW Z, pool.zones \in Seq(Z), pool.zones # <<>>,
           pool.minimum \in Nat, pool.maximum \in Nat, pool.minimum <= pool.maximum,
           \A j, k \in DOMAIN pool.zones : pool.zones[j] = pool.zones[k] => j = k
    PROVE  Shares({generateMachineDeployment(pool, i - 1) : i \in DOMAIN pool.zones}, pool)
  <1> DEFINE n == Len(pool.zones)
             share == [i \in 0 .. n - 1 |-> generateMachineDeployment(pool, i)]
             mine == {generateMachineDeployment(pool, i - 1) : i \in DOMAIN pool.zones}
  <1>1. n \in Nat /\ n > 0 /\ DOMAIN pool.zones = 1 .. n
    OBVIOUS
  <1>2. \A i \in 0 .. n - 1 :
          /\ share[i] = generateMachineDeployment(pool, i)
          /\ share[i].zone = pool.zones[i + 1]
          /\ share[i].minimum = DistributeOverZones(i, pool.minimum, n)
          /\ share[i].maximum = DistributeOverZones(i, pool.maximum, n)
    BY DEF generateMachineDeployment
  <1>3. \A i \in 0 .. n - 1 : i + 1 \in 1 .. n /\ (i + 1) - 1 = i
    BY <1>1
  <1>4. \A i \in 1 .. n : i - 1 \in 0 .. n - 1
    BY <1>1
  <1> HIDE DEF n
  <1>5. \A d \in mine : \E i \in 0 .. n - 1 : share[i] = d
    BY <1>1, <1>2, <1>4
  <1>6. \A i \in 0 .. n - 1 : share[i] \in mine
    <2> SUFFICES ASSUME NEW i \in 0 .. n - 1 PROVE share[i] \in mine
      OBVIOUS
    <2>1. i + 1 \in DOMAIN pool.zones /\ share[i] = generateMachineDeployment(pool, (i + 1) - 1)
      BY <1>1, <1>2, <1>3
    <2> QED
      BY <2>1
  <1>7. \A i, j \in 0 .. n - 1 : share[i] = share[j] => i = j
    <2> SUFFICES ASSUME NEW i \in 0 .. n - 1, NEW j \in 0 .. n - 1, share[i] = share[j]
                 PROVE  i = j
      OBVIOUS
    <2>1. pool.zones[i + 1] = pool.zones[j + 1]
      BY <1>2
    <2>2. i + 1 = j + 1
      BY <1>1, <1>3, <2>1
    <2> QED
      BY <1>1, <2>2
  <1>8. DOMAIN share = 0 .. n - 1 /\ share = [i \in 0 .. n - 1 |-> share[i]]
    OBVIOUS
  <1> HIDE DEF share, mine
  <1>9. share \in Bijection(0 .. n - 1, mine)
    BY <1>5, <1>6, <1>7, <1>8 DEF Bijection, Injection, Surjection, IsInjective
  <1>10. Total("minimum", mine) = pool.minimum
    <2>1. \A i \in 0 .. n - 1 : share[i]["minimum"] = DistributeOverZones(i, pool.minimum, n)
      BY <1>2
    <2> QED
      BY <1>1, <1>9, <2>1, SharesAddUp
  <1>11. Total("maximum", mine) = pool.maximum
    <2>1. \A i \in 0 .. n - 1 : share[i]["maximum"] = DistributeOverZones(i, pool.maximum, n)
      BY <1>2
    <2> QED
      BY <1>1, <1>9, <2>1, SharesAddUp
  <1>12. \A d \in mine : d.minimum <= d.maximum
    BY <1>1, <1>2, <1>5, SharesGrow
  <1>13. \A d, e \in mine : d.maximum <= e.maximum + 1
    <2>1. pool.maximum \div n \in Nat /\ pool.maximum % n \in Nat
      BY <1>1, Division
    <2>2. \A i, j \in 0 .. n - 1 :
             DistributeOverZones(i, pool.maximum, n) <= DistributeOverZones(j, pool.maximum, n) + 1
      BY <1>1, <2>1 DEF DistributeOverZones
    <2> QED
      BY <1>2, <1>5, <2>2
  <1> QED
    BY <1>10, <1>11, <1>12, <1>13 DEF Shares, mine

\* A pool with one deployment.
LEMMA OneShare ==
    ASSUME NEW d, NEW pool, d.minimum = pool.minimum, d.maximum = pool.maximum,
           pool.minimum \in Nat, pool.maximum \in Nat, pool.minimum <= pool.maximum
    PROVE  Shares({d}, pool)
  <1>1. IsFiniteSet({d}) /\ Cardinality({d}) = 1
    BY FS_Singleton
  <1>2. ASSUME NEW field, NEW q \in Nat, d[field] = q
        PROVE  Total(field, {d}) = q
    <2>1. Have(field, q + 1, {d}) = {}
      BY <1>2 DEF Have
    <2>2. \A e \in {d} : e[field] \in {q, q + 1}
      BY <1>2
    <2>3. q \in Int /\ IsFiniteSet({d})
      BY <1>1
    <2>4. Total(field, {d}) = q * Cardinality({d}) + Cardinality(Have(field, q + 1, {d}))
      BY <2>2, <2>3, SumOfNeighbours, Zenon
    <2>5. Cardinality({d}) = 1 /\ Cardinality(Have(field, q + 1, {d})) = 0
      BY <1>1, <2>1, FS_EmptySet
    <2>6. q * 1 + 0 = q
      OBVIOUS
    <2> QED
      BY <2>4, <2>5, <2>6
  <1>3. Total("minimum", {d}) = pool.minimum
    BY <1>2
  <1>4. Total("maximum", {d}) = pool.maximum
    BY <1>2
  <1> QED
    BY <1>3, <1>4 DEF Shares
=============================================================================
