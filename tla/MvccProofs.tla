----------------------------- MODULE MvccProofs -----------------------------
(***************************************************************************)
(* Proofs about the state database, for any keys, values and handles: what *)
(* is read through a handle is its snapshot (ReadsSnapshot), what it       *)
(* stands on can be checked out (Available), and all of it implements the  *)
(* versioned store (ImplementsVersionedStore).                             *)
(***************************************************************************)
EXTENDS MvccDB, SequenceTheorems, TLAPS

\* Time for the provers on a slow machine.
USE ZenonT(40), SMTT(40)

\* The chain of a layer: what is linked is part of the history, histories are closed,
\* and the links of a layer on the chain are the older part of the chain.
Links ==
    \A x \in Layer :
        /\ x \in link[x] /\ x \in line[x] /\ link[x] \subseteq line[x]
        /\ \A y \in line[x] : y <= x /\ line[y] \subseteq line[x]
        /\ \A z \in link[x] : link[z] = {y \in link[x] : y <= z}

\* A stage is written by its handle only: no layer was forked from it, it is not a
\* commit, and no other handle has it.  A key that a pending Get has not found in the
\* cache is not in the cache.
Leaves ==
    \A h \in Handle : stage[h] # 0 =>
        /\ head[h] # 0 /\ stage[h] \notin tags
        /\ \A x \in Layer : stage[h] \in line[x] => x = stage[h]
        /\ \A g \in Handle : head[g] # stage[h] /\ (stage[g] = stage[h] => g = h)
        /\ rd[h] # Unset => Holding(stage[h], rd[h]) = {}

\* Commits are made after those they build on, and layers that build on a commit
\* which builds on the durable one are still linked to it.
Ordered ==
    /\ tags = Range(commits)
    /\ \A i, j \in DOMAIN commits : commits[j] \in line[commits[i]] => j <= i
    /\ \A t \in tags, x \in Layer : t \in line[x] /\ diskTag \in line[t] => t \in link[x]
    /\ \A h \in Handle : Open(h) /\ Live(head[h]) => head[h] \in tags

\* Reading: there is a nearest layer, and the storage is the durable commit.
HasNearest(x, k) ==
    Holding(x, k) # {} => \E y \in Holding(x, k) : \A z \in Holding(x, k) : z <= y

Reads ==
    /\ \A x \in Layer : \A k \in Key : HasNearest(x, k)
    /\ \A x \in Layer : Live(x) => \A k \in Key : Get(x, k) = snap[x][k]
    /\ storage = snap[diskTag]

MInv == MTypeOK /\ Links /\ Leaves /\ Ordered /\ Reads

-----------------------------------------------------------------------------
(* Lemmas about sets of numbers and sequences. *)

\* What CHOOSE gives for the greatest member.
LEMMA ChooseGreatest ==
    ASSUME NEW S, S \subseteq Int, NEW y \in S, \A z \in S : z <= y
    PROVE  (CHOOSE w \in S : \A z \in S : z <= w) = y
<1>1. \A w \in S : (\A z \in S : z <= w) => w = y
  BY SMTT(40)
<1>2. QED
  BY <1>1

\* A function on 1..n is a sequence of length n.
LEMMA FunctionSeq ==
    ASSUME NEW n \in Nat, NEW S, NEW f \in [1..n -> S]
    PROVE  f \in Seq(S) /\ Len(f) = n /\ DOMAIN f = 1..n
  BY SMTT(40)

LEMMA AppendSeq ==
    ASSUME NEW S, NEW s \in Seq(S), NEW T, S \subseteq T, NEW e \in T
    PROVE  /\ Append(s, e) \in Seq(T)
           /\ DOMAIN Append(s, e) = 1 .. (Len(s) + 1)
           /\ Len(Append(s, e)) = Len(s) + 1
           /\ \A i \in 1 .. Len(s) : Append(s, e)[i] = s[i]
           /\ Append(s, e)[Len(s) + 1] = e
  BY SMTT(40)

\* The type invariant, layer by layer.
LEMMA LayerTypes ==
    ASSUME MTypeOK
    PROVE  /\ Len(data) \in Nat /\ Layer = 1 .. Len(data) /\ Layer \subseteq Int
           /\ Len(link) = Len(data) /\ Len(line) = Len(data) /\ Len(snap) = Len(data)
           /\ \A x \in Layer : /\ data[x] \in [Key -> Item \cup {Unset}]
                               /\ link[x] \subseteq Layer
                               /\ line[x] \subseteq Layer
                               /\ snap[x] \in [Key -> Item]
<1>1. Len(data) \in Nat /\ Layer = 1 .. Len(data)
  BY SMTT(40) DEF MTypeOK, Layer
<1>2. Len(link) = Len(data) /\ Len(line) = Len(data) /\ Len(snap) = Len(data)
  BY SMTT(40), <1>1 DEF MTypeOK, Layer
<1>3. ASSUME NEW x \in Layer
      PROVE  /\ data[x] \in [Key -> Item \cup {Unset}]
             /\ link[x] \subseteq Layer
             /\ line[x] \subseteq Layer
             /\ snap[x] \in [Key -> Item]
  BY SMTT(40), <1>1, <1>2 DEF MTypeOK
<1>4. QED
  BY SMTT(40), <1>1, <1>2, <1>3

-----------------------------------------------------------------------------
(* Put. *)

\* What Put changes: one item of the handle's stage, and of its snapshot.
LEMMA PutChanges ==
    ASSUME MTypeOK, Leaves, NEW h \in Handle, NEW k \in Key, NEW i \in Item, Put(h, k, i)
    PROVE  /\ MTypeOK' /\ Layer' = Layer /\ stage[h] \in Layer
           /\ data'[stage[h]][k] = i /\ snap'[stage[h]][k] = i
           /\ \A x \in Layer, l \in Key : x # stage[h] \/ l # k =>
                 data'[x][l] = data[x][l] /\ snap'[x][l] = snap[x][l]
<1>1. stage[h] \in Layer
  BY DEF MTypeOK, Put, Open
<1>2. data' \in Seq([Key -> Item \cup {Unset}]) /\ DOMAIN data' = DOMAIN data
  <2>1. data[stage[h]] \in [Key -> Item \cup {Unset}]
    BY <1>1, LayerTypes
  <2>2. data' = [data EXCEPT ![stage[h]] = [data[stage[h]] EXCEPT ![k] = i]]
    BY DEF Put
  <2>3. [data[stage[h]] EXCEPT ![k] = i] \in [Key -> Item \cup {Unset}]
    BY <2>1
  <2>4. QED
    BY SMTT(40), <1>1, <2>2, <2>3 DEF MTypeOK, Layer
<1>3. snap' \in Seq([Key -> Item]) /\ DOMAIN snap' = DOMAIN snap
  <2>1. snap[stage[h]] \in [Key -> Item]
    BY <1>1, LayerTypes
  <2>2. snap' = [snap EXCEPT ![stage[h]] = [snap[stage[h]] EXCEPT ![k] = i]]
    BY DEF Put
  <2>3. [snap[stage[h]] EXCEPT ![k] = i] \in [Key -> Item]
    BY <2>1
  <2>4. QED
    BY SMTT(40), <1>1, <2>2, <2>3 DEF MTypeOK, Layer
<1>4. Layer' = Layer
  BY <1>2 DEF Layer
<1>5. MTypeOK'
  BY <1>2, <1>3, <1>4 DEF MTypeOK, Put, dbVars
<1>6. data'[stage[h]][k] = i /\ snap'[stage[h]][k] = i
  BY <1>1, LayerTypes DEF Put, MTypeOK, Layer
<1>7. ASSUME NEW x \in Layer, NEW l \in Key, x # stage[h] \/ l # k
      PROVE  data'[x][l] = data[x][l] /\ snap'[x][l] = snap[x][l]
  BY <1>1, <1>7, LayerTypes DEF Put, MTypeOK, Layer
<1>8. QED
  BY <1>1, <1>4, <1>5, <1>6, <1>7

\* What is found in a layer other than the stage, or under another key, is the same;
\* the item put is the nearest one for the handle itself.
LEMMA PutReads ==
    ASSUME MInv, NEW h \in Handle, NEW k \in Key, NEW i \in Item, Put(h, k, i)
    PROVE  Leaves' /\ Reads'
<1> USE DEF MInv
<1>1. /\ MTypeOK' /\ Layer' = Layer /\ stage[h] \in Layer /\ Layer \subseteq Int
      /\ data'[stage[h]][k] = i /\ snap'[stage[h]][k] = i
      /\ \A x \in Layer, l \in Key : x # stage[h] \/ l # k =>
            data'[x][l] = data[x][l] /\ snap'[x][l] = snap[x][l]
  BY SMTT(40), PutChanges, LayerTypes
<1>2. i # Unset
  BY MvccAssumption
<1>3. /\ UNCHANGED <<storage, diskTag, link, line, commits, tags, head, stage, rd>>
      /\ stage[h] # 0 /\ rd[h] = Unset
  BY DEF Put, dbVars, Open
<1>4. \A x \in Layer : link[x] \subseteq Layer /\ link[x] \subseteq line[x]
  BY LayerTypes DEF Links
<1>5. ASSUME NEW x \in Layer, NEW l \in Key, x # stage[h] \/ l # k
      PROVE  Holding(x, l)' = Holding(x, l) /\ \A y \in Holding(x, l) : data'[y][l] = data[y][l]
  <2>1. ASSUME NEW y \in link[x] PROVE data'[y][l] = data[y][l]
    <3>1. y \in Layer /\ (y # stage[h] \/ l # k)
      BY SMTT(40), <1>3, <1>4, <1>5 DEF Leaves
    <3>2. QED
      BY <1>1, <3>1
  <2>2. QED
    BY <1>3, <2>1 DEF Holding
<1>6. ASSUME NEW x \in Layer, NEW l \in Key, x # stage[h] \/ l # k
      PROVE  Get(x, l)' = Get(x, l) /\ snap'[x][l] = snap[x][l] /\ HasNearest(x, l)'
  <2>1. Holding(x, l)' = Holding(x, l) /\ \A y \in Holding(x, l) : data'[y][l] = data[y][l]
    BY <1>5, <1>6
  <2>2. HasNearest(x, l)
    BY DEF Reads
  <2>3. Holding(x, l) \subseteq Int
    BY <1>1, <1>4 DEF Holding
  <2>4. CASE Holding(x, l) = {}
    BY <1>1, <1>3, <1>6, <2>1, <2>4 DEF Get, HasNearest
  <2>5. CASE Holding(x, l) # {}
    <3>1. PICK y \in Holding(x, l) : \A z \in Holding(x, l) : z <= y
      BY <2>2, <2>5 DEF HasNearest
    <3>2. Nearest(x, l) = y /\ Nearest(x, l)' = y
      BY <2>1, <2>3, <3>1, ChooseGreatest DEF Nearest
    <3>3. Get(x, l)' = Get(x, l)
      BY <2>1, <2>5, <3>2 DEF Get
    <3>4. QED
      BY <1>1, <1>6, <2>1, <3>1, <3>3 DEF HasNearest
  <2>6. QED
    BY <2>4, <2>5
<1>7. Get(stage[h], k)' = i /\ HasNearest(stage[h], k)'
  <2>1. stage[h] \in Holding(stage[h], k)'
    BY <1>1, <1>2, <1>3 DEF Holding, Links
  <2>2. Holding(stage[h], k)' \subseteq Int /\ \A z \in Holding(stage[h], k)' : z <= stage[h]
    BY <1>1, <1>3, <1>4 DEF Holding, Links
  <2>3. Nearest(stage[h], k)' = stage[h]
    BY <1>3, <2>1, <2>2, ChooseGreatest DEF Nearest
  <2>4. Get(stage[h], k)' = i
    BY <1>1, <1>3, <2>1, <2>3 DEF Get
  <2>5. HasNearest(stage[h], k)'
    BY <1>3, <2>1, <2>2 DEF HasNearest
  <2>6. QED
    BY <2>4, <2>5
<1>8. Reads'
  <2>1. \A x \in Layer', l \in Key : HasNearest(x, l)'
    BY <1>1, <1>3, <1>6, <1>7
  <2>2. ASSUME NEW x \in Layer', Live(x)', NEW l \in Key PROVE Get(x, l)' = snap'[x][l]
    <3>1. x \in Layer /\ Live(x)
      BY <1>1, <1>3, <2>2 DEF Live
    <3>2. CASE x = stage[h] /\ l = k
      BY <1>1, <1>3, <1>7, <3>2
    <3>3. CASE x # stage[h] \/ l # k
      BY <1>6, <3>1, <3>3 DEF Reads
    <3>4. QED
      BY <3>2, <3>3
  <2>3. storage' = snap'[diskTag']
    <3>1. diskTag \in Layer /\ diskTag # stage[h]
      BY SMTT(40), <1>3 DEF MTypeOK, Leaves, Ordered
    <3>2. snap'[diskTag] = snap[diskTag]
      BY <1>1, <1>3, <3>1 DEF Put, MTypeOK, Layer
    <3>3. QED
      BY <1>3, <3>2 DEF Reads
  <2>4. QED
    BY <2>1, <2>2, <2>3 DEF Reads
<1>9. Leaves'
  <2>1. ASSUME NEW g \in Handle, stage[g] # 0, rd[g] # Unset
        PROVE  Holding(stage[g], rd[g])' = {}
    <3>1. g # h /\ stage[g] # stage[h] /\ stage[g] \in Layer /\ rd[g] \in Key
      BY <1>3, <2>1 DEF Leaves, MTypeOK
    <3>2. Holding(stage[g], rd[g])' = Holding(stage[g], rd[g])
      BY SMTT(40), <1>3, <1>5, <3>1 DEF Holding
    <3>3. QED
      BY <2>1, <3>2 DEF Leaves
  <2>2. QED
    BY <1>1, <1>3, <2>1 DEF Leaves
<1>10. QED
  BY <1>8, <1>9

LEMMA PutStep ==
    ASSUME MInv, NEW h \in Handle, NEW k \in Key, NEW i \in Item, Put(h, k, i)
    PROVE  MInv'
<1>1. MTypeOK' /\ Layer' = Layer
  BY PutChanges DEF MInv
<1>2. UNCHANGED <<storage, diskTag, link, line, commits, tags, head, stage, rd>>
  BY DEF Put, dbVars
<1>3. Links'
  BY <1>1, <1>2 DEF MInv, Links
<1>4. Ordered'
  BY <1>1, <1>2 DEF MInv, Ordered, Open, Live
<1>5. QED
  BY <1>1, <1>3, <1>4, PutReads DEF MInv

-----------------------------------------------------------------------------
(* Fork. *)

\* Fork adds one empty layer and leaves the others.
LEMMA ForkChanges ==
    ASSUME MTypeOK, NEW c \in Layer, Fork(c)
    PROVE  /\ NewLayer \in Int /\ NewLayer # 0
           /\ Layer' = Layer \cup {NewLayer}
           /\ \A x \in Layer : x < NewLayer
           /\ \A x \in Layer : /\ data'[x] = data[x] /\ link'[x] = link[x]
                               /\ line'[x] = line[x] /\ snap'[x] = snap[x]
           /\ data'[NewLayer] = [k \in Key |-> Unset]
           /\ link'[NewLayer] = link[c] \cup {NewLayer}
           /\ line'[NewLayer] = line[c] \cup {NewLayer}
           /\ snap'[NewLayer] = snap[c]
           /\ data' \in Seq([Key -> Item \cup {Unset}])
           /\ link' \in Seq(SUBSET Layer') /\ line' \in Seq(SUBSET Layer')
           /\ snap' \in Seq([Key -> Item])
           /\ DOMAIN link' = Layer' /\ DOMAIN line' = Layer' /\ DOMAIN snap' = Layer'
<1> DEFINE n == Len(data)
<1>1. /\ n \in Nat /\ Layer = 1..n /\ NewLayer = n + 1
      /\ Len(link) = n /\ Len(line) = n /\ Len(snap) = n
  BY LayerTypes DEF NewLayer
<1>2. /\ data' \in Seq([Key -> Item \cup {Unset}])
      /\ DOMAIN data' = 1..(n + 1)
      /\ \A x \in 1..n : data'[x] = data[x]
      /\ data'[n + 1] = [k \in Key |-> Unset]
  <2>1. [k \in Key |-> Unset] \in [Key -> Item \cup {Unset}]
    OBVIOUS
  <2>2. data \in Seq([Key -> Item \cup {Unset}])
    BY DEF MTypeOK
  <2>3. data' = Append(data, [k \in Key |-> Unset])
    BY DEF Fork
  <2>4. QED
    BY SMTT(40), <2>1, <2>2, <2>3, AppendSeq
<1>3. Layer' = Layer \cup {NewLayer}
  BY SMTT(40), <1>1, <1>2 DEF Layer
<1>4. /\ link' \in Seq(SUBSET Layer')
      /\ DOMAIN link' = 1..(n + 1)
      /\ \A x \in 1..n : link'[x] = link[x]
      /\ link'[n + 1] = link[c] \cup {NewLayer}
  <2> DEFINE e == link[c] \cup {NewLayer}
  <2>1. e \in SUBSET Layer' /\ SUBSET Layer \subseteq SUBSET Layer'
    BY <1>3, LayerTypes
  <2>2. link \in Seq(SUBSET Layer)
    BY DEF MTypeOK
  <2>3. link' = Append(link, e)
    BY DEF Fork
  <2>4. SUFFICES /\ link' \in Seq(SUBSET Layer')
                 /\ DOMAIN link' = 1..(n + 1)
                 /\ \A x \in 1..n : link'[x] = link[x]
                 /\ link'[n + 1] = e
    OBVIOUS
  <2> HIDE DEF e
  <2>5. /\ Append(link, e) \in Seq(SUBSET Layer')
        /\ DOMAIN Append(link, e) = 1 .. (Len(link) + 1)
        /\ \A i \in 1 .. Len(link) : Append(link, e)[i] = link[i]
        /\ Append(link, e)[Len(link) + 1] = e
    BY SMTT(40), <2>1, <2>2, AppendSeq
  <2>6. QED
    BY <1>1, <2>3, <2>5
<1>5. /\ line' \in Seq(SUBSET Layer')
      /\ DOMAIN line' = 1..(n + 1)
      /\ \A x \in 1..n : line'[x] = line[x]
      /\ line'[n + 1] = line[c] \cup {NewLayer}
  <2> DEFINE e == line[c] \cup {NewLayer}
  <2>1. e \in SUBSET Layer' /\ SUBSET Layer \subseteq SUBSET Layer'
    BY <1>3, LayerTypes
  <2>2. line \in Seq(SUBSET Layer)
    BY DEF MTypeOK
  <2>3. line' = Append(line, e)
    BY DEF Fork
  <2>4. SUFFICES /\ line' \in Seq(SUBSET Layer')
                 /\ DOMAIN line' = 1..(n + 1)
                 /\ \A x \in 1..n : line'[x] = line[x]
                 /\ line'[n + 1] = e
    OBVIOUS
  <2> HIDE DEF e
  <2>5. /\ Append(line, e) \in Seq(SUBSET Layer')
        /\ DOMAIN Append(line, e) = 1 .. (Len(line) + 1)
        /\ \A i \in 1 .. Len(line) : Append(line, e)[i] = line[i]
        /\ Append(line, e)[Len(line) + 1] = e
    BY SMTT(40), <2>1, <2>2, AppendSeq
  <2>6. QED
    BY <1>1, <2>3, <2>5
<1>6. /\ snap' \in Seq([Key -> Item])
      /\ DOMAIN snap' = 1..(n + 1)
      /\ \A x \in 1..n : snap'[x] = snap[x]
      /\ snap'[n + 1] = snap[c]
  <2>1. snap[c] \in [Key -> Item] /\ snap \in Seq([Key -> Item])
    BY LayerTypes DEF MTypeOK
  <2>2. snap' = Append(snap, snap[c])
    BY DEF Fork
  <2>3. QED
    BY SMTT(40), <1>1, <2>1, <2>2, AppendSeq
<1>7. Layer' = 1..(n + 1)
  BY <1>2 DEF Layer
<1>8. QED
  BY SMTT(40), <1>1, <1>2, <1>3, <1>4, <1>5, <1>6, <1>7

\* The chains are as they should be, and what is read is the same; through the new
\* layer one reads what one reads through the layer it was forked from.
LEMMA ForkReads ==
    ASSUME MInv, NEW c \in Layer, Fork(c), UNCHANGED dbVars
    PROVE  /\ Links' /\ Reads'
           /\ \A x \in Layer, k \in Key : Holding(x, k)' = Holding(x, k)
<1> USE DEF MInv
<1>0. PICK n : n = NewLayer
  OBVIOUS
<1>1. /\ n \in Int /\ Layer' = Layer \cup {n} /\ \A x \in Layer : x < n
      /\ \A x \in Layer : /\ data'[x] = data[x] /\ link'[x] = link[x]
                          /\ line'[x] = line[x] /\ snap'[x] = snap[x]
      /\ data'[n] = [k \in Key |-> Unset]
      /\ link'[n] = link[c] \cup {n}
      /\ line'[n] = line[c] \cup {n}
      /\ snap'[n] = snap[c]
  BY <1>0, ForkChanges
<1>2. /\ Layer \subseteq Int
      /\ \A x \in Layer : link[x] \subseteq Layer /\ line[x] \subseteq Layer
  BY LayerTypes
<1>3. storage' = storage /\ diskTag' = diskTag /\ diskTag \in Layer
  BY DEF dbVars, MTypeOK
<1>4. Links'
  <2>1. ASSUME NEW x \in Layer
        PROVE  /\ x \in link'[x] /\ x \in line'[x] /\ link'[x] \subseteq line'[x]
               /\ \A y \in line'[x] : y <= x /\ line'[y] \subseteq line'[x]
               /\ \A z \in link'[x] : link'[z] = {y \in link'[x] : y <= z}
    <3>1. \A y \in line[x] : line'[y] = line[y]
      BY <1>1, <1>2
    <3>2. \A z \in link[x] : link'[z] = link[z]
      BY <1>1, <1>2
    <3>3. QED
      BY SMTT(40), <1>1, <3>1, <3>2 DEF Links
  <2>2. n \in link'[n] /\ n \in line'[n] /\ link'[n] \subseteq line'[n]
    BY <1>1 DEF Links
  <2>3. \A y \in line'[n] : y <= n /\ line'[y] \subseteq line'[n]
    <3>1. \A y \in line[c] : y \in Layer /\ line[y] \subseteq line[c]
      BY <1>2 DEF Links
    <3>2. \A y \in line[c] : y <= n /\ line'[y] \subseteq line'[n]
      <4>1. \A y \in Layer : y <= n
        BY SMTT(40), <1>1, <1>2
      <4>2. \A y \in Layer : line'[y] = line[y]
        BY <1>1
      <4>3. line[c] \subseteq line'[n]
        BY <1>1
      <4>4. QED
        BY <3>1, <4>1, <4>2, <4>3
    <3>3. n <= n /\ line'[n] = line[c] \cup {n}
      BY SMTT(40), <1>1
    <3>4. QED
      BY <3>2, <3>3
  <2>4. ASSUME NEW z \in link'[n]
        PROVE  link'[z] = {y \in link'[n] : y <= z}
    <3>1. CASE z = n
      <4>1. \A y \in link'[n] : y <= n
        BY SMTT(40), <1>1, <1>2
      <4>2. QED
        BY <3>1, <4>1
    <3>2. CASE z \in link[c]
      <4>1. z \in Layer /\ z < n /\ link'[z] = link[z]
        BY <1>1, <1>2, <3>2
      <4>2. link[z] = {y \in link[c] : y <= z}
        BY <3>2 DEF Links
      <4>3. ~(n <= z)
        <5>1. n \in Int /\ z \in Int /\ z < n
          BY <1>1, <1>2, <4>1
        <5>2. QED
          BY SMTT(40), <5>1
      <4>4. link'[n] = link[c] \cup {n} /\ link'[z] = link[z]
        BY <1>1, <4>1
      <4>5. QED
        BY <4>2, <4>3, <4>4
    <3>3. QED
      BY <1>1, <3>1, <3>2
  <2>5. QED
    BY SMTT(40), <1>1, <2>1, <2>2, <2>3, <2>4 DEF Links
<1>5. \A x \in Layer, k \in Key : Holding(x, k)' = Holding(x, k)
  BY <1>1, <1>2 DEF Holding
<1>6. \A k \in Key : Holding(n, k)' = Holding(c, k)
  BY <1>1, <1>2 DEF Holding
<1>7. ASSUME NEW x \in Layer, NEW k \in Key
      PROVE  Get(x, k)' = Get(x, k) /\ HasNearest(x, k)'
  <2>1. Holding(x, k)' = Holding(x, k)
    BY <1>5
  <2>2. HasNearest(x, k) /\ Holding(x, k) \subseteq Layer
    BY <1>2 DEF Reads, Holding
  <2>3. Nearest(x, k)' = Nearest(x, k)
    BY <2>1 DEF Nearest
  <2>4. Holding(x, k) # {} => Nearest(x, k) \in Holding(x, k)
    <3>1. SUFFICES ASSUME Holding(x, k) # {} PROVE Nearest(x, k) \in Holding(x, k)
      OBVIOUS
    <3>2. PICK y \in Holding(x, k) : \A z \in Holding(x, k) : z <= y
      BY <2>2, <3>1 DEF HasNearest
    <3>3. QED
      BY <3>2 DEF Nearest
  <2>5. Get(x, k)' = Get(x, k)
    BY <1>1, <1>3, <2>1, <2>2, <2>3, <2>4 DEF Get
  <2>6. QED
    BY <2>1, <2>2, <2>5 DEF HasNearest
<1>8. ASSUME NEW k \in Key
      PROVE  Get(n, k)' = Get(c, k) /\ HasNearest(n, k)'
  <2>1. Holding(n, k)' = Holding(c, k)
    BY <1>6
  <2>2. HasNearest(c, k) /\ Holding(c, k) \subseteq Layer
    BY <1>2 DEF Reads, Holding
  <2>3. Nearest(n, k)' = Nearest(c, k)
    BY <2>1 DEF Nearest
  <2>4. Holding(c, k) # {} => Nearest(c, k) \in Holding(c, k)
    <3>1. SUFFICES ASSUME Holding(c, k) # {} PROVE Nearest(c, k) \in Holding(c, k)
      OBVIOUS
    <3>2. PICK y \in Holding(c, k) : \A z \in Holding(c, k) : z <= y
      BY <2>2, <3>1 DEF HasNearest
    <3>3. QED
      BY <3>2 DEF Nearest
  <2>5. Get(n, k)' = Get(c, k)
    BY <1>1, <1>3, <2>1, <2>2, <2>3, <2>4 DEF Get
  <2>6. QED
    BY <2>1, <2>2, <2>5 DEF HasNearest
<1>9. Reads'
  <2>1. \A x \in Layer', k \in Key : HasNearest(x, k)'
    BY <1>1, <1>7, <1>8
  <2>2. ASSUME NEW x \in Layer, Live(x)', NEW k \in Key PROVE Get(x, k)' = snap'[x][k]
    BY SMTT(40), <1>1, <1>3, <1>7, <2>2 DEF Live, Reads
  <2>3. ASSUME Live(n)', NEW k \in Key PROVE Get(n, k)' = snap'[n][k]
    <3>1. Live(c)
      BY SMTT(40), <1>1, <1>3, <1>2, <2>3 DEF Live
    <3>2. QED
      BY SMTT(40), <1>1, <1>8, <3>1 DEF Reads
  <2>4. storage' = snap'[diskTag']
    BY <1>1, <1>3 DEF Reads
  <2>5. QED
    BY <1>1, <2>1, <2>2, <2>3, <2>4 DEF Reads
<1>10. QED
  BY <1>4, <1>5, <1>9

\* A handle that moves to a fork of a layer which no other handle writes to.
LEMMA MoveLeaves ==
    ASSUME MInv, NEW c \in Layer, NEW g \in Handle, Fork(c), UNCHANGED <<dbVars, rd>>,
           rd[g] = Unset, \A f \in Handle : f # g => stage[f] # c,
           head' = [head EXCEPT ![g] = c], stage' = [stage EXCEPT ![g] = NewLayer],
           tags' \subseteq tags \cup {c}
    PROVE  Leaves' /\ head' \in [Handle -> Layer' \cup {0}]
                   /\ stage' \in [Handle -> Layer' \cup {0}]
<1> USE DEF MInv
<1>0. PICK n : n = NewLayer
  OBVIOUS
<1>1. /\ n \in Int /\ n # 0 /\ Layer' = Layer \cup {n} /\ n \notin Layer
      /\ \A x \in Layer : line'[x] = line[x]
      /\ line'[n] = line[c] \cup {n}
  <2>1. n \in Int /\ Layer \subseteq Int /\ \A x \in Layer : x < n
    BY <1>0, ForkChanges, LayerTypes
  <2>2. QED
    BY SMTT(40), <1>0, <2>1, ForkChanges
<1>2. 0 \notin Layer /\ \A x \in Layer : line[x] \subseteq Layer
  BY SMTT(40), LayerTypes
<1>3. /\ head \in [Handle -> Layer \cup {0}] /\ stage \in [Handle -> Layer \cup {0}]
      /\ tags \subseteq Layer /\ rd' = rd
  BY DEF MTypeOK
<1>4. head' = [head EXCEPT ![g] = c] /\ stage' = [stage EXCEPT ![g] = n]
  BY <1>0
<1>5. head' \in [Handle -> Layer' \cup {0}] /\ stage' \in [Handle -> Layer' \cup {0}]
  BY SMTT(40), <1>1, <1>3, <1>4
<1>6. /\ head'[g] = c /\ stage'[g] = n
      /\ \A f \in Handle : f # g => head'[f] = head[f] /\ stage'[f] = stage[f]
  BY <1>3, <1>4
<1>7. \A x \in Layer, k \in Key : Holding(x, k)' = Holding(x, k)
  BY ForkReads
<1>8. /\ head'[g] # 0 /\ n \notin tags'
      /\ \A x \in Layer' : n \in line'[x] => x = n
      /\ \A f \in Handle : head'[f] # n /\ (stage'[f] = n => f = g)
      /\ rd'[g] = Unset
  <2>1. head'[g] # 0 /\ n \notin tags' /\ rd'[g] = Unset
    BY <1>1, <1>2, <1>3, <1>6
  <2>2. \A x \in Layer' : n \in line'[x] => x = n
    BY <1>1, <1>2
  <2>3. \A f \in Handle : head'[f] # n /\ (stage'[f] = n => f = g)
    BY SMTT(40), <1>1, <1>3, <1>6
  <2>4. QED
    BY <2>1, <2>2, <2>3
<1>9. ASSUME NEW f \in Handle, f # g, stage[f] # 0
      PROVE  /\ head'[f] # 0 /\ stage[f] \notin tags'
             /\ \A x \in Layer' : stage[f] \in line'[x] => x = stage[f]
             /\ \A e \in Handle : head'[e] # stage[f] /\ (stage'[e] = stage[f] => e = f)
             /\ rd'[f] # Unset => Holding(stage[f], rd[f])' = {}
  <2>1. stage[f] \in Layer /\ stage[f] # c
    BY <1>3, <1>9
  <2>2. /\ head[f] # 0 /\ stage[f] \notin tags
        /\ \A x \in Layer : stage[f] \in line[x] => x = stage[f]
        /\ \A e \in Handle : head[e] # stage[f] /\ (stage[e] = stage[f] => e = f)
        /\ rd[f] # Unset => Holding(stage[f], rd[f]) = {}
    BY <1>9 DEF Leaves
  <2>3. head'[f] # 0 /\ stage[f] \notin tags'
    BY <1>6, <1>9, <2>1, <2>2
  <2>4. \A x \in Layer' : stage[f] \in line'[x] => x = stage[f]
    BY <1>1, <2>1, <2>2
  <2>5. \A e \in Handle : head'[e] # stage[f] /\ (stage'[e] = stage[f] => e = f)
    BY <1>1, <1>6, <2>1, <2>2
  <2>6. ASSUME rd'[f] # Unset PROVE Holding(stage[f], rd[f])' = {}
    <3>1. PICK x \in Layer : x = stage[f]
      BY <2>1
    <3>2. PICK k \in Key : k = rd[f]
      BY <1>3, <2>6 DEF MTypeOK
    <3>3. Holding(x, k)' = {}
      BY <1>3, <1>7, <2>2, <2>6, <3>1, <3>2
    <3>4. stage'[f] = x /\ rd'[f] = k
      BY <1>3, <1>6, <1>9, <3>1, <3>2
    <3>5. QED
      BY <3>3, <3>4 DEF Holding
  <2>7. QED
    BY <2>3, <2>4, <2>5, <2>6
<1>10. Leaves'
  <2>1. SUFFICES ASSUME NEW f \in Handle, stage'[f] # 0
                 PROVE  /\ head'[f] # 0 /\ stage'[f] \notin tags'
                        /\ \A x \in Layer' : stage'[f] \in line'[x] => x = stage'[f]
                        /\ \A e \in Handle : head'[e] # stage'[f] /\ (stage'[e] = stage'[f] => e = f)
                        /\ rd'[f] # Unset => Holding(stage[f], rd[f])' = {}
    BY DEF Leaves, Holding
  <2>2. CASE f = g
    BY <1>6, <1>8, <2>2
  <2>3. CASE f # g
    BY SMTT(40), <1>6, <1>9, <2>1, <2>3
  <2>4. QED
    BY <2>2, <2>3
<1>11. QED
  BY <1>5, <1>10

\* The links to live commits, and the commits under the handles.
LEMMA MoveOrdered ==
    ASSUME MInv, NEW c \in Layer, NEW g \in Handle, Fork(c), UNCHANGED dbVars,
           head' = [head EXCEPT ![g] = c], stage' = [stage EXCEPT ![g] = NewLayer],
           tags \subseteq tags', Live(c) => c \in tags',
           \/ tags' = tags
           \/ tags' = tags \cup {c} /\ \A x \in Layer : c \in line[x] => x = c
    PROVE  /\ \A t \in tags', x \in Layer' :
                 t \in line'[x] /\ diskTag' \in line'[t] => t \in link'[x]
           /\ \A f \in Handle : Open(f)' /\ Live(head[f])' => head'[f] \in tags'
<1> USE DEF MInv
<1>0. PICK n : n = NewLayer
  OBVIOUS
<1>1. /\ n \in Int /\ Layer' = Layer \cup {n} /\ n \notin Layer
      /\ \A x \in Layer : line'[x] = line[x] /\ link'[x] = link[x]
      /\ line'[n] = line[c] \cup {n} /\ link'[n] = link[c] \cup {n}
  <2>1. n \in Int /\ Layer \subseteq Int /\ \A x \in Layer : x < n
    BY <1>0, ForkChanges, LayerTypes
  <2>2. QED
    BY SMTT(40), <1>0, <2>1, ForkChanges
<1>2. \A x \in Layer : line[x] \subseteq Layer
  BY LayerTypes
<1>3. /\ head \in [Handle -> Layer \cup {0}] /\ stage \in [Handle -> Layer \cup {0}]
      /\ tags \subseteq Layer /\ diskTag' = diskTag
  BY DEF MTypeOK, dbVars
<1>4. \A t \in tags, x \in Layer : t \in line[x] /\ diskTag \in line[t] => t \in link[x]
  BY DEF Ordered
<1>5. ASSUME NEW t \in tags', NEW x \in Layer', t \in line'[x], diskTag' \in line'[t]
      PROVE  t \in link'[x]
  <2>1. t \in Layer /\ diskTag \in line[t]
    BY <1>1, <1>3, <1>5
  <2>2. CASE t \in tags /\ x \in Layer
    BY <1>1, <1>4, <1>5, <2>1, <2>2
  <2>3. CASE t \in tags /\ x = n
    <3>1. t \in line[c]
      BY <1>1, <1>5, <2>1, <2>3
    <3>2. QED
      BY <1>1, <1>4, <2>1, <2>3, <3>1
  <2>4. CASE t = c /\ \A y \in Layer : c \in line[y] => y = c
    <3>1. c \in link[c]
      BY DEF Links
    <3>2. x = c \/ x = n
      BY <1>1, <1>5, <2>4
    <3>3. QED
      BY <1>1, <2>4, <3>1, <3>2
  <2>5. QED
    BY <1>1, <1>5, <2>2, <2>3, <2>4
<1>6. ASSUME NEW f \in Handle, Open(f)', Live(head[f])'
      PROVE  head'[f] \in tags'
  <2>1. diskTag \in line'[head'[f]] /\ stage'[f] # 0
    BY <1>3, <1>6 DEF Live, Open
  <2>2. CASE f = g
    <3>1. head'[f] = c
      BY <1>3, <2>2
    <3>2. Live(c)
      BY <1>1, <2>1, <3>1 DEF Live
    <3>3. QED
      BY <3>1, <3>2
  <2>3. CASE f # g
    <3>1. head'[f] = head[f] /\ stage'[f] = stage[f]
      BY <1>3, <2>3
    <3>2. head[f] \in Layer /\ Open(f)
      BY <1>3, <2>1, <3>1 DEF Leaves, Open
    <3>3. Live(head[f])
      BY <1>1, <2>1, <3>1, <3>2 DEF Live
    <3>4. QED
      BY <3>1, <3>2, <3>3 DEF Ordered
  <2>4. QED
    BY <2>2, <2>3
<1>7. QED
  BY <1>5, <1>6

\* Checkout and CacheMVCCDB.Fork leave the commits.
LEMMA MoveStep ==
    ASSUME MInv, NEW c \in Layer, NEW g \in Handle, Fork(c),
           UNCHANGED <<dbVars, commits, tags, flushing, rd>>,
           rd[g] = Unset, \A f \in Handle : stage[f] # c, Live(c) => c \in tags,
           head' = [head EXCEPT ![g] = c], stage' = [stage EXCEPT ![g] = NewLayer]
    PROVE  MInv'
<1>1. Links' /\ Reads'
  BY ForkReads
<1>2. Leaves' /\ head' \in [Handle -> Layer' \cup {0}] /\ stage' \in [Handle -> Layer' \cup {0}]
  BY MoveLeaves
<1>3. /\ \A t \in tags', x \in Layer' :
            t \in line'[x] /\ diskTag' \in line'[t] => t \in link'[x]
      /\ \A f \in Handle : Open(f)' /\ Live(head[f])' => head'[f] \in tags'
  BY MoveOrdered
<1>4. Layer \subseteq Layer' /\ \A x \in Layer : line'[x] = line[x]
  BY ForkChanges DEF MInv
<1>5. MTypeOK'
  <2>1. commits \in Seq(Layer') /\ diskTag \in Layer' /\ tags \subseteq Layer'
    <3>1. commits \in Seq(Layer) /\ diskTag \in Layer /\ tags \subseteq Layer
      BY DEF MInv, MTypeOK
    <3>2. QED
      BY SMTT(40), <1>4, <3>1
  <2>2. /\ storage \in [Key -> Item] /\ diskTag \in Range(commits)
        /\ flushing \in {"no", "written", "free"} /\ rd \in [Handle -> Key \cup {Unset}]
    BY DEF MInv, MTypeOK
  <2>3. /\ data' \in Seq([Key -> Item \cup {Unset}]) /\ snap' \in Seq([Key -> Item])
        /\ link' \in Seq(SUBSET Layer') /\ line' \in Seq(SUBSET Layer')
        /\ DOMAIN link' = Layer' /\ DOMAIN line' = Layer' /\ DOMAIN snap' = Layer'
    BY ForkChanges DEF MInv
  <2>4. QED
    BY <1>2, <2>1, <2>2, <2>3 DEF MTypeOK, dbVars
<1>6. Ordered'
  <2>1. \A i, j \in DOMAIN commits : commits[j] \in line[commits[i]] => j <= i
    BY DEF MInv, Ordered
  <2>2. \A i \in DOMAIN commits : commits[i] \in Layer
    BY SMTT(40) DEF MInv, MTypeOK
  <2>3. \A i, j \in DOMAIN commits' : commits'[j] \in line'[commits'[i]] => j <= i
    BY <1>4, <2>1, <2>2
  <2>4. tags' = Range(commits')
    BY DEF MInv, Ordered
  <2>5. QED
    BY <1>3, <2>3, <2>4 DEF Ordered
<1>7. QED
  BY <1>1, <1>2, <1>5, <1>6 DEF MInv

LEMMA CheckoutStep ==
    ASSUME MInv, NEW h \in Handle, NEW t \in tags, Checkout(h, t)
    PROVE  MInv'
<1>1. t \in Layer
  BY DEF MInv, MTypeOK
<1>2. \A f \in Handle : stage[f] # t
  <2>1. Leaves /\ t # 0
    BY SMTT(40), <1>1, LayerTypes DEF MInv
  <2>2. QED
    BY <2>1 DEF Leaves
<1>3. QED
  BY <1>1, <1>2, MoveStep DEF Checkout

LEMMA ForkHandleStep ==
    ASSUME MInv, NEW h \in Handle, NEW g \in Handle, ForkHandle(h, g)
    PROVE  MInv'
<1>1. head[h] \in Layer
  <2>1. Leaves /\ MTypeOK /\ stage[h] # 0
    BY DEF MInv, ForkHandle, Open
  <2>2. head[h] # 0
    BY <2>1 DEF Leaves
  <2>3. head[h] \in Layer \cup {0}
    BY <2>1 DEF MTypeOK
  <2>4. QED
    BY <2>2, <2>3
<1>2. \A f \in Handle : stage[f] # head[h]
  <2>1. Leaves /\ head[h] # 0
    BY SMTT(40), <1>1, LayerTypes DEF MInv
  <2>2. QED
    BY <2>1 DEF Leaves
<1>3. Live(head[h]) => head[h] \in tags
  BY DEF MInv, Ordered, ForkHandle
<1>4. QED
  BY <1>1, <1>2, <1>3, MoveStep DEF ForkHandle

\* A commit is the last in order: nothing builds on a stage.
LEMMA CommitStep ==
    ASSUME MInv, NEW h \in Handle, Commit(h)
    PROVE  MInv'
<1>0. PICK c : c = stage[h]
  OBVIOUS
<1>1. c \in Layer /\ c \notin tags
  BY <1>0 DEF MInv, MTypeOK, Leaves, Commit, Open
<1>2. /\ \A f \in Handle : f # h => stage[f] # c
      /\ \A x \in Layer : c \in line[x] => x = c
  BY <1>0 DEF MInv, Leaves, Commit, Open
<1>3. /\ Fork(c) /\ UNCHANGED dbVars /\ UNCHANGED <<dbVars, rd>> /\ rd[h] = Unset
      /\ head' = [head EXCEPT ![h] = c] /\ stage' = [stage EXCEPT ![h] = NewLayer]
      /\ commits' = Append(commits, c) /\ tags' = tags \cup {c}
      /\ flushing' = flushing
  BY <1>0 DEF Commit
<1>4. Links' /\ Reads'
  BY <1>1, <1>3, ForkReads
<1>5. Leaves' /\ head' \in [Handle -> Layer' \cup {0}] /\ stage' \in [Handle -> Layer' \cup {0}]
  BY <1>1, <1>2, <1>3, MoveLeaves
<1>6. /\ \A t \in tags', x \in Layer' :
            t \in line'[x] /\ diskTag' \in line'[t] => t \in link'[x]
      /\ \A f \in Handle : Open(f)' /\ Live(head[f])' => head'[f] \in tags'
  BY <1>1, <1>2, <1>3, MoveOrdered
<1>7. Layer \subseteq Layer' /\ \A x \in Layer : line'[x] = line[x]
  BY <1>1, <1>3, ForkChanges DEF MInv
<1>8. commits \in Seq(Layer) /\ diskTag \in Layer /\ tags \subseteq Layer
  BY DEF MInv, MTypeOK
<1>9. /\ commits' \in Seq(Layer')
      /\ DOMAIN commits' = 1 .. (Len(commits) + 1)
      /\ \A i \in 1 .. Len(commits) : commits'[i] = commits[i]
      /\ commits'[Len(commits) + 1] = c
  <2>1. Layer \subseteq Layer' /\ c \in Layer' /\ commits' = Append(commits, c)
    BY <1>1, <1>3, <1>7
  <2>2. QED
    BY SMTT(40), <1>8, <2>1, AppendSeq
<1>10. /\ Len(commits) \in Nat /\ DOMAIN commits = 1 .. Len(commits)
       /\ \A i \in DOMAIN commits : commits[i] \in Layer
  BY SMTT(40), <1>8
<1>11. Range(commits') = Range(commits) \cup {c}
  <2>1. ASSUME NEW v \in Range(commits') PROVE v \in Range(commits) \cup {c}
    BY SMTT(40), <1>9, <1>10, <2>1 DEF Range
  <2>2. ASSUME NEW v \in Range(commits) PROVE v \in Range(commits')
    <3>1. PICK i \in DOMAIN commits : v = commits[i]
      BY <2>2 DEF Range
    <3>2. i \in DOMAIN commits' /\ commits'[i] = v
      BY SMTT(40), <1>9, <1>10, <3>1
    <3>3. QED
      BY <3>2 DEF Range
  <2>3. c \in Range(commits')
    <3>1. Len(commits) + 1 \in DOMAIN commits'
      BY SMTT(40), <1>9, <1>10
    <3>2. QED
      BY <1>9, <3>1 DEF Range
  <2>4. QED
    BY <2>1, <2>2, <2>3
<1>12. MTypeOK'
  <2>1. diskTag \in Layer' /\ tags' \subseteq Layer' /\ diskTag \in Range(commits')
    BY <1>1, <1>3, <1>7, <1>8, <1>11 DEF MInv, MTypeOK
  <2>2. /\ storage \in [Key -> Item]
        /\ flushing \in {"no", "written", "free"} /\ rd \in [Handle -> Key \cup {Unset}]
    BY DEF MInv, MTypeOK
  <2>3. /\ data' \in Seq([Key -> Item \cup {Unset}]) /\ snap' \in Seq([Key -> Item])
        /\ link' \in Seq(SUBSET Layer') /\ line' \in Seq(SUBSET Layer')
        /\ DOMAIN link' = Layer' /\ DOMAIN line' = Layer' /\ DOMAIN snap' = Layer'
    BY <1>1, <1>3, ForkChanges DEF MInv
  <2>4. QED
    BY <1>3, <1>5, <1>9, <2>1, <2>2, <2>3 DEF MTypeOK, dbVars
<1>13. \A i, j \in DOMAIN commits' : commits'[j] \in line'[commits'[i]] => j <= i
  <2>1. ASSUME NEW i \in DOMAIN commits', NEW j \in DOMAIN commits',
               commits'[j] \in line'[commits'[i]]
        PROVE  j <= i
    <3>1. CASE i = Len(commits) + 1
      BY SMTT(40), <1>9, <1>10, <3>1
    <3>2. CASE i \in 1 .. Len(commits) /\ j \in 1 .. Len(commits)
      <4>1. commits[j] \in line[commits[i]]
        BY <1>7, <1>9, <1>10, <2>1, <3>2
      <4>2. QED
        BY <1>10, <3>2, <4>1 DEF MInv, Ordered
    <3>3. CASE i \in 1 .. Len(commits) /\ j = Len(commits) + 1
      <4>1. c \in line[commits[i]] /\ commits[i] \in Layer
        BY <1>7, <1>9, <1>10, <2>1, <3>3
      <4>2. commits[i] = c
        BY <1>2, <4>1
      <4>3. c \in tags
        BY <1>10, <3>3, <4>2 DEF MInv, Ordered, Range
      <4>4. QED
        BY <1>1, <4>3
    <3>4. QED
      BY SMTT(40), <1>9, <1>10, <3>1, <3>2, <3>3
  <2>2. QED
    BY <2>1
<1>14. Ordered'
  <2>1. tags' = Range(commits')
    BY <1>3, <1>11 DEF MInv, Ordered
  <2>2. QED
    BY <1>6, <1>13, <2>1 DEF Ordered
<1>15. QED
  BY <1>4, <1>5, <1>12, <1>14 DEF MInv

-----------------------------------------------------------------------------
(* Get, and the steps of Flush that change no layer. *)

LEMMA GetCacheStep ==
    ASSUME MInv, NEW h \in Handle, NEW k \in Key, GetCache(h, k)
    PROVE  MInv'
<1> USE DEF MInv, GetCache, dbVars, layerVars
<1>1. Layer' = Layer
  BY DEF Layer
<1>2. MTypeOK'
  BY <1>1 DEF MTypeOK
<1>3. Links'
  BY <1>1 DEF Links
<1>4. \A x, l : Holding(x, l)' = Holding(x, l)
  BY DEF Holding
<1>5. Leaves'
  <2>1. ASSUME NEW f \in Handle, stage[f] # 0, rd'[f] # Unset
        PROVE  Holding(stage[f], rd[f])' = {}
    <3>1. CASE f = h
      <4>1. rd'[f] = k
        BY <3>1 DEF MTypeOK
      <4>2. QED
        BY <3>1, <4>1 DEF Holding
    <3>2. CASE f # h
      <4>1. rd'[f] = rd[f]
        BY <3>2 DEF MTypeOK
      <4>2. QED
        BY SMTT(40), <2>1, <4>1 DEF Holding, Leaves
    <3>3. QED
      BY <3>1, <3>2
  <2>2. QED
    BY <1>1, <2>1 DEF Leaves
<1>6. Ordered'
  BY <1>1 DEF Ordered, Open, Live
<1>7. Reads'
  BY SMTT(40), <1>1 DEF Reads, HasNearest, Get, Nearest, Holding, Live
<1>8. QED
  BY <1>2, <1>3, <1>5, <1>6, <1>7

LEMMA GetStorageStep ==
    ASSUME MInv, NEW h \in Handle, GetStorage(h)
    PROVE  MInv'
<1> USE DEF MInv, GetStorage, dbVars, layerVars
<1>1. Layer' = Layer
  BY DEF Layer
<1>2. MTypeOK'
  BY <1>1 DEF MTypeOK
<1>3. Links'
  BY <1>1 DEF Links
<1>4. Leaves'
  <2>1. ASSUME NEW f \in Handle, stage[f] # 0, rd'[f] # Unset
        PROVE  Holding(stage[f], rd[f])' = {}
    <3>1. rd'[f] = rd[f]
      BY <2>1 DEF MTypeOK
    <3>2. QED
      BY <2>1, <3>1 DEF Holding, Leaves
  <2>2. QED
    BY <1>1, <2>1 DEF Leaves
<1>5. Ordered'
  BY <1>1 DEF Ordered, Open, Live
<1>6. Reads'
  BY SMTT(40), <1>1 DEF Reads, HasNearest, Get, Nearest, Holding, Live
<1>7. QED
  BY <1>2, <1>3, <1>4, <1>5, <1>6

\* Stuttering, and the end of Flush.
LEMMA SameStep ==
    ASSUME MInv, flushing' \in {"no", "written", "free"},
           UNCHANGED <<dbVars, layerVars, commits, tags, head, stage, rd>>
    PROVE  MInv'
<1> USE DEF MInv, dbVars, layerVars
<1>1. Layer' = Layer
  BY DEF Layer
<1>2. MTypeOK'
  BY <1>1 DEF MTypeOK
<1>3. Links'
  BY <1>1 DEF Links
<1>4. Leaves'
  BY <1>1 DEF Leaves, Holding
<1>5. Ordered'
  BY <1>1 DEF Ordered, Open, Live
<1>6. Reads'
  BY SMTT(40), <1>1 DEF Reads, HasNearest, Get, Nearest, Holding, Live
<1>7. QED
  BY <1>2, <1>3, <1>4, <1>5, <1>6

-----------------------------------------------------------------------------
(* Flush. *)

\* What CommitBatch writes is the snapshot of the commit, and what was read from the
\* storage through a layer on the commit is as it was.
LEMMA FlushWriteStep ==
    ASSUME MInv, NEW t \in tags, FlushWrite(t)
    PROVE  MInv'
<1>1. /\ t \in Layer /\ diskTag \in line[t] /\ storage' = View(t) /\ diskTag' = t
      /\ UNCHANGED <<data, link, line, snap, commits, tags, head, stage, rd>>
      /\ flushing' = "written"
  BY DEF MInv, MTypeOK, FlushWrite, layerVars, Batch, Live
<1>2. Layer' = Layer
  BY <1>1 DEF Layer
<1>3. /\ Layer \subseteq Int
      /\ \A x \in Layer : /\ link[x] \subseteq Layer /\ line[x] \subseteq Layer
                          /\ snap[x] \in [Key -> Item]
  BY LayerTypes DEF MInv
<1>4. storage' = snap[t] /\ \A k \in Key : Get(t, k) = snap[t][k]
  <2>1. \A k \in Key : Get(t, k) = snap[t][k]
    BY <1>1 DEF MInv, Reads, Live
  <2>2. QED
    BY <1>1, <1>3, <2>1 DEF View
<1>5. MTypeOK'
  <2>1. storage' \in [Key -> Item] /\ t \in Range(commits)
    BY <1>1, <1>3, <1>4 DEF MInv, Ordered
  <2>2. QED
    BY <1>1, <1>2, <2>1 DEF MInv, MTypeOK
<1>6. Links' /\ Leaves'
  BY SMTT(40), <1>1, <1>2 DEF MInv, Links, Leaves, Holding
<1>7. \A x \in Layer : t \in line[x] => Live(x)
  BY <1>1 DEF MInv, Links, Live
<1>8. Ordered'
  <2>1. ASSUME NEW u \in tags, NEW x \in Layer, u \in line[x], t \in line[u]
        PROVE  u \in link[x]
    <3>1. u \in Layer
      BY DEF MInv, MTypeOK
    <3>2. QED
      BY <1>7, <2>1, <3>1 DEF MInv, Ordered, Live
  <2>2. ASSUME NEW h \in Handle, stage[h] # 0, t \in line[head[h]]
        PROVE  head[h] \in tags
    <3>1. head[h] \in Layer
      BY <2>2 DEF MInv, MTypeOK, Leaves
    <3>2. QED
      BY <1>7, <2>2, <3>1 DEF MInv, Ordered, Open
  <2>3. QED
    BY <1>1, <1>2, <2>1, <2>2 DEF MInv, Ordered, Open, Live
<1>9. \A x \in Layer, k \in Key : Holding(x, k)' = Holding(x, k) /\ Nearest(x, k)' = Nearest(x, k)
  BY <1>1 DEF Holding, Nearest
<1>10. ASSUME NEW x \in Layer, t \in line[x], NEW k \in Key
       PROVE  Get(x, k)' = snap[x][k]
  <2>1. Get(x, k) = snap[x][k]
    BY <1>7, <1>10 DEF MInv, Reads
  <2>2. CASE Holding(x, k) # {}
    BY <1>1, <1>9, <2>1, <2>2 DEF Get
  <2>3. CASE Holding(x, k) = {}
    <3>1. t \in link[x]
      BY <1>1, <1>10 DEF MInv, Ordered
    <3>2. link[t] \subseteq link[x]
      BY SMTT(40), <3>1 DEF MInv, Links
    <3>3. Holding(t, k) = {}
      BY <2>3, <3>2 DEF Holding
    <3>4. storage'[k] = storage[k]
      BY <1>4, <3>3 DEF Get
    <3>5. QED
      BY <1>9, <2>1, <2>3, <3>4 DEF Get
  <2>4. QED
    BY <2>2, <2>3
<1>11. Reads'
  <2>1. \A x \in Layer', k \in Key : HasNearest(x, k)'
    BY <1>2, <1>9 DEF MInv, Reads, HasNearest
  <2>2. \A x \in Layer' : Live(x)' => \A k \in Key : Get(x, k)' = snap'[x][k]
    BY <1>1, <1>2, <1>10 DEF Live
  <2>3. QED
    BY <1>1, <1>4, <2>1, <2>2 DEF Reads
<1>12. QED
  BY <1>5, <1>6, <1>8, <1>11 DEF MInv

\* What FreeBefore frees, and that nothing of it builds on the durable commit.
LEMMA FreeChanges ==
    ASSUME MInv, FreeBefore, NEW v, v = Head(commits)
    PROVE  /\ v \in Layer /\ v = commits[1] /\ commits # <<>>
           /\ \A y \in line[v] : diskTag \notin line[y]
           /\ Layer' = Layer
           /\ \A x \in Layer : /\ x \in link[v] => /\ data'[x] = [k \in Key |-> Unset]
                                                   /\ link'[x] = {x}
                               /\ x \notin link[v] => /\ data'[x] = data[x]
                                                      /\ link'[x] = link[x] \ link[v]
           /\ data' \in Seq([Key -> Item \cup {Unset}]) /\ link' \in Seq(SUBSET Layer)
           /\ DOMAIN link' = Layer
<1>1. commits \in Seq(Layer) /\ diskTag \in Range(commits) /\ diskTag # v
  BY DEF MInv, MTypeOK, FreeBefore, Freed
<1>2. PICK d \in DOMAIN commits : commits[d] = diskTag
  BY <1>1 DEF Range
<1>3. /\ Len(commits) \in Nat /\ DOMAIN commits = 1 .. Len(commits)
      /\ commits # <<>> /\ v = commits[1] /\ 1 \in DOMAIN commits /\ v \in Layer
  BY SMTT(40), <1>1, <1>2
<1>4. diskTag \notin line[v]
  <2>1. SUFFICES ASSUME diskTag \in line[v] PROVE FALSE
    OBVIOUS
  <2>2. d <= 1
    BY <1>2, <1>3, <2>1 DEF MInv, Ordered
  <2>3. d = 1
    BY SMTT(40), <1>2, <1>3, <2>2
  <2>4. QED
    BY <1>1, <1>2, <1>3, <2>3
<1>5. \A y \in line[v] : diskTag \notin line[y]
  BY <1>3, <1>4 DEF MInv, Links
<1>6. Len(data) \in Nat /\ Layer = 1 .. Len(data)
  BY LayerTypes DEF MInv
<1>7. \A x \in Layer : data[x] \in [Key -> Item \cup {Unset}] /\ link[x] \subseteq Layer
  BY LayerTypes DEF MInv
<1>8. Free(v)
  BY DEF FreeBefore
<1>9. data' \in [Layer -> [Key -> Item \cup {Unset}]] /\ link' \in [Layer -> SUBSET Layer]
  BY <1>7, <1>8 DEF Free
<1>10. /\ data' \in Seq([Key -> Item \cup {Unset}]) /\ DOMAIN data' = Layer
       /\ link' \in Seq(SUBSET Layer) /\ DOMAIN link' = Layer
  BY <1>6, <1>9, FunctionSeq
<1>11. Layer' = Layer
  BY <1>10 DEF Layer
<1>12. \A x \in Layer : /\ x \in link[v] => /\ data'[x] = [k \in Key |-> Unset]
                                            /\ link'[x] = {x}
                        /\ x \notin link[v] => /\ data'[x] = data[x]
                                               /\ link'[x] = link[x] \ link[v]
  BY <1>8 DEF Free
<1>13. QED
  BY <1>3, <1>5, <1>10, <1>11, <1>12

\* Through a live layer one reads what one has read: what was freed under it is
\* below the durable commit, so that the storage has it.
LEMMA FreeReads ==
    ASSUME MInv, FreeBefore
    PROVE  /\ Links' /\ Reads'
           /\ \A x \in Layer, k \in Key : Holding(x, k)' \subseteq Holding(x, k)
<1>0. PICK v : v = Head(commits)
  OBVIOUS
<1>1. /\ v \in Layer
      /\ \A y \in line[v] : diskTag \notin line[y]
      /\ Layer' = Layer
      /\ \A x \in Layer : /\ x \in link[v] => /\ data'[x] = [k \in Key |-> Unset]
                                              /\ link'[x] = {x}
                          /\ x \notin link[v] => /\ data'[x] = data[x]
                                                 /\ link'[x] = link[x] \ link[v]
  BY <1>0, FreeChanges
<1>2. line' = line /\ snap' = snap /\ storage' = storage /\ diskTag' = diskTag
  BY DEF FreeBefore, Free, dbVars
<1>3. /\ Layer \subseteq Int
      /\ \A x \in Layer : link[x] \subseteq Layer /\ line[x] \subseteq Layer
  BY LayerTypes DEF MInv
<1>4. \A x \in Layer : /\ x \in link[x] /\ x \in line[x] /\ link[x] \subseteq line[x]
                       /\ \A y \in line[x] : y <= x /\ line[y] \subseteq line[x]
                       /\ \A z \in link[x] : link[z] = {y \in link[x] : y <= z}
  BY DEF MInv, Links
<1>5. Links'
  <2>1. ASSUME NEW x \in Layer
        PROVE  x \in link'[x] /\ link'[x] \subseteq line[x]
    BY SMTT(40), <1>1, <1>4
  <2>2. ASSUME NEW x \in Layer, NEW z \in link'[x]
        PROVE  link'[z] = {y \in link'[x] : y <= z}
    <3>1. CASE x \in link[v]
      <4>1. z = x /\ link'[x] = {x} /\ x <= x
        BY SMTT(40), <1>1, <1>3, <2>2, <3>1
      <4>2. QED
        BY <4>1
    <3>2. CASE x \notin link[v]
      <4>1. link'[x] = link[x] \ link[v]
        BY <1>1, <3>2
      <4>2. z \in link[x] /\ z \notin link[v] /\ z \in Layer
        BY <1>3, <2>2, <4>1
      <4>3. link'[z] = link[z] \ link[v]
        BY <1>1, <4>2
      <4>4. link[z] = {y \in link[x] : y <= z}
        BY <1>4, <4>2
      <4>5. QED
        BY <4>1, <4>3, <4>4
    <3>3. QED
      BY <3>1, <3>2
  <2>3. QED
    BY <1>1, <1>2, <1>4, <2>1, <2>2 DEF Links
<1>6. ASSUME NEW x \in Layer, NEW k \in Key
      PROVE  /\ x \in link[v] => Holding(x, k)' = {}
             /\ x \notin link[v] => Holding(x, k)' = Holding(x, k) \ link[v]
  <2>1. CASE x \in link[v]
    <3>1. link'[x] = {x} /\ data'[x][k] = Unset
      BY SMTT(40), <1>1, <2>1
    <3>2. QED
      BY <2>1, <3>1 DEF Holding
  <2>2. CASE x \notin link[v]
    <3>1. link'[x] = link[x] \ link[v] /\ link[x] \subseteq Layer
      BY <1>1, <1>3, <2>2
    <3>2. \A y \in link'[x] : data'[y] = data[y]
      BY <1>1, <3>1
    <3>3. QED
      BY <2>2, <3>1, <3>2 DEF Holding
  <2>3. QED
    BY <2>1, <2>2
<1>7. \A x \in Layer, k \in Key : Holding(x, k)' \subseteq Holding(x, k)
  BY <1>6
<1>8. \A x \in Layer, k \in Key : Holding(x, k) \subseteq link[x] /\ Holding(x, k) \subseteq Int
  BY <1>3 DEF Holding
<1>9. ASSUME NEW x \in Layer, NEW k \in Key, NEW y \in Holding(x, k),
             \A z \in Holding(x, k) : z <= y
      PROVE  /\ y \in link[v] => Holding(x, k)' = {}
             /\ y \notin link[v] => /\ y \in Layer /\ y \in Holding(x, k)'
                                    /\ \A z \in Holding(x, k)' : z <= y
  <2>1. y \in link[x] /\ y \in Layer
    BY <1>3, <1>8
  <2>2. CASE y \in link[v]
    <3>1. link[y] = {w \in link[x] : w <= y} /\ link[y] = {w \in link[v] : w <= y}
      BY SMTT(40), <1>1, <1>4, <2>1, <2>2
    <3>2. Holding(x, k) \subseteq link[v]
      BY <1>8, <1>9, <3>1
    <3>3. QED
      BY <1>6, <2>2, <3>2
  <2>3. CASE y \notin link[v]
    <3>1. x \notin link[v]
      <4>1. SUFFICES ASSUME x \in link[v] PROVE FALSE
        OBVIOUS
      <4>2. link[x] = {w \in link[v] : w <= x}
        BY SMTT(40), <1>1, <1>4, <4>1
      <4>3. QED
        BY <2>1, <2>3, <4>2
    <3>2. QED
      BY <1>6, <1>9, <2>1, <2>3, <3>1
  <2>4. QED
    BY <2>2, <2>3
<1>10. ASSUME NEW x \in Layer, NEW k \in Key
       PROVE  HasNearest(x, k)'
  <2>1. CASE Holding(x, k) = {}
    BY <1>7, <2>1 DEF HasNearest
  <2>2. CASE Holding(x, k) # {}
    <3>1. PICK y \in Holding(x, k) : \A z \in Holding(x, k) : z <= y
      BY <2>2 DEF MInv, Reads, HasNearest
    <3>2. QED
      BY <1>9, <3>1 DEF HasNearest
  <2>3. QED
    BY <2>1, <2>2
<1>11. ASSUME NEW x \in Layer, Live(x), NEW k \in Key
       PROVE  Get(x, k)' = snap[x][k]
  <2>1. Get(x, k) = snap[x][k]
    BY <1>11 DEF MInv, Reads
  <2>2. CASE Holding(x, k) = {}
    <3>1. Holding(x, k)' = {}
      BY <1>7, <2>2
    <3>2. QED
      BY <1>2, <2>1, <2>2, <3>1 DEF Get
  <2>3. CASE Holding(x, k) # {}
    <3>1. PICK y \in Holding(x, k) : \A z \in Holding(x, k) : z <= y
      BY <2>3 DEF MInv, Reads, HasNearest
    <3>2. Get(x, k) = data[y][k]
      BY <1>8, <2>3, <3>1, ChooseGreatest DEF Get, Nearest
    <3>3. CASE y \notin link[v]
      <4>1. /\ y \in Layer /\ y \in Holding(x, k)' /\ \A z \in Holding(x, k)' : z <= y
            /\ Holding(x, k)' \subseteq Int
        BY <1>7, <1>8, <1>9, <3>1, <3>3
      <4>2. Nearest(x, k)' = y
        <5>1. (CHOOSE w \in Holding(x, k)' : \A z \in Holding(x, k)' : z <= w) = y
          BY <4>1, ChooseGreatest
        <5>2. QED
          BY <5>1 DEF Nearest
      <4>3. Get(x, k)' = data'[y][k]
        BY <4>1, <4>2 DEF Get
      <4>4. QED
        BY <1>1, <2>1, <3>2, <3>3, <4>1, <4>3
    <3>4. CASE y \in link[v]
      <4>1. Get(x, k)' = storage[k]
        BY <1>2, <1>9, <3>1, <3>4 DEF Get
      <4>2. diskTag \in Layer /\ diskTag \in tags
        BY DEF MInv, MTypeOK, Ordered
      <4>3. diskTag \in link[x] /\ Live(diskTag)
        BY <1>4, <1>11, <4>2 DEF MInv, Ordered, Live
      <4>4. y \in link[x] /\ y \in Layer /\ y \in Int /\ diskTag \in Int
        BY <1>3, <1>8, <3>1, <4>2
      <4>5. y <= diskTag
        <5>1. SUFFICES ASSUME diskTag <= y PROVE diskTag \in link[v]
          BY SMTT(40), <1>1, <1>4, <4>2, <4>4
        <5>2. link[y] = {w \in link[x] : w <= y} /\ link[y] = {w \in link[v] : w <= y}
          BY SMTT(40), <1>1, <1>4, <3>4, <4>4
        <5>3. QED
          BY <4>3, <5>1, <5>2
      <4>6. link[diskTag] = {w \in link[x] : w <= diskTag}
        BY <1>4, <4>3
      <4>7. y \in Holding(diskTag, k) /\ Holding(diskTag, k) \subseteq Holding(x, k)
        BY <3>1, <4>4, <4>5, <4>6 DEF Holding
      <4>8. Get(diskTag, k) = data[y][k]
        <5>1. Holding(diskTag, k) \subseteq Int /\ \A z \in Holding(diskTag, k) : z <= y
          BY <1>8, <3>1, <4>7
        <5>2. (CHOOSE w \in Holding(diskTag, k) : \A z \in Holding(diskTag, k) : z <= w) = y
          BY <4>7, <5>1, ChooseGreatest
        <5>3. QED
          BY <4>7, <5>2 DEF Get, Nearest
      <4>9. Get(diskTag, k) = storage[k]
        BY <4>2, <4>3 DEF MInv, Reads
      <4>10. QED
        BY <2>1, <3>2, <4>1, <4>8, <4>9
    <3>5. QED
      BY <3>3, <3>4
  <2>4. QED
    BY <2>2, <2>3
<1>12. Reads'
  <2>1. \A x \in Layer', k \in Key : HasNearest(x, k)'
    BY <1>1, <1>10
  <2>2. \A x \in Layer' : Live(x)' => \A k \in Key : Get(x, k)' = snap'[x][k]
    BY <1>1, <1>2, <1>11 DEF Live
  <2>3. storage' = snap'[diskTag']
    BY <1>2 DEF MInv, Reads
  <2>4. QED
    BY <2>1, <2>2, <2>3 DEF Reads
<1>13. QED
  BY <1>5, <1>7, <1>12

LEMMA FreeStep ==
    ASSUME MInv, FreeBefore
    PROVE  MInv'
<1>0. PICK v : v = Head(commits)
  OBVIOUS
<1>1. /\ v \in Layer /\ v = commits[1] /\ commits # <<>>
      /\ \A y \in line[v] : diskTag \notin line[y]
      /\ Layer' = Layer
      /\ \A x \in Layer : x \notin link[v] => link'[x] = link[x] \ link[v]
      /\ data' \in Seq([Key -> Item \cup {Unset}]) /\ link' \in Seq(SUBSET Layer)
      /\ DOMAIN link' = Layer
  BY <1>0, FreeChanges
<1>2. /\ UNCHANGED <<storage, diskTag, line, snap, head, stage, rd>>
      /\ flushing' = "free" /\ tags' = tags \ {v} /\ commits' = Tail(commits)
  BY <1>0 DEF FreeBefore, Free, dbVars
<1>3. /\ commits \in Seq(Layer) /\ Len(commits) \in Nat /\ Len(commits) > 0
      /\ DOMAIN commits = 1 .. Len(commits)
      /\ diskTag \in Layer /\ diskTag \in Range(commits) /\ tags = Range(commits)
  <2>1. MTypeOK /\ Ordered
    BY DEF MInv
  <2>2. commits \in Seq(Layer) /\ diskTag \in Layer /\ diskTag \in Range(commits)
    BY <2>1 DEF MTypeOK
  <2>3. tags = Range(commits)
    BY <2>1 DEF Ordered
  <2>4. commits # <<>>
    BY <1>1
  <2>5. QED
    BY SMTT(40), <2>2, <2>3, <2>4
<1>4. /\ commits' \in Seq(Layer) /\ DOMAIN commits' = 1 .. (Len(commits) - 1)
      /\ \A i \in DOMAIN commits' : i + 1 \in DOMAIN commits /\ commits'[i] = commits[i + 1]
  BY SMTT(40), <1>1, <1>2, <1>3
<1>5. v \in line[v] /\ link[v] \subseteq line[v]
  BY <1>1 DEF MInv, Links
<1>6. tags' = Range(commits')
  <2>1. ASSUME NEW w \in Range(commits') PROVE w \in tags /\ w # v
    <3>1. PICK i \in DOMAIN commits' : w = commits'[i]
      BY <2>1 DEF Range
    <3>2. i + 1 \in DOMAIN commits /\ w = commits[i + 1] /\ i \in 1 .. (Len(commits) - 1)
      BY <1>4, <3>1
    <3>3. w # v
      <4>1. SUFFICES ASSUME w = v PROVE FALSE
        OBVIOUS
      <4>2. 1 \in DOMAIN commits /\ commits[i + 1] \in line[commits[1]]
        BY SMTT(40), <1>1, <1>3, <1>5, <3>2, <4>1
      <4>3. i + 1 <= 1
        BY <3>2, <4>2 DEF MInv, Ordered
      <4>4. QED
        BY SMTT(40), <1>3, <3>2, <4>3
    <3>4. QED
      BY <1>3, <3>2, <3>3 DEF Range
  <2>2. ASSUME NEW w \in tags, w # v PROVE w \in Range(commits')
    <3>1. PICK i \in DOMAIN commits : w = commits[i]
      BY <1>3 DEF Range
    <3>2. i # 1
      BY <1>1, <2>2, <3>1
    <3>3. i - 1 \in DOMAIN commits' /\ (i - 1) + 1 = i
      BY SMTT(40), <1>3, <1>4, <3>2
    <3>4. commits'[i - 1] = w
      BY <1>4, <3>1, <3>3
    <3>5. QED
      BY <3>3, <3>4 DEF Range
  <2>3. QED
    BY <1>2, <2>1, <2>2
<1>7. MTypeOK'
  <2>1. diskTag # v
    BY <1>1, <1>3, <1>5 DEF MInv, Links
  <2>2. diskTag \in Range(commits')
    BY <1>2, <1>3, <1>6, <2>1
  <2>3. QED
    BY <1>1, <1>2, <1>4, <2>2 DEF MInv, MTypeOK
<1>8. Links' /\ Reads' /\ \A x \in Layer, k \in Key : Holding(x, k)' \subseteq Holding(x, k)
  BY FreeReads
<1>9. Leaves'
  <2>1. ASSUME NEW h \in Handle, stage[h] # 0, rd'[h] # Unset
        PROVE  Holding(stage[h], rd[h])' = {}
    <3>1. PICK x \in Layer : x = stage[h]
      BY <2>1 DEF MInv, MTypeOK
    <3>2. PICK k \in Key : k = rd[h]
      BY <1>2, <2>1 DEF MInv, MTypeOK
    <3>3. Holding(x, k) = {}
      BY <1>2, <2>1, <3>1, <3>2 DEF MInv, Leaves
    <3>4. Holding(x, k)' = {}
      BY <1>8, <3>3
    <3>5. QED
      BY <1>2, <3>1, <3>2, <3>4 DEF Holding
  <2>2. QED
    BY <1>1, <1>2, <2>1 DEF MInv, Leaves
<1>10. Ordered'
  <2>1. ASSUME NEW i \in DOMAIN commits', NEW j \in DOMAIN commits',
               commits'[j] \in line[commits'[i]]
        PROVE  j <= i
    <3>1. commits[j + 1] \in line[commits[i + 1]] /\ i + 1 \in DOMAIN commits /\ j + 1 \in DOMAIN commits
      BY <1>4, <2>1
    <3>2. j + 1 <= i + 1
      BY <3>1 DEF MInv, Ordered
    <3>3. QED
      BY SMTT(40), <1>3, <1>4, <3>2
  <2>2. ASSUME NEW t \in tags', NEW x \in Layer, t \in line[x], diskTag \in line[t]
        PROVE  t \in link'[x]
    <3>1. t \in tags /\ t \in link[x]
      BY <1>2, <2>2 DEF MInv, Ordered
    <3>2. t \notin line[v]
      BY <1>1, <2>2
    <3>3. x \notin link[v]
      BY <1>1, <1>5, <2>2, <3>2 DEF MInv, Links
    <3>4. QED
      BY <1>1, <1>5, <3>1, <3>2, <3>3
  <2>3. ASSUME NEW h \in Handle, stage[h] # 0, diskTag \in line[head[h]]
        PROVE  head[h] \in tags'
    <3>1. head[h] \in tags
      BY <2>3 DEF MInv, Ordered, Open, Live
    <3>2. head[h] # v
      BY <1>1, <1>5, <2>3
    <3>3. QED
      BY <1>2, <3>1, <3>2
  <2>4. QED
    BY <1>1, <1>2, <1>6, <2>1, <2>2, <2>3 DEF Ordered, Open, Live
<1>11. QED
  BY <1>7, <1>8, <1>9, <1>10 DEF MInv

-----------------------------------------------------------------------------
(* The start, and a restart. *)

LEMMA ReopenStep ==
    ASSUME MInv, Reopen
    PROVE  MInv'
<1>0. PICK m : m = NewLayer
  OBVIOUS
<1> DEFINE d == diskTag
<1>1. /\ m \in Nat /\ d \in Nat /\ d < m /\ d # 0 /\ d \in 1..m /\ m # 0
      /\ Layer = 1 .. (m - 1)
  BY SMTT(40), <1>0, LayerTypes DEF MInv, MTypeOK, NewLayer
<1>2. /\ storage' = storage /\ diskTag' = d /\ flushing' = "no"
      /\ rd' = [h \in Handle |-> Unset] /\ commits' = <<d>> /\ tags' = {d}
      /\ head' = [h \in Handle |-> IF h = Main THEN d ELSE 0]
      /\ stage' = [h \in Handle |-> IF h = Main THEN m ELSE 0]
      /\ line' = link'
  BY <1>0 DEF Reopen, dbVars
<1>3. /\ data' = [x \in 1..m |-> [k \in Key |-> Unset]]
      /\ link' = [x \in 1..m |-> IF x = m THEN {d, x} ELSE {x}]
      /\ snap' = [x \in 1..m |-> IF x = m THEN snap[d] ELSE snap[x]]
  BY <1>0 DEF Reopen
<1>4. \A x \in 1..(m - 1) : snap[x] \in [Key -> Item]
  BY <1>1, LayerTypes DEF MInv
<1>5. /\ data' \in [1..m -> [Key -> Item \cup {Unset}]]
      /\ link' \in [1..m -> SUBSET (1..m)]
      /\ snap' \in [1..m -> [Key -> Item]]
  <2>1. data' \in [1..m -> [Key -> Item \cup {Unset}]]
    BY <1>3
  <2>2. link' \in [1..m -> SUBSET (1..m)]
    BY <1>1, <1>3
  <2>3. snap' \in [1..m -> [Key -> Item]]
    BY SMTT(40), <1>1, <1>3, <1>4
  <2>4. QED
    BY <2>1, <2>2, <2>3
<1>6. /\ data' \in Seq([Key -> Item \cup {Unset}]) /\ DOMAIN data' = 1..m
      /\ link' \in Seq(SUBSET (1..m)) /\ DOMAIN link' = 1..m
      /\ snap' \in Seq([Key -> Item]) /\ DOMAIN snap' = 1..m
  BY <1>1, <1>5, FunctionSeq
<1>7. Layer' = 1..m
  BY <1>6 DEF Layer
<1>8. link'[m] = {d, m} /\ \A x \in 1..m : x # m => link'[x] = {x}
  BY SMTT(40), <1>1, <1>3
<1> HIDE DEF d
<1>9. /\ DOMAIN commits' = {1} /\ commits'[1] = d /\ commits' \in Seq(1..m)
      /\ Range(commits') = {d}
  <2>1. DOMAIN commits' = {1} /\ commits'[1] = d /\ commits' \in Seq(1..m)
    BY SMTT(40), <1>1, <1>2
  <2>2. QED
    BY <2>1 DEF Range
<1>10. /\ head' \in [Handle -> 1..m \cup {0}] /\ stage' \in [Handle -> 1..m \cup {0}]
       /\ rd' \in [Handle -> Key \cup {Unset}]
  BY SMTT(40), <1>1, <1>2
<1>11. MTypeOK'
  <2>1. storage \in [Key -> Item]
    BY DEF MInv, MTypeOK
  <2>2. QED
    BY <1>1, <1>2, <1>6, <1>7, <1>9, <1>10, <2>1 DEF MTypeOK
<1>12. Links'
  <2>1. ASSUME NEW x \in 1..m
        PROVE  /\ x \in link'[x]
               /\ \A y \in link'[x] : y <= x /\ link'[y] \subseteq link'[x]
               /\ \A z \in link'[x] : link'[z] = {y \in link'[x] : y <= z}
    <3>1. CASE x # m
      BY SMTT(40), <1>1, <1>8, <3>1
    <3>2. CASE x = m
      <4>1. link'[d] = {d} /\ d <= m /\ m <= m /\ d <= d /\ ~(m <= d)
        BY SMTT(40), <1>1, <1>8
      <4>2. QED
        BY SMTT(40), <1>8, <3>2, <4>1
    <3>3. QED
      BY <3>1, <3>2
  <2>2. QED
    BY <1>2, <1>7, <2>1 DEF Links
<1>13. Leaves'
  <2>1. Main \in Handle
    BY MvccAssumption
  <2>2. \A h \in Handle : rd'[h] = Unset /\ (head'[h] = d \/ head'[h] = 0)
    BY <1>2
  <2>3. \A h \in Handle : stage'[h] # 0 => h = Main /\ stage'[h] = m /\ head'[h] = d
    BY <1>2
  <2>4. \A x \in 1..m : m \in line'[x] => x = m
    BY <1>2, <1>8
  <2>5. d # m /\ m # 0 /\ d # 0
    BY SMTT(40), <1>1
  <2>6. QED
    BY <1>2, <1>7, <2>2, <2>3, <2>4, <2>5 DEF Leaves
<1>14. Ordered'
  <2>1. \A h \in Handle : Open(h)' => head'[h] = d
    BY <1>2 DEF Open
  <2>2. QED
    BY SMTT(40), <1>2, <1>9, <2>1 DEF Ordered
<1>15. Reads'
  <2>1. \A x \in 1..m, k \in Key : Holding(x, k)' = {}
    <3>1. ASSUME NEW x \in 1..m, NEW k \in Key, NEW y \in link'[x] PROVE data'[y][k] = Unset
      <4>1. y \in 1..m
        BY SMTT(40), <1>1, <1>8
      <4>2. QED
        BY <1>3, <4>1
    <3>2. QED
      BY <3>1 DEF Holding
  <2>2. \A x \in 1..m, k \in Key : Get(x, k)' = storage[k]
    BY <1>2, <2>1 DEF Get
  <2>3. storage = snap[d]
    BY DEF MInv, Reads, d
  <2>4. snap'[d] = snap[d] /\ snap'[m] = snap[d]
    BY SMTT(40), <1>1, <1>3 DEF d
  <2>5. \A x \in 1..m : Live(x)' => x = d \/ x = m
    BY <1>2, <1>8 DEF Live
  <2>6. QED
    BY <1>2, <1>7, <2>1, <2>2, <2>3, <2>4, <2>5 DEF Reads, HasNearest
<1>16. QED
  BY <1>11, <1>12, <1>13, <1>14, <1>15 DEF MInv

LEMMA InitInv ==
    ASSUME MInit
    PROVE  MInv
<1>1. /\ storage = [k \in Key |-> Absent] /\ diskTag = 1
      /\ data = <<[k \in Key |-> Unset], [k \in Key |-> Unset]>>
      /\ link = <<{1}, {1, 2}>> /\ line = link /\ snap = <<storage, storage>>
      /\ commits = <<1>> /\ tags = {1} /\ flushing = "no"
      /\ head = [h \in Handle |-> IF h = Main THEN 1 ELSE 0]
      /\ stage = [h \in Handle |-> IF h = Main THEN 2 ELSE 0]
      /\ rd = [h \in Handle |-> Unset]
  BY DEF MInit
<1>2. Layer = {1, 2} /\ DOMAIN link = {1, 2} /\ DOMAIN snap = {1, 2}
  BY SMTT(40), <1>1 DEF Layer
<1>3. data[1] = [k \in Key |-> Unset] /\ data[2] = [k \in Key |-> Unset]
  BY <1>1
<1>4. link[1] = {1} /\ link[2] = {1, 2}
  BY <1>1
<1>5. snap[1] = storage /\ snap[2] = storage
  BY <1>1
<1>6. DOMAIN commits = {1} /\ commits[1] = 1 /\ Range(commits) = {1}
  <2>1. DOMAIN commits = {1} /\ commits[1] = 1
    BY SMTT(40), <1>1
  <2>2. QED
    BY <2>1 DEF Range
<1>7. MTypeOK
  <2>1. storage \in [Key -> Item]
    BY <1>1 DEF Item
  <2>2. data \in Seq([Key -> Item \cup {Unset}])
    BY SMTT(40), <1>1
  <2>3. link \in Seq(SUBSET {1, 2}) /\ snap \in Seq([Key -> Item]) /\ commits \in Seq({1, 2})
    BY SMTT(40), <1>1, <2>1
  <2>4. /\ head \in [Handle -> {1, 2} \cup {0}] /\ stage \in [Handle -> {1, 2} \cup {0}]
        /\ rd \in [Handle -> Key \cup {Unset}]
    BY <1>1
  <2>5. QED
    BY <1>1, <1>2, <1>6, <2>1, <2>2, <2>3, <2>4 DEF MTypeOK
<1>8. Links
  <2>1. link[1] = {y \in link[1] : y <= 1} /\ link[1] = {y \in link[2] : y <= 1}
    BY SMTT(40), <1>4
  <2>2. link[2] = {y \in link[2] : y <= 2}
    BY SMTT(40), <1>4
  <2>3. QED
    BY SMTT(40), <1>1, <1>2, <1>4, <2>1, <2>2 DEF Links
<1>9. Leaves
  <2>1. \A h \in Handle : rd[h] = Unset /\ (head[h] = 1 \/ head[h] = 0)
    BY <1>1
  <2>2. \A h \in Handle : stage[h] # 0 => h = Main /\ stage[h] = 2 /\ head[h] = 1
    BY <1>1
  <2>3. \A x \in Layer : 2 \in line[x] => x = 2
    BY <1>1, <1>2, <1>4
  <2>4. QED
    BY SMTT(40), <1>1, <2>1, <2>2, <2>3 DEF Leaves
<1>10. Ordered
  <2>1. \A h \in Handle : Open(h) => head[h] = 1
    BY <1>1 DEF Open
  <2>2. \A t \in tags, x \in Layer : t \in line[x] => t \in link[x]
    BY <1>1
  <2>3. QED
    BY SMTT(40), <1>1, <1>6, <2>1, <2>2 DEF Ordered
<1>11. Reads
  <2>1. \A x \in Layer, k \in Key : Holding(x, k) = {}
    BY SMTT(40), <1>2, <1>3, <1>4 DEF Holding
  <2>2. QED
    BY <1>1, <1>2, <1>5, <2>1 DEF Reads, HasNearest, Get
<1>12. QED
  BY <1>7, <1>8, <1>9, <1>10, <1>11 DEF MInv

-----------------------------------------------------------------------------
(* The theorems. *)

LEMMA NextInv ==
    ASSUME MInv, [MNext]_mvars
    PROVE  MInv'
<1>1. ASSUME NEW h \in Handle, NEW k \in Key, GetCache(h, k) PROVE MInv'
  BY <1>1, GetCacheStep
<1>2. ASSUME NEW h \in Handle, NEW k \in Key, NEW i \in Item, Put(h, k, i) PROVE MInv'
  BY <1>2, PutStep
<1>3. ASSUME NEW h \in Handle, GetStorage(h) PROVE MInv'
  BY <1>3, GetStorageStep
<1>4. ASSUME NEW h \in Handle, NEW t \in tags, Checkout(h, t) PROVE MInv'
  BY <1>4, CheckoutStep
<1>5. ASSUME NEW h \in Handle, Commit(h) PROVE MInv'
  BY <1>5, CommitStep
<1>6. ASSUME NEW h \in Handle, NEW g \in Handle, ForkHandle(h, g) PROVE MInv'
  BY <1>6, ForkHandleStep
<1>7. ASSUME NEW t \in tags, FlushWrite(t) PROVE MInv'
  BY <1>7, FlushWriteStep
<1>8. ASSUME FreeBefore PROVE MInv'
  BY <1>8, FreeStep
<1>9. ASSUME FlushReturn PROVE MInv'
  BY <1>9, SameStep DEF FlushReturn
<1>10. ASSUME Reopen PROVE MInv'
  BY <1>10, ReopenStep
<1>11. ASSUME UNCHANGED mvars PROVE MInv'
  <2>1. /\ UNCHANGED <<dbVars, layerVars, commits, tags, head, stage, rd>>
        /\ flushing' \in {"no", "written", "free"}
    BY <1>11 DEF mvars, MInv, MTypeOK
  <2>2. QED
    BY <2>1, SameStep
<1>12. QED
  BY <1>1, <1>2, <1>3, <1>4, <1>5, <1>6, <1>7, <1>8, <1>9, <1>10, <1>11 DEF MNext

\* The inductive invariant: the types, the shape of the chains of layers, that stages
\* are leaves, the order of the commits, and what is read.
THEOREM StateInvariant == MSpec => []MInv
<1>1. MInit => MInv
  BY InitInv
<1>2. MInv /\ [MNext]_mvars => MInv'
  BY NextInv
<1>3. QED
  BY <1>1, <1>2, PTL DEF MSpec

\* For any keys, values and handles: the types.
THEOREM StateTypes == MSpec => []MTypeOK
<1>1. MInv => MTypeOK
  BY DEF MInv
<1>2. QED
  BY <1>1, StateInvariant, PTL

\* For any keys, values and handles: reading through a handle or a commit that builds
\* on the durable version gives its snapshot, also while Flush writes the batch and
\* frees the layers below, and after a restart at any moment.
THEOREM SnapshotReads == MSpec => []ReadsSnapshot
<1>1. MInv => ReadsSnapshot
  <2>1. SUFFICES ASSUME MInv PROVE ReadsSnapshot
    OBVIOUS
  <2>2. ASSUME NEW x \in Layer, Live(x) PROVE View(x) = snap[x]
    <3>1. snap[x] \in [Key -> Item]
      BY <2>1, LayerTypes DEF MInv
    <3>2. \A k \in Key : Get(x, k) = snap[x][k]
      BY <2>1, <2>2 DEF MInv, Reads
    <3>3. QED
      BY <3>1, <3>2 DEF View
  <2>3. ASSUME NEW h \in Handle, Open(h), Live(stage[h]), rd[h] # Unset
        PROVE  storage[rd[h]] = snap[stage[h]][rd[h]]
    <3>1. stage[h] \in Layer /\ rd[h] \in Key
      BY <2>1, <2>3 DEF MInv, MTypeOK, Open
    <3>2. Holding(stage[h], rd[h]) = {}
      BY <2>1, <2>3 DEF MInv, Leaves, Open
    <3>3. Get(stage[h], rd[h]) = snap[stage[h]][rd[h]]
      BY <2>1, <2>3, <3>1 DEF MInv, Reads
    <3>4. QED
      BY <3>2, <3>3 DEF Get
  <2>4. QED
    BY <2>2, <2>3 DEF ReadsSnapshot
<1>2. QED
  BY <1>1, StateInvariant, PTL

\* For any keys, values and handles: FreeBefore frees no commit that builds on the
\* durable version, so that the durable version and what a handle stands on can be
\* checked out.
THEOREM CommitsAvailable == MSpec => []Available
<1>1. MInv => Available
  BY DEF MInv, MTypeOK, Ordered, Available
<1>2. QED
  BY <1>1, StateInvariant, PTL

-----------------------------------------------------------------------------
(* The state database implements the versioned store.                       *)

\* The refinement mapping of ImplementsVersionedStore.
Versions == [t \in LiveTags |-> View(t)]
Views == [h \in Handle |-> IF Open(h) /\ Live(stage[h]) THEN View(stage[h]) ELSE Unset]

\* By the invariant the mapping is a matter of snapshots.
Mapping ==
    /\ Versions = [t \in LiveTags |-> snap[t]]
    /\ Views = [h \in Handle |-> IF Open(h) /\ Live(stage[h]) THEN snap[stage[h]] ELSE Unset]
    /\ storage = snap[diskTag]

LEMMA MappingHolds == MInv => Mapping
<1>1. SUFFICES ASSUME MInv PROVE Mapping
  OBVIOUS
<1>2. ASSUME NEW x \in Layer, Live(x) PROVE View(x) = snap[x]
  <2>1. snap[x] \in [Key -> Item]
    BY <1>1, LayerTypes DEF MInv
  <2>2. \A k \in Key : Get(x, k) = snap[x][k]
    BY <1>1, <1>2 DEF MInv, Reads
  <2>3. QED
    BY <2>1, <2>2 DEF View
<1>3. \A t \in LiveTags : View(t) = snap[t]
  BY <1>1, <1>2 DEF MInv, MTypeOK, LiveTags
<1>4. \A h \in Handle : Open(h) /\ Live(stage[h]) => View(stage[h]) = snap[stage[h]]
  BY <1>1, <1>2 DEF MInv, MTypeOK, Open
<1>5. Versions = [t \in LiveTags |-> snap[t]]
  BY <1>3 DEF Versions
<1>6. Views = [h \in Handle |-> IF Open(h) /\ Live(stage[h]) THEN snap[stage[h]] ELSE Unset]
  BY <1>4 DEF Views
<1>7. QED
  BY <1>1, <1>5, <1>6 DEF Mapping, MInv, Reads

\* Nothing is seen of a step that keeps the live commits, the live stages and their
\* snapshots.
LEMMA Unseen ==
    ASSUME Mapping, Mapping', storage' = storage, LiveTags' = LiveTags,
           \A t \in LiveTags : snap'[t] = snap[t],
           \A h \in Handle : /\ Open(h)' /\ Live(stage[h])' <=> Open(h) /\ Live(stage[h])
                             /\ Open(h) /\ Live(stage[h]) => snap'[stage'[h]] = snap[stage[h]]
    PROVE  Versions' = Versions /\ Views' = Views
<1>1. Versions' = [t \in LiveTags' |-> snap'[t]]
  BY DEF Mapping
<1>2. Views' = [h \in Handle |-> IF Open(h)' /\ Live(stage[h])' THEN snap'[stage'[h]] ELSE Unset]
  BY DEF Mapping
<1>3. QED
  BY SMTT(40), <1>1, <1>2 DEF Mapping

LEMMA StoreInit == MInit /\ Mapping => Store!Init
<1>1. SUFFICES ASSUME MInit, Mapping PROVE Store!Init
  OBVIOUS
<1>2. snap[1] = storage /\ snap[2] = storage /\ line[1] = {1} /\ line[2] = {1, 2}
  BY <1>1 DEF MInit
<1>3. LiveTags = {1}
  BY <1>1, <1>2 DEF MInit, LiveTags, Live
<1>4. Versions = [t \in {1} |-> storage]
  BY <1>1, <1>2, <1>3 DEF Mapping
<1>5. Views = [h \in Handle |-> IF h = Main THEN storage ELSE Unset]
  <2>1. \A h \in Handle : IF h = Main THEN stage[h] = 2 ELSE stage[h] = 0
    BY <1>1 DEF MInit
  <2>2. \A h \in Handle : Open(h) /\ Live(stage[h]) <=> h = Main
    BY SMTT(40), <1>1, <1>2, <2>1 DEF Open, Live, MInit
  <2>3. QED
    BY <1>1, <1>2, <2>1, <2>2 DEF Mapping
<1>6. storage \in [Key -> Item]
  BY <1>1 DEF MInit, Item
<1>7. Range(Versions) = {storage}
  BY <1>4 DEF Range
<1>8. QED
  BY <1>5, <1>6, <1>7 DEF Store!Init, Store!Range, Range, Versions, Views

-----------------------------------------------------------------------------
(* The steps. *)

LEMMA StorePut ==
    ASSUME MInv, Mapping, Mapping', NEW h \in Handle, NEW k \in Key, NEW i \in Item, Put(h, k, i)
    PROVE  Store!Write \/ UNCHANGED <<Versions, Views, storage>>
<1>0. PICK s : s = stage[h]
  OBVIOUS
<1>1. /\ UNCHANGED <<storage, diskTag, line, tags, stage>> /\ stage[h] # 0
      /\ snap' = [snap EXCEPT ![s][k] = i]
  BY <1>0 DEF Put, dbVars, Open
<1>2. /\ s \in Layer /\ s \notin tags
      /\ \A g \in Handle : stage[g] = s => g = h
  BY <1>0, <1>1 DEF MInv, MTypeOK, Leaves
<1>3. snap[s] \in [Key -> Item] /\ DOMAIN snap = Layer
  BY <1>2, LayerTypes DEF MInv, MTypeOK
<1>4. /\ snap'[s] = [snap[s] EXCEPT ![k] = i]
      /\ \A x \in Layer : x # s => snap'[x] = snap[x]
  BY <1>1, <1>2, <1>3
<1>5. LiveTags' = LiveTags /\ LiveTags \subseteq Layer /\ s \notin LiveTags
  BY <1>1, <1>2 DEF LiveTags, Live, MInv, MTypeOK
<1>6. \A t \in LiveTags : snap'[t] = snap[t]
  BY <1>4, <1>5
<1>7. \A g \in Handle : (Open(g)' /\ Live(stage[g])') <=> (Open(g) /\ Live(stage[g]))
  BY <1>1 DEF Open, Live
<1>8. \A g \in Handle : Open(g) /\ g # h => snap'[stage'[g]] = snap[stage[g]]
  <2>1. \A g \in Handle : Open(g) /\ g # h => stage[g] \in Layer /\ stage[g] # s
    BY <1>2 DEF Open, MInv, MTypeOK
  <2>2. QED
    BY <1>1, <1>4, <2>1
<1>9. CASE ~Live(stage[h])
  <2>1. Versions' = Versions /\ Views' = Views
    BY <1>1, <1>5, <1>6, <1>7, <1>8, <1>9, Unseen
  <2>2. QED
    BY <1>1, <2>1
<1>10. CASE Live(stage[h])
  <2>1. Versions' = Versions
    BY <1>5, <1>6 DEF Mapping
  <2>2. Views[h] = snap[s] /\ Views[h] # Unset
    <3>1. Views[h] = snap[s]
      BY <1>0, <1>1, <1>10 DEF Mapping, Open
    <3>2. QED
      BY <1>3, <3>1, MvccAssumption
  <2>3. Views' = [g \in Handle |-> IF Open(g)' /\ Live(stage[g])' THEN snap'[stage'[g]] ELSE Unset]
    BY DEF Mapping
  <2>4. Views = [g \in Handle |-> IF Open(g) /\ Live(stage[g]) THEN snap[stage[g]] ELSE Unset]
    BY DEF Mapping
  <2>5. Views'[h] = [Views[h] EXCEPT ![k] = i]
    BY <1>0, <1>1, <1>4, <1>7, <1>10, <2>2, <2>3 DEF Open
  <2>6. \A g \in Handle : g # h => Views'[g] = Views[g]
    BY <1>7, <1>8, <2>3, <2>4
  <2>7. Views' = [Views EXCEPT ![h] = [Views[h] EXCEPT ![k] = i]]
    BY <2>3, <2>4, <2>5, <2>6
  <2>8. Views' = [Views EXCEPT ![h][k] = i]
    BY <2>7
  <2>9. \E f \in Handle, l \in Key, j \in Item :
           Views[f] # Unset /\ Views' = [Views EXCEPT ![f][l] = j]
    BY <2>2, <2>8
  <2>10. UNCHANGED <<Versions, storage>>
    BY <1>1, <2>1
  <2>11. QED
    BY <2>9, <2>10, Zenon DEF Store!Write, Versions, Views
<1>11. QED
  BY <1>9, <1>10

\* What a fork of a layer c, which becomes the stage of g, does to the live stages.
LEMMA MovedViews ==
    ASSUME MInv, Mapping, Mapping', NEW c \in Layer, NEW g \in Handle, Fork(c),
           UNCHANGED dbVars, stage' = [stage EXCEPT ![g] = NewLayer]
    PROVE  /\ Views' = [Views EXCEPT ![g] = IF Live(c) THEN snap[c] ELSE Unset]
           /\ \A t \in Layer : (Live(t)' <=> Live(t)) /\ snap'[t] = snap[t]
<1>0. PICK n : n = NewLayer
  OBVIOUS
<1>1. /\ n # 0 /\ n \notin Layer
      /\ \A x \in Layer : line'[x] = line[x] /\ snap'[x] = snap[x]
      /\ line'[n] = line[c] \cup {n} /\ snap'[n] = snap[c]
  <2>1. n \in Int /\ Layer \subseteq Int /\ \A x \in Layer : x < n
    BY <1>0, ForkChanges, LayerTypes DEF MInv
  <2>2. QED
    BY SMTT(40), <1>0, <2>1, ForkChanges DEF MInv
<1>2. /\ diskTag' = diskTag /\ diskTag \in Layer
      /\ stage \in [Handle -> Layer \cup {0}] /\ stage' = [stage EXCEPT ![g] = n]
  BY <1>0 DEF MInv, MTypeOK, dbVars
<1>3. stage'[g] = n /\ \A f \in Handle : f # g => stage'[f] = stage[f]
  BY <1>2
<1>4. \A t \in Layer : (Live(t)' <=> Live(t)) /\ snap'[t] = snap[t]
  BY <1>1, <1>2 DEF Live
<1>5. Views = [f \in Handle |-> IF Open(f) /\ Live(stage[f]) THEN snap[stage[f]] ELSE Unset]
  BY DEF Mapping
<1>6. Views' = [f \in Handle |-> IF Open(f)' /\ Live(stage[f])' THEN snap'[stage'[f]] ELSE Unset]
  BY DEF Mapping
<1>7. Views'[g] = IF Live(c) THEN snap[c] ELSE Unset
  <2>1. Open(g)' /\ (Live(stage[g])' <=> Live(c))
    BY SMTT(40), <1>1, <1>2, <1>3 DEF Open, Live
  <2>2. QED
    BY <1>1, <1>3, <1>6, <2>1
<1>8. ASSUME NEW f \in Handle, f # g PROVE Views'[f] = Views[f]
  <2>1. CASE stage[f] = 0
    BY <1>3, <1>5, <1>6, <1>8, <2>1 DEF Open
  <2>2. CASE stage[f] # 0
    <3>1. stage[f] \in Layer /\ stage'[f] = stage[f]
      BY <1>2, <1>3, <1>8, <2>2
    <3>2. (Live(stage[f])' <=> Live(stage[f])) /\ (Open(f)' <=> Open(f))
      BY SMTT(40), <1>1, <1>2, <3>1 DEF Open, Live
    <3>3. QED
      BY <1>1, <1>5, <1>6, <3>1, <3>2
  <2>3. QED
    BY <2>1, <2>2
<1>9. Views' = [Views EXCEPT ![g] = IF Live(c) THEN snap[c] ELSE Unset]
  BY SMTT(40), <1>5, <1>6, <1>7, <1>8
<1>10. QED
  BY <1>4, <1>9

\* Checkout and CacheMVCCDB.Fork.
LEMMA StoreMove ==
    ASSUME MInv, Mapping, Mapping', NEW c \in Layer, NEW g \in Handle, Fork(c),
           UNCHANGED <<dbVars, tags>>, stage' = [stage EXCEPT ![g] = NewLayer],
           Live(c) => c \in tags
    PROVE  Store!Move
<1>1. /\ Views' = [Views EXCEPT ![g] = IF Live(c) THEN snap[c] ELSE Unset]
      /\ \A t \in Layer : (Live(t)' <=> Live(t)) /\ snap'[t] = snap[t]
  BY MovedViews
<1>2. LiveTags' = LiveTags /\ LiveTags \subseteq Layer
  <2>1. tags \subseteq Layer /\ tags' = tags
    BY DEF MInv, MTypeOK
  <2>2. QED
    BY <1>1, <2>1 DEF LiveTags
<1>3. Versions = [t \in LiveTags |-> snap[t]] /\ Versions' = [t \in LiveTags' |-> snap'[t]]
  BY DEF Mapping
<1>4. Versions' = Versions /\ storage' = storage
  BY <1>1, <1>2, <1>3 DEF dbVars
<1>5. Live(c) => snap[c] \in Range(Versions)
  <2>1. SUFFICES ASSUME Live(c) PROVE snap[c] \in Range(Versions)
    OBVIOUS
  <2>2. c \in LiveTags
    BY <2>1 DEF LiveTags
  <2>3. c \in DOMAIN Versions /\ Versions[c] = snap[c]
    BY <1>3, <2>2
  <2>4. QED
    BY <2>3 DEF Range
<1>6. PICK v \in Range(Versions) \cup {Unset} : Views' = [Views EXCEPT ![g] = v]
  BY <1>1, <1>5
<1>7. QED
  BY <1>4, <1>6 DEF Store!Move, Store!Range, Range, Versions, Views

LEMMA StoreCommit ==
    ASSUME MInv, Mapping, Mapping', NEW h \in Handle, Commit(h)
    PROVE  Store!Commit \/ UNCHANGED <<Versions, Views, storage>>
<1>0. PICK c : c = stage[h]
  OBVIOUS
<1>1. c \in Layer /\ c \notin tags /\ tags \subseteq Layer /\ Open(h)
  BY <1>0 DEF MInv, MTypeOK, Leaves, Commit, Open
<1>2. /\ Fork(c) /\ UNCHANGED dbVars /\ storage' = storage /\ tags' = tags \cup {c}
      /\ stage' = [stage EXCEPT ![h] = NewLayer]
  BY <1>0 DEF Commit, dbVars
<1>3. /\ Views' = [Views EXCEPT ![h] = IF Live(c) THEN snap[c] ELSE Unset]
      /\ \A t \in Layer : (Live(t)' <=> Live(t)) /\ snap'[t] = snap[t]
  BY <1>1, <1>2, MovedViews
<1>4. Views = [f \in Handle |-> IF Open(f) /\ Live(stage[f]) THEN snap[stage[f]] ELSE Unset]
  BY DEF Mapping
<1>5. Views[h] = IF Live(c) THEN snap[c] ELSE Unset
  BY <1>0, <1>1, <1>4
<1>6. Views' = Views
  BY <1>3, <1>4, <1>5
<1>7. Versions = [t \in LiveTags |-> snap[t]] /\ Versions' = [t \in LiveTags' |-> snap'[t]]
  BY DEF Mapping
<1>8. CASE ~Live(c)
  <2>1. LiveTags' = LiveTags /\ LiveTags \subseteq Layer
    BY <1>1, <1>2, <1>3, <1>8 DEF LiveTags
  <2>2. Versions' = Versions
    BY <1>3, <1>7, <2>1
  <2>3. QED
    BY <1>2, <1>6, <2>2
<1>9. CASE Live(c)
  <2>1. LiveTags' = LiveTags \cup {c} /\ LiveTags \subseteq Layer /\ c \notin LiveTags
    BY <1>1, <1>2, <1>3, <1>9 DEF LiveTags
  <2>2. DOMAIN Versions = LiveTags /\ DOMAIN Versions' = LiveTags \cup {c}
    BY <1>7, <2>1
  <2>3. Views[h] = snap[c] /\ snap[c] \in [Key -> Item]
    BY <1>1, <1>5, <1>9, LayerTypes DEF MInv
  <2>4. Views[h] # Unset
    BY <2>3, MvccAssumption
  <2>5. Versions' = [u \in DOMAIN Versions \cup {c} |-> IF u = c THEN Views[h] ELSE Versions[u]]
    <3>1. \A u \in LiveTags \cup {c} : snap'[u] = IF u = c THEN Views[h] ELSE Versions[u]
      BY <1>1, <1>3, <1>7, <2>1, <2>3
    <3>2. QED
      BY <1>7, <2>1, <2>2, <3>1
  <2>6. \E f \in Handle, t \in DOMAIN Versions' \ DOMAIN Versions :
           /\ Views[f] # Unset
           /\ Versions' = [u \in DOMAIN Versions \cup {t} |-> IF u = t THEN Views[f] ELSE Versions[u]]
    <3>1. c \in DOMAIN Versions' \ DOMAIN Versions
      BY <2>1, <2>2
    <3>2. QED
      BY <2>4, <2>5, <3>1
  <2>7. UNCHANGED <<Views, storage>>
    BY <1>2, <1>6
  <2>8. QED
    BY <2>6, <2>7, Zenon DEF Store!Commit, Versions, Views
<1>10. QED
  BY <1>8, <1>9

LEMMA StoreFlush ==
    ASSUME MInv, Mapping, Mapping', NEW t \in tags, FlushWrite(t)
    PROVE  Store!Flush
<1>1. /\ t \in Layer /\ Live(t) /\ tags \subseteq Layer /\ diskTag' = t
      /\ UNCHANGED <<line, snap, tags, stage>>
  BY DEF MInv, MTypeOK, FlushWrite, layerVars
<1>2. \A x \in Layer : t \in line[x] => Live(x)
  BY <1>1 DEF MInv, Links, Live
<1>3. LiveTags' \subseteq LiveTags /\ t \in LiveTags'
  <2>1. t \in line[t]
    BY <1>1 DEF MInv, Links
  <2>2. QED
    BY <1>1, <1>2, <2>1 DEF LiveTags, Live
<1>4. Versions = [u \in LiveTags |-> snap[u]] /\ Versions' = [u \in LiveTags' |-> snap'[u]]
  BY DEF Mapping
<1>5. DOMAIN Versions' = LiveTags' /\ DOMAIN Versions = LiveTags
  BY <1>4
<1>6. storage' = Versions[t]
  BY <1>1, <1>3, <1>4 DEF Mapping
<1>7. Versions' = [u \in DOMAIN Versions' |-> Versions[u]]
  BY <1>1, <1>3, <1>4, <1>5
<1>8. Views = [h \in Handle |-> IF Open(h) /\ Live(stage[h]) THEN snap[stage[h]] ELSE Unset]
  BY DEF Mapping
<1>9. Views' = [h \in Handle |-> IF Open(h)' /\ Live(stage[h])' THEN snap'[stage'[h]] ELSE Unset]
  BY DEF Mapping
<1>10. ASSUME NEW h \in Handle PROVE Views'[h] \in {Views[h], Unset}
  <2>1. CASE Open(h)' /\ Live(stage[h])'
    <3>1. Open(h) /\ stage[h] \in Layer /\ t \in line[stage[h]]
      BY <1>1, <2>1 DEF Open, Live, MInv, MTypeOK
    <3>2. Views'[h] = snap[stage[h]] /\ Views[h] = snap[stage[h]]
      BY <1>1, <1>2, <1>8, <1>9, <2>1, <3>1
    <3>3. QED
      BY <3>2
  <2>2. CASE ~(Open(h)' /\ Live(stage[h])')
    BY <1>9, <2>2
  <2>3. QED
    BY <2>1, <2>2
<1>11. \E u \in DOMAIN Versions' : storage' = Versions[u]
  BY <1>3, <1>5, <1>6
<1>12. DOMAIN Versions' \subseteq DOMAIN Versions
  BY <1>3, <1>5
<1>13. DOMAIN Views' = Handle
  BY <1>9
<1>14. \A h \in Handle : Views'[h] \in {Views[h], Unset}
  BY <1>10
<1>15. QED
  BY <1>7, <1>11, <1>12, <1>13, <1>14, Zenon DEF Store!Flush, Store!Restrict, Versions, Views

\* FreeBefore is not seen: what it frees is not live.
LEMMA StoreFree ==
    ASSUME MInv, Mapping, Mapping', FreeBefore
    PROVE  UNCHANGED <<Versions, Views, storage>>
<1>0. PICK v : v = Head(commits)
  OBVIOUS
<1>1. v \in Layer /\ \A y \in line[v] : diskTag \notin line[y]
  BY <1>0, FreeChanges
<1>2. UNCHANGED <<storage, diskTag, line, snap, stage>> /\ tags' = tags \ {v}
  BY <1>0 DEF FreeBefore, Free, dbVars
<1>3. v \notin LiveTags
  BY <1>1 DEF LiveTags, Live, MInv, Links
<1>4. LiveTags' = LiveTags
  BY <1>2, <1>3 DEF LiveTags, Live
<1>5. \A h \in Handle : /\ (Open(h)' /\ Live(stage[h])') <=> (Open(h) /\ Live(stage[h]))
                        /\ Open(h) /\ Live(stage[h]) => snap'[stage'[h]] = snap[stage[h]]
  BY <1>2 DEF Open, Live
<1>6. QED
  BY <1>2, <1>4, <1>5, Unseen

LEMMA StoreReopen ==
    ASSUME MInv, Mapping, Mapping', Reopen
    PROVE  Store!Restart
<1>0. PICK m : m = NewLayer
  OBVIOUS
<1>1. PICK d : d = diskTag
  OBVIOUS
<1>2. m \in Nat /\ d \in Nat /\ d < m /\ d \in 1..m /\ m \in 1..m /\ m # 0
  BY SMTT(40), <1>0, <1>1, LayerTypes DEF MInv, MTypeOK, NewLayer
<1>3. /\ storage' = storage /\ diskTag' = d /\ tags' = {d}
      /\ stage' = [h \in Handle |-> IF h = Main THEN m ELSE 0]
      /\ line' = [x \in 1..m |-> IF x = m THEN {d, x} ELSE {x}]
      /\ snap' = [x \in 1..m |-> IF x = m THEN snap[d] ELSE snap[x]]
  BY <1>0, <1>1 DEF Reopen, dbVars
<1>4. line'[d] = {d} /\ line'[m] = {d, m} /\ snap'[d] = storage /\ snap'[m] = storage
  BY <1>1, <1>2, <1>3 DEF Mapping
<1>5. LiveTags' = {d}
  BY <1>3, <1>4 DEF LiveTags, Live
<1>6. Versions' = [u \in {d} |-> storage]
  BY <1>4, <1>5 DEF Mapping
<1>7. d \in DOMAIN Versions
  <2>1. d \in LiveTags
    BY <1>1 DEF MInv, MTypeOK, Links, Ordered, LiveTags, Live
  <2>2. QED
    BY <2>1 DEF Mapping
<1>8. Views' = [h \in Handle |-> IF h = Main THEN storage ELSE Unset]
  <2>1. \A h \in Handle : IF h = Main THEN stage'[h] = m ELSE stage'[h] = 0
    BY <1>3
  <2>2. \A h \in Handle : (Open(h)' /\ Live(stage[h])') <=> h = Main
    BY <1>2, <1>3, <1>4, <2>1 DEF Open, Live
  <2>3. Views' = [h \in Handle |-> IF Open(h)' /\ Live(stage[h])' THEN snap'[stage'[h]] ELSE Unset]
    BY DEF Mapping
  <2>4. QED
    BY <1>4, <2>1, <2>2, <2>3
<1>9. \E t \in DOMAIN Versions : Versions' = [u \in {t} |-> storage]
  BY <1>6, <1>7
<1>10. UNCHANGED storage
  BY <1>3
<1>11. QED
  BY <1>8, <1>9, <1>10, Zenon DEF Store!Restart, Versions, Views

\* Get and the end of Flush, and stuttering.
LEMMA StoreSame ==
    ASSUME Mapping, Mapping', UNCHANGED <<dbVars, layerVars, tags, stage>>
    PROVE  UNCHANGED <<Versions, Views, storage>>
<1>1. UNCHANGED <<storage, diskTag, line, snap, stage, tags>>
  BY DEF dbVars, layerVars
<1>2. LiveTags' = LiveTags
  BY <1>1 DEF LiveTags, Live
<1>3. \A h \in Handle : /\ (Open(h)' /\ Live(stage[h])') <=> (Open(h) /\ Live(stage[h]))
                        /\ Open(h) /\ Live(stage[h]) => snap'[stage'[h]] = snap[stage[h]]
  BY <1>1 DEF Open, Live
<1>4. QED
  BY <1>1, <1>2, <1>3, Unseen

LEMMA StoreStep ==
    ASSUME MInv, Mapping, Mapping', [MNext]_mvars
    PROVE  [Store!Next]_(Store!vvars)
<1> DEFINE Goal == Store!Next \/ UNCHANGED <<Versions, Views, storage>>
<1>1. ASSUME NEW h \in Handle, NEW k \in Key, GetCache(h, k) PROVE Goal
  BY <1>1, StoreSame DEF GetCache
<1>2. ASSUME NEW h \in Handle, NEW k \in Key, NEW i \in Item, Put(h, k, i) PROVE Goal
  BY <1>2, StorePut DEF Store!Next
<1>3. ASSUME NEW h \in Handle, GetStorage(h) PROVE Goal
  BY <1>3, StoreSame DEF GetStorage
<1>4. ASSUME NEW h \in Handle, NEW t \in tags, Checkout(h, t) PROVE Goal
  <2>1. t \in Layer
    BY DEF MInv, MTypeOK
  <2>2. Store!Move
    BY <1>4, <2>1, StoreMove DEF Checkout
  <2>3. QED
    BY <2>2 DEF Store!Next
<1>5. ASSUME NEW h \in Handle, Commit(h) PROVE Goal
  BY <1>5, StoreCommit DEF Store!Next
<1>6. ASSUME NEW h \in Handle, NEW g \in Handle, ForkHandle(h, g) PROVE Goal
  <2>1. head[h] \in Layer /\ (Live(head[h]) => head[h] \in tags)
    BY <1>6 DEF MInv, MTypeOK, Leaves, Ordered, ForkHandle, Open
  <2>2. Store!Move
    BY <1>6, <2>1, StoreMove DEF ForkHandle
  <2>3. QED
    BY <2>2 DEF Store!Next
<1>7. ASSUME NEW t \in tags, FlushWrite(t) PROVE Goal
  BY <1>7, StoreFlush DEF Store!Next
<1>8. ASSUME FreeBefore PROVE Goal
  BY <1>8, StoreFree
<1>9. ASSUME FlushReturn PROVE Goal
  BY <1>9, StoreSame DEF FlushReturn
<1>10. ASSUME Reopen PROVE Goal
  BY <1>10, StoreReopen DEF Store!Next
<1>11. ASSUME UNCHANGED mvars PROVE Goal
  BY <1>11, StoreSame DEF mvars
<1>12. Goal
  BY <1>1, <1>2, <1>3, <1>4, <1>5, <1>6, <1>7, <1>8, <1>9, <1>10, <1>11 DEF MNext
<1>13. QED
  BY <1>12, Zenon DEF Store!vvars, Versions, Views

\* For any keys, values and handles: the layers, the storage and Flush, with a restart
\* at any moment, implement the versioned store.
THEOREM StateRefinement == MSpec => ImplementsVersionedStore
<1>1. MInit /\ Mapping => Store!Init
  BY StoreInit
<1>2. MInv /\ Mapping /\ Mapping' /\ [MNext]_mvars => [Store!Next]_(Store!vvars)
  BY StoreStep
<1>3. MInv => Mapping
  BY MappingHolds
<1>4. QED
  BY <1>1, <1>2, <1>3, StateInvariant, PTL DEF MSpec, ImplementsVersionedStore, Store!Spec
=============================================================================
