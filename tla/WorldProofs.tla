------------------------------ MODULE WorldProofs ------------------------------
(***************************************************************************)
(* Proofs about World: a schematic of any size is cut into chunks and      *)
(* sections block by block, the spawn chunk is the one around the spawn,   *)
(* what a client unpacks from it is what was packed, and a dimension made  *)
(* for the schematic holds all of it.                                      *)
(***************************************************************************)
EXTENDS World, ConversionProofs, FiniteSetTheorems

-----------------------------------------------------------------------------
(***************************************************************************)
(* Places and their numbers.                                               *)
(***************************************************************************)

\* A place in a box of w by l, layer by layer, and its number.
LEMMA Numbered ==
    ASSUME NEW n \in Nat, NEW w \in Nat \ {0}, NEW l \in Nat \ {0}
    PROVE  /\ n % w \in Nat /\ n % w < w
           /\ (n \div w) % l \in Nat /\ (n \div w) % l < l
           /\ n \div (w * l) \in Nat
           /\ ((n \div (w * l)) * l + ((n \div w) % l)) * w + (n % w) = n
<1> DEFINE q == n \div w
           x == n % w
           y == q \div l
           z == q % l
<1>1. q \in Nat /\ x \in Nat /\ x < w /\ n = w * q + x
  BY Divides
<1>2. y \in Nat /\ z \in Nat /\ z < l /\ q = l * y + z
  <2> HIDE DEF q
  <2> QED
    BY <1>1, Divides
<1>3. n \div (w * l) = y
  <2>1. n \in Int
    OBVIOUS
  <2>2. \A i \in Int, a, b \in Nat \ {0} : i \div (a * b) = (i \div a) \div b
    BY Twice
  <2> QED
    BY <2>1, <2>2, Zenon
<1> HIDE DEF q, x, y, z
<1>4. (y * l + z) * w + x = n
  BY <1>1, <1>2
<1> QED
  BY <1>1, <1>2, <1>3, <1>4 DEF q, x, z

LEMMA OnePlace ==
    ASSUME NEW w \in Nat \ {0}, NEW l \in Nat \ {0},
           NEW x \in Nat, x < w, NEW z \in Nat, z < l, NEW y \in Nat,
           NEW x2 \in Nat, x2 < w, NEW z2 \in Nat, z2 < l, NEW y2 \in Nat,
           (y * l + z) * w + x = (y2 * l + z2) * w + x2
    PROVE  x = x2 /\ y = y2 /\ z = z2
<1> DEFINE q == y * l + z
           q2 == y2 * l + z2
<1>1. q \in Nat /\ q2 \in Nat /\ q = l * y + z /\ q2 = l * y2 + z2
  OBVIOUS
<1>2. w * q + x = w * q2 + x2
  BY <1>1
<1> HIDE DEF q, q2
<1>3. /\ (w * q + x) \div w = q /\ (w * q + x) % w = x
      /\ (w * q2 + x2) \div w = q2 /\ (w * q2 + x2) % w = x2
  BY <1>1, Quotients
<1>4. x = x2 /\ q = q2
  BY <1>2, <1>3
<1>5. /\ (l * y + z) \div l = y /\ (l * y + z) % l = z
      /\ (l * y2 + z2) \div l = y2 /\ (l * y2 + z2) % l = z2
  BY Quotients
<1> QED
  BY <1>1, <1>4, <1>5

\* The number lies between those of its layer's first place and the next layer's.
LEMMA InLayer ==
    ASSUME NEW w \in Nat \ {0}, NEW l \in Nat \ {0},
           NEW x \in Nat, x < w, NEW z \in Nat, z < l, NEW y \in Nat
    PROVE  /\ (y * l + z) * w + x \in Nat
           /\ y * l * w <= (y * l + z) * w + x
           /\ (y * l + z) * w + x < (y + 1) * l * w
<1>1. z * w \in Nat /\ (z + 1) * w <= l * w
  OBVIOUS
<1>2. y * l \in Nat /\ y * l * w \in Nat
  OBVIOUS
<1>3. (y * l + z) * w + x = y * l * w + (z * w + x)
  BY <1>1, <1>2
<1>4. (y + 1) * l * w = y * l * w + l * w
  BY <1>2
<1>5. z * w + x < l * w
  BY <1>1
<1> QED
  BY <1>1, <1>2, <1>3, <1>4, <1>5

LEMMA EdgeIs == Edge \in Nat \ {0} /\ Volume = Edge * Edge * Edge /\ Volume \in Nat \ {0}
<1>1. Edge \in Nat \ {0}
  BY WorldAssumption
<1>2. Edge * Edge \in Nat \ {0}
  BY <1>1
<1>3. Edge * Edge * Edge \in Nat \ {0}
  BY <1>1, <1>2
<1> QED
  BY <1>1, <1>3 DEF Volume

\* The coordinates of a cell in its section.
LEMMA CellIs ==
    ASSUME NEW c \in Cells
    PROVE  /\ c \in Nat
           /\ c % Edge \in Nat /\ c % Edge < Edge
           /\ (c \div Edge) % Edge \in Nat /\ (c \div Edge) % Edge < Edge
           /\ c \div (Edge * Edge) \in Nat /\ c \div (Edge * Edge) < Edge
           /\ sectionIndexInChunk(c % Edge, c \div (Edge * Edge), (c \div Edge) % Edge) = c
<1>1. Edge \in Nat \ {0} /\ Edge * Edge \in Nat \ {0}
  BY EdgeIs
<1>2. c \in Nat /\ c < (Edge * Edge) * Edge
  BY EdgeIs DEF Cells
<1>3. c \div (Edge * Edge) < Edge
  <2>1. \A a \in Int, b \in Nat \ {0}, k \in Int : a < b * k => a \div b < k
    BY Below
  <2> QED
    BY <1>1, <1>2, <2>1
<1> QED
  BY <1>1, <1>2, <1>3, Numbered DEF sectionIndexInChunk

LEMMA CellOf ==
    ASSUME NEW a \in Nat, a < Edge, NEW b \in Nat, b < Edge, NEW d \in Nat, d < Edge,
           NEW c, c = sectionIndexInChunk(a, b, d)
    PROVE  /\ c \in Cells
           /\ c % Edge = a /\ c \div (Edge * Edge) = b /\ (c \div Edge) % Edge = d
<1>1. Edge \in Nat \ {0}
  BY EdgeIs
<1>2. c \in Nat /\ c = (b * Edge + d) * Edge + a /\ c < (b + 1) * Edge * Edge
  BY <1>1, InLayer DEF sectionIndexInChunk
<1>3. c < Volume
  <2>1. (b + 1) * Edge <= Edge * Edge
    BY <1>1
  <2>2. (b + 1) * Edge \in Nat /\ Edge * Edge \in Nat
    BY <1>1
  <2>3. (b + 1) * Edge * Edge <= Edge * Edge * Edge
    BY <1>1, <2>1, <2>2
  <2> QED
    BY <1>2, <2>2, <2>3, <1>1, EdgeIs
<1>4. c \in Cells
  BY <1>2, <1>3, EdgeIs DEF Cells
<1> DEFINE q == b * Edge + d
<1>5. q \in Nat /\ c = Edge * q + a /\ q = Edge * b + d
  BY <1>1, <1>2
<1> HIDE DEF q
<1>6. c \div Edge = q /\ c % Edge = a
  <2>1. (Edge * q + a) \div Edge = q /\ (Edge * q + a) % Edge = a
    BY <1>1, <1>5, Quotients
  <2> QED
    BY <1>5, <2>1
<1>7. q \div Edge = b /\ q % Edge = d
  <2>1. \A e \in Nat \ {0}, i, r \in Nat :
            r < e => (e * i + r) \div e = i /\ (e * i + r) % e = r
    BY Quotients
  <2>2. d < Edge
    OBVIOUS
  <2>3. (Edge * b + d) \div Edge = b /\ (Edge * b + d) % Edge = d
    BY <1>1, <2>1, <2>2, Zenon
  <2> QED
    BY <1>5, <2>3, Zenon
<1>8. c \div (Edge * Edge) = b
  <2>1. \A n \in Int, w, l \in Nat \ {0} : n \div (w * l) = (n \div w) \div l
    BY Twice
  <2>2. c \in Int
    BY <1>2
  <2>3. c \div (Edge * Edge) = (c \div Edge) \div Edge
    BY <1>1, <2>1, <2>2, Zenon
  <2> QED
    BY <1>6, <1>7, <2>3, Zenon
<1> QED
  BY <1>4, <1>6, <1>7, <1>8, Zenon

\* A coordinate is that of its chunk or section and the one inside it.
LEMMA Split ==
    /\ \A p, a \in Nat : a < Edge => (p * Edge + a) \div Edge = p /\ (p * Edge + a) % Edge = a
    /\ \A x \in Nat : /\ x \div Edge \in Nat /\ x % Edge \in Nat /\ x % Edge < Edge
                      /\ x = (x \div Edge) * Edge + (x % Edge)
<1>1. Edge \in Nat \ {0}
  BY EdgeIs
<1>2. ASSUME NEW p \in Nat, NEW a \in Nat, a < Edge
      PROVE  (p * Edge + a) \div Edge = p /\ (p * Edge + a) % Edge = a
  <2>1. p * Edge + a = Edge * p + a
    BY <1>1
  <2>2. (Edge * p + a) \div Edge = p /\ (Edge * p + a) % Edge = a
    BY <1>1, <1>2, Quotients
  <2> QED
    BY <2>1, <2>2
<1>3. ASSUME NEW x \in Nat
      PROVE  /\ x \div Edge \in Nat /\ x % Edge \in Nat /\ x % Edge < Edge
             /\ x = (x \div Edge) * Edge + (x % Edge)
  <2> DEFINE q == x \div Edge
             r == x % Edge
  <2>1. q \in Nat /\ r \in Nat /\ r < Edge /\ x = Edge * q + r
    BY <1>1, Divides
  <2> HIDE DEF q, r
  <2>2. x = q * Edge + r
    BY <1>1, <2>1
  <2> QED
    BY <2>1, <2>2 DEF q, r
<1> QED
  BY <1>2, <1>3

-----------------------------------------------------------------------------
(***************************************************************************)
(* The sections of a chunk.                                                *)
(***************************************************************************)

\* Sorting loses and doubles no section.
LEMMA SortedIs ==
    ASSUME NEW t \in Seq(SectionSet), Ascending(t)
    PROVE  /\ Sorted(t) \in Seq(SectionSet) /\ Ascending(Sorted(t))
           /\ \A i \in DOMAIN Sorted(t) : \E j \in DOMAIN t : Sorted(t)[i] = t[j]
           /\ \A j \in DOMAIN t : \E i \in DOMAIN Sorted(t) : Sorted(t)[i] = t[j]
<1> DEFINE D == DOMAIN t
           Sorts(p) == /\ \A i \in D : \E j \in D : p[j] = i
                       /\ \A i, j \in D : i < j => t[p[i]].y < t[p[j]].y
           order == CHOOSE p \in [D -> D] : Sorts(p)
<1>1. \E p \in [D -> D] : Sorts(p)
  <2> DEFINE p == [i \in D |-> i]
  <2>1. p \in [D -> D] /\ \A i \in D : p[i] = i
    OBVIOUS
  <2> HIDE DEF p
  <2>2. Sorts(p)
    BY <2>1 DEF Ascending
  <2> QED
    BY <2>1, <2>2
<1>2. order \in [D -> D] /\ Sorts(order)
  <2> HIDE DEF Sorts
  <2> QED
    BY <1>1
<1>3. Sorted(t) = [i \in D |-> t[order[i]]]
  BY DEF Sorted
<1> HIDE DEF order
<1>4. D = 1..Len(t) /\ Len(t) \in Nat /\ \A i \in D : t[i] \in SectionSet
  OBVIOUS
<1> DEFINE u == Sorted(t)
<1>5. DOMAIN u = D /\ \A i \in D : u[i] = t[order[i]]
  BY <1>3
<1>6. u \in Seq(SectionSet)
  BY <1>2, <1>3, <1>4
<1> HIDE DEF u
<1>7. Ascending(u)
  <2>1. \A i, j \in D : i < j => t[order[i]].y < t[order[j]].y
    BY <1>2
  <2> HIDE DEF D
  <2>2. \A i, j \in D : i < j => u[i].y < u[j].y
    BY <1>5, <2>1, Zenon
  <2> QED
    BY <1>5, <2>2, Zenon DEF Ascending
<1>8. \A i \in DOMAIN u : \E j \in DOMAIN t : u[i] = t[j]
  BY <1>2, <1>5
<1>9. \A j \in DOMAIN t : \E i \in DOMAIN u : u[i] = t[j]
  BY <1>2, <1>5
<1> QED
  BY <1>6, <1>7, <1>8, <1>9 DEF u

LEMMA OfSections ==
    ASSUME NEW t \in Seq(SectionSet)
    PROVE  /\ DOMAIN t = 1..Len(t) /\ Len(t) \in Nat
           /\ \A i \in DOMAIN t :
                  t[i] \in SectionSet /\ t[i].y \in Nat /\ t[i].blocks \in [Cells -> Values]
<1>1. DOMAIN t = 1..Len(t) /\ Len(t) \in Nat /\ \A i \in DOMAIN t : t[i] \in SectionSet
  OBVIOUS
<1>2. \A e \in SectionSet : e.y \in Nat /\ e.blocks \in [Cells -> Values]
  BY DEF SectionSet
<1> QED
  BY <1>1, <1>2, Zenon

\* The sections w are those of old and one of layer sy.
Extended(w, old, sy) ==
    /\ w \in Seq(SectionSet) /\ Ascending(w)
    /\ \E i \in DOMAIN w : w[i].y = sy
    /\ \A i \in DOMAIN w :
           \/ \E j \in DOMAIN old : w[i] = old[j]
           \/ w[i] = NewSection(sy) /\ \A j \in DOMAIN old : old[j].y # sy
    /\ \A j \in DOMAIN old : \E i \in DOMAIN w : w[i] = old[j]

\* A section for layer sy is appended above all others, unless there is one.
LEMMA WithSectionIs ==
    ASSUME NEW old \in Seq(SectionSet), Ascending(old), NEW sy \in Nat,
           \A i \in DOMAIN old : old[i].y <= sy
    PROVE  Extended(WithSection(old, sy), old, sy)
<1> DEFINE w == WithSection(old, sy)
<1>1. CASE \E i \in DOMAIN old : old[i].y = sy
  <2>1. w = old
    BY <1>1 DEF WithSection
  <2> QED
    BY <1>1, <2>1 DEF Extended
<1>2. CASE ~ \E i \in DOMAIN old : old[i].y = sy
  <2> DEFINE t == Append(old, NewSection(sy))
  <2>1. w = Sorted(t)
    BY <1>2 DEF WithSection
  <2> HIDE DEF w
  <2>2. NewSection(sy) \in SectionSet /\ NewSection(sy).y = sy
    BY DEF NewSection, SectionSet, Values
  <2>3. /\ t \in Seq(SectionSet) /\ Len(t) = Len(old) + 1
        /\ DOMAIN t = 1..(Len(old) + 1) /\ DOMAIN old = 1..Len(old) /\ Len(old) \in Nat
        /\ \A i \in DOMAIN old : t[i] = old[i]
        /\ t[Len(old) + 1] = NewSection(sy)
    BY <2>2
  <2>4. \A i \in DOMAIN old : old[i].y \in Nat
    BY OfSections
  <2> HIDE DEF t
  <2>5. \A i \in DOMAIN old : old[i].y < sy
    BY <1>2, <2>4
  <2>6. Ascending(t)
    <3>1. SUFFICES ASSUME NEW i \in Nat, NEW j \in Nat, i \in DOMAIN t, j \in DOMAIN t, i < j
                   PROVE  t[i].y < t[j].y
      BY <2>3 DEF Ascending
    <3>2. i \in DOMAIN old
      BY <2>3, <3>1
    <3>3. CASE j \in DOMAIN old
      BY <2>3, <3>1, <3>2, <3>3 DEF Ascending
    <3>4. CASE j = Len(old) + 1
      BY <2>2, <2>3, <2>5, <3>2, <3>4
    <3> QED
      BY <2>3, <3>1, <3>3, <3>4
  <2>7. /\ w \in Seq(SectionSet) /\ Ascending(w)
        /\ \A i \in DOMAIN w : \E j \in DOMAIN t : w[i] = t[j]
        /\ \A j \in DOMAIN t : \E i \in DOMAIN w : w[i] = t[j]
    <3>1. \A q \in Seq(SectionSet) : Ascending(q) =>
              /\ Sorted(q) \in Seq(SectionSet) /\ Ascending(Sorted(q))
              /\ \A i \in DOMAIN Sorted(q) : \E j \in DOMAIN q : Sorted(q)[i] = q[j]
              /\ \A j \in DOMAIN q : \E i \in DOMAIN Sorted(q) : Sorted(q)[i] = q[j]
      BY SortedIs
    <3>2. t \in Seq(SectionSet)
      BY <2>3
    <3>3. /\ Sorted(t) \in Seq(SectionSet) /\ Ascending(Sorted(t))
          /\ \A i \in DOMAIN Sorted(t) : \E j \in DOMAIN t : Sorted(t)[i] = t[j]
          /\ \A j \in DOMAIN t : \E i \in DOMAIN Sorted(t) : Sorted(t)[i] = t[j]
      BY <2>6, <3>1, <3>2, Zenon
    <3> QED
      BY <2>1, <3>3
  <2>8. \E i \in DOMAIN w : w[i].y = sy
    <3>1. Len(old) + 1 \in DOMAIN t
      BY <2>3
    <3>2. PICK i \in DOMAIN w : w[i] = t[Len(old) + 1]
      BY <2>7, <3>1
    <3> QED
      BY <2>2, <2>3, <3>2
  <2>9. \A j \in DOMAIN t : j \in DOMAIN old \/ j = Len(old) + 1
    BY <2>3
  <2>10. \A i \in DOMAIN w : (\E j \in DOMAIN old : w[i] = old[j]) \/ w[i] = NewSection(sy)
    BY <2>3, <2>7, <2>9
  <2>11. \A j \in DOMAIN old : j \in DOMAIN t
    BY <2>3
  <2>12. \A j \in DOMAIN old : \E i \in DOMAIN w : w[i] = old[j]
    BY <2>3, <2>7, <2>11
  <2> QED
    BY <1>2, <2>7, <2>8, <2>10, <2>12 DEF w, Extended
<1> QED
  BY <1>1, <1>2

\* The sections setBlock leaves in a chunk.
NewSections(old, sy, cell, id) ==
    LET w == WithSection(old, sy)
        s == CHOOSE i \in DOMAIN w : w[i].y = sy
    IN  [w EXCEPT ![s].blocks[cell] = id]

\* The one section of layer sy has the ID, in one cell; what another cell holds
\* was there before, or is a zero of a section that is new.
WithID(new, old, sy, cell, id) ==
    /\ new \in Seq(SectionSet) /\ Ascending(new)
    /\ \A i \in DOMAIN new : \A c \in Cells :
           IF new[i].y = sy /\ c = cell THEN new[i].blocks[c] = id
           ELSE \/ \E j \in DOMAIN old :
                       old[j].y = new[i].y /\ old[j].blocks[c] = new[i].blocks[c]
                \/ /\ new[i].y = sy /\ new[i].blocks[c] = 0
                   /\ \A j \in DOMAIN old : old[j].y # sy
    /\ \A i \in DOMAIN new : new[i].y = sy \/ \E j \in DOMAIN old : old[j].y = new[i].y
    /\ \A j \in DOMAIN old : \E i \in DOMAIN new : new[i].y = old[j].y
    /\ \E i \in DOMAIN new : new[i].y = sy

LEMMA SectionsIs ==
    ASSUME NEW old \in Seq(SectionSet), Ascending(old), NEW sy \in Nat,
           \A i \in DOMAIN old : old[i].y <= sy,
           NEW cell \in Cells, NEW id \in Values,
           NEW new, new = NewSections(old, sy, cell, id)
    PROVE  WithID(new, old, sy, cell, id)
<1> DEFINE w == WithSection(old, sy)
           s == CHOOSE i \in DOMAIN w : w[i].y = sy
<1>0. new = [w EXCEPT ![s].blocks[cell] = id]
  BY DEF NewSections
<1>1. /\ w \in Seq(SectionSet) /\ Ascending(w)
      /\ \E i \in DOMAIN w : w[i].y = sy
      /\ \A i \in DOMAIN w :
             \/ \E j \in DOMAIN old : w[i] = old[j]
             \/ w[i] = NewSection(sy) /\ \A j \in DOMAIN old : old[j].y # sy
      /\ \A j \in DOMAIN old : \E i \in DOMAIN w : w[i] = old[j]
  <2>1. Extended(w, old, sy)
    BY WithSectionIs
  <2> HIDE DEF w
  <2> QED
    BY <2>1 DEF Extended
<1> HIDE DEF w
<1>2. s \in DOMAIN w /\ w[s].y = sy
  BY <1>1
<1> HIDE DEF s
<1>3. \A i \in DOMAIN w : w[i] \in SectionSet /\ w[i].y \in Nat /\ w[i].blocks \in [Cells -> Values]
  BY <1>1, OfSections
<1>4. \A i \in DOMAIN w : i # s => w[i].y # sy
  <2>1. SUFFICES ASSUME NEW i \in DOMAIN w, i # s, w[i].y = sy PROVE FALSE
    OBVIOUS
  <2>2. DOMAIN w = 1..Len(w) /\ Len(w) \in Nat
    BY <1>1
  <2>3. i < s \/ s < i
    BY <1>2, <2>1, <2>2
  <2> QED
    BY <1>1, <1>2, <1>3, <2>1, <2>3 DEF Ascending
<1> DEFINE b == [w[s].blocks EXCEPT ![cell] = id]
<1>5. /\ DOMAIN new = DOMAIN w
      /\ \A i \in DOMAIN w : i # s => new[i] = w[i]
      /\ new[s] = [w[s] EXCEPT !.blocks = b]
      /\ new = [i \in DOMAIN w |-> new[i]]
  BY <1>0, <1>2
<1>6. /\ b \in [Cells -> Values] /\ b[cell] = id
      /\ \A c \in Cells : c # cell => b[c] = w[s].blocks[c]
  BY <1>2, <1>3
<1> HIDE DEF b
<1>7. new[s] \in SectionSet /\ new[s].y = sy /\ new[s].blocks = b
  <2>1. \A e \in SectionSet, a \in [Cells -> Values] :
            /\ [e EXCEPT !.blocks = a] \in SectionSet
            /\ [e EXCEPT !.blocks = a].y = e.y /\ [e EXCEPT !.blocks = a].blocks = a
    BY DEF SectionSet
  <2>2. w[s] \in SectionSet /\ w[s].y = sy
    BY <1>2, <1>3
  <2>3. /\ [w[s] EXCEPT !.blocks = b] \in SectionSet
        /\ [w[s] EXCEPT !.blocks = b].y = w[s].y /\ [w[s] EXCEPT !.blocks = b].blocks = b
    BY <1>6, <2>1, <2>2, Zenon
  <2> QED
    BY <1>5, <2>2, <2>3
<1>8. new \in Seq(SectionSet)
  <2>1. \A i \in DOMAIN w : new[i] \in SectionSet
    BY <1>3, <1>5, <1>7
  <2>2. Len(w) \in Nat /\ DOMAIN w = 1..Len(w)
    BY <1>1
  <2>4. new \in [DOMAIN w -> SectionSet]
    BY <1>5, <2>1
  <2>5. \A n \in Nat : [1..n -> SectionSet] \subseteq Seq(SectionSet)
    OBVIOUS
  <2> QED
    BY <2>2, <2>4, <2>5
<1>9. \A i \in DOMAIN w : new[i].y = w[i].y
  BY <1>2, <1>5, <1>7
<1>10. Ascending(new)
  BY <1>1, <1>5, <1>9 DEF Ascending
<1>11. ASSUME NEW i \in DOMAIN w, NEW c \in Cells
       PROVE  IF new[i].y = sy /\ c = cell THEN new[i].blocks[c] = id
              ELSE \/ \E j \in DOMAIN old :
                          old[j].y = new[i].y /\ old[j].blocks[c] = new[i].blocks[c]
                   \/ /\ new[i].y = sy /\ new[i].blocks[c] = 0
                      /\ \A j \in DOMAIN old : old[j].y # sy
  <2>1. CASE i = s /\ c = cell
    BY <1>6, <1>7, <2>1
  <2>2. CASE ~(i = s /\ c = cell)
    <3>1. ~(new[i].y = sy /\ c = cell)
      BY <1>4, <1>9, <2>2
    <3>2. new[i].blocks[c] = w[i].blocks[c]
      <4>1. CASE i = s
        BY <1>6, <1>7, <2>2, <4>1
      <4>2. CASE i # s
        BY <1>5, <4>2
      <4> QED
        BY <4>1, <4>2
    <3>3. CASE \E j \in DOMAIN old : w[i] = old[j]
      BY <1>9, <3>1, <3>2, <3>3
    <3>4. CASE w[i] = NewSection(sy) /\ \A j \in DOMAIN old : old[j].y # sy
      BY <1>9, <3>1, <3>2, <3>4 DEF NewSection
    <3> QED
      BY <1>1, <3>3, <3>4
  <2> QED
    BY <2>1, <2>2
<1>12. \A i \in DOMAIN new : new[i].y = sy \/ \E j \in DOMAIN old : old[j].y = new[i].y
  <2>1. NewSection(sy).y = sy
    BY DEF NewSection
  <2>2. \A i \in DOMAIN w : w[i].y = sy \/ \E j \in DOMAIN old : old[j].y = w[i].y
    BY <1>1, <2>1
  <2>3. \A i \in DOMAIN w : new[i].y = sy \/ \E j \in DOMAIN old : old[j].y = new[i].y
    BY <1>9, <2>2
  <2> QED
    BY <1>5, <2>3
<1>13. \A j \in DOMAIN old : \E i \in DOMAIN new : new[i].y = old[j].y
  <2>1. \A j \in DOMAIN old : \E i \in DOMAIN w : w[i].y = old[j].y
    BY <1>1
  <2>2. DOMAIN new = DOMAIN w
    BY <1>5
  <2> QED
    BY <1>9, <2>1, <2>2, Zenon
<1>14. \E i \in DOMAIN new : new[i].y = sy
  BY <1>2, <1>5, <1>9
<1> QED
  BY <1>5, <1>8, <1>10, <1>11, <1>12, <1>13, <1>14 DEF WithID

-----------------------------------------------------------------------------
(***************************************************************************)
(* The loader's turns.                                                     *)
(***************************************************************************)

LEMMA SizeIs ==
    ASSUME size \in Sizes
    PROVE  Width \in Int /\ Height \in Int /\ Length \in Int /\ Expected \in Int
<1>1. size \in Int \X Int \X Int
  BY WorldAssumption
<1>2. Width \in Int /\ Height \in Int /\ Length \in Int
  BY <1>1 DEF Width, Height, Length
<1> QED
  BY <1>2 DEF Expected

\* The block set in a turn is the next one.
LEMMA Turn ==
    ASSUME size \in Sizes, Width > 0, Height > 0, Length > 0,
           set \in Nat, set < Expected,
           NEW x, x = set % Width, NEW z, z = (set \div Width) % Length,
           NEW y, y = set \div (Width * Length)
    PROVE  /\ x \in Nat /\ x < Width /\ z \in Nat /\ z < Length /\ y \in Nat /\ y < Height
           /\ blockIndex(x, y, z) = set
           /\ y * Length * Width <= set /\ set < (y + 1) * Length * Width
<1>1. Width \in Nat \ {0} /\ Height \in Nat \ {0} /\ Length \in Nat \ {0}
  BY SizeIs
<1>2. /\ x \in Nat /\ x < Width /\ z \in Nat /\ z < Length /\ y \in Nat
      /\ (y * Length + z) * Width + x = set
  <2>1. \A n \in Nat, w, l \in Nat \ {0} :
            /\ n % w \in Nat /\ n % w < w
            /\ (n \div w) % l \in Nat /\ (n \div w) % l < l
            /\ n \div (w * l) \in Nat
            /\ ((n \div (w * l)) * l + ((n \div w) % l)) * w + (n % w) = n
    BY Numbered
  <2> DEFINE x1 == set % Width
             z1 == (set \div Width) % Length
             y1 == set \div (Width * Length)
  <2>2. /\ x1 \in Nat /\ x1 < Width /\ z1 \in Nat /\ z1 < Length /\ y1 \in Nat
        /\ (y1 * Length + z1) * Width + x1 = set
    BY <1>1, <2>1, Zenon
  <2>3. x = x1 /\ y = y1 /\ z = z1
    OBVIOUS
  <2> HIDE DEF x1, y1, z1
  <2> QED
    BY <2>2, <2>3
<1>3. y < Height
  <2>1. Width * Length \in Nat \ {0} /\ set < (Width * Length) * Height
    <3>1. Width * Length \in Nat \ {0}
      BY <1>1
    <3>2. Width * Height * Length = (Width * Length) * Height
      BY <1>1
    <3> QED
      BY <3>1, <3>2 DEF Expected
  <2>2. \A a \in Int, b \in Nat \ {0}, k \in Int : a < b * k => a \div b < k
    BY Below
  <2>3. set \div (Width * Length) < Height
    BY <1>1, <2>1, <2>2
  <2> QED
    BY <2>3
<1>4. y * Length * Width <= set /\ set < (y + 1) * Length * Width
  <2>1. \A w, l \in Nat \ {0}, x1, z1, y1 \in Nat : x1 < w /\ z1 < l =>
            /\ y1 * l * w <= (y1 * l + z1) * w + x1
            /\ (y1 * l + z1) * w + x1 < (y1 + 1) * l * w
    BY InLayer
  <2>2. /\ y * Length * Width <= (y * Length + z) * Width + x
        /\ (y * Length + z) * Width + x < (y + 1) * Length * Width
    BY <1>1, <1>2, <2>1, Zenon
  <2> QED
    BY <1>2, <2>2
<1> QED
  BY <1>2, <1>3, <1>4 DEF blockIndex

\* No two positions of the schematic have one number.
LEMMA OneNumber ==
    ASSUME size \in Sizes,
           NEW x \in Nat, x < Width, NEW z \in Nat, z < Length, NEW y \in Nat,
           NEW x2 \in Nat, x2 < Width, NEW z2 \in Nat, z2 < Length, NEW y2 \in Nat,
           blockIndex(x, y, z) = blockIndex(x2, y2, z2)
    PROVE  x = x2 /\ y = y2 /\ z = z2
<1>1. Width \in Nat \ {0} /\ Length \in Nat \ {0}
  BY SizeIs
<1>2. (y * Length + z) * Width + x = (y2 * Length + z2) * Width + x2
  BY DEF blockIndex
<1> QED
  BY <1>1, <1>2, OnePlace

\* A section made so far is not above that of a block that is set now.
LEMMA NotAbove ==
    ASSUME size \in Sizes, Width > 0, Length > 0, set \in Nat,
           NEW y \in Nat, set < (y + 1) * Length * Width,
           NEW y1 \in Nat, y1 * Length * Width < set
    PROVE  y1 \div Edge <= y \div Edge
<1>1. Width \in Nat \ {0} /\ Length \in Nat \ {0} /\ Edge \in Nat \ {0}
  BY SizeIs, EdgeIs
<1>2. y1 <= y
  <2>1. ASSUME y1 >= y + 1 PROVE FALSE
    <3>1. (y + 1) * Length <= y1 * Length
      BY <1>1, <2>1
    <3>2. (y + 1) * Length \in Nat /\ y1 * Length \in Nat
      BY <1>1
    <3>3. (y + 1) * Length * Width <= y1 * Length * Width
      BY <1>1, <3>1, <3>2
    <3>4. (y + 1) * Length * Width \in Nat /\ y1 * Length * Width \in Nat
      BY <1>1, <3>2
    <3> QED
      BY <3>3, <3>4
  <2> QED
    BY <2>1
<1> QED
  BY <1>1, <1>2, Monotone

\* Setting one more block changes what one cell of one section should hold.
LEMMA WantedStep ==
    ASSUME size \in Sizes, Width > 0, Length > 0, set \in Nat,
           size' = size, ids' = ids, set' = set + 1,
           NEW x \in Nat, x < Width, NEW z \in Nat, z < Length, NEW y \in Nat, y < Height,
           blockIndex(x, y, z) = set,
           NEW p \in Nat \X Nat, NEW sy \in Nat, NEW c \in Cells
    PROVE  Wanted(p, sy, c)' =
               IF /\ p = <<x \div Edge, z \div Edge>> /\ sy = y \div Edge
                  /\ c = sectionIndexInChunk(x % Edge, y % Edge, z % Edge)
               THEN ids[set + 1] ELSE Wanted(p, sy, c)
<1> DEFINE a == c % Edge
           b == c \div (Edge * Edge)
           d == (c \div Edge) % Edge
           X == p[1] * Edge + a
           Y == sy * Edge + b
           Z == p[2] * Edge + d
           Here == /\ p = <<x \div Edge, z \div Edge>> /\ sy = y \div Edge
                   /\ c = sectionIndexInChunk(x % Edge, y % Edge, z % Edge)
<1>1. /\ Edge \in Nat \ {0} /\ a \in Nat /\ a < Edge /\ b \in Nat /\ b < Edge
      /\ d \in Nat /\ d < Edge /\ sectionIndexInChunk(a, b, d) = c
  BY EdgeIs, CellIs
<1>2. p[1] \in Nat /\ p[2] \in Nat /\ p = <<p[1], p[2]>>
  OBVIOUS
<1>3. Wanted(p, sy, c) = Given(X, Y, Z) /\ Wanted(p, sy, c)' = Given(X, Y, Z)'
  BY DEF Wanted
<1> HIDE DEF a, b, d
<1>4. X \in Nat /\ Y \in Nat /\ Z \in Nat
  BY <1>1, <1>2
<1>5. X \div Edge = p[1] /\ X % Edge = a /\ Y \div Edge = sy /\ Y % Edge = b
      /\ Z \div Edge = p[2] /\ Z % Edge = d
  BY <1>1, <1>2, Split
<1>6. Here => X = x /\ Y = y /\ Z = z
  <2>1. SUFFICES ASSUME Here PROVE X = x /\ Y = y /\ Z = z
    OBVIOUS
  <2>2. /\ x % Edge \in Nat /\ x % Edge < Edge /\ y % Edge \in Nat /\ y % Edge < Edge
        /\ z % Edge \in Nat /\ z % Edge < Edge
        /\ x = (x \div Edge) * Edge + (x % Edge) /\ y = (y \div Edge) * Edge + (y % Edge)
        /\ z = (z \div Edge) * Edge + (z % Edge)
    BY Split
  <2>3. \A i, j, k \in Nat : i < Edge /\ j < Edge /\ k < Edge =>
            LET e == sectionIndexInChunk(i, j, k)
            IN  e % Edge = i /\ e \div (Edge * Edge) = j /\ (e \div Edge) % Edge = k
    BY CellOf
  <2>4. a = x % Edge /\ b = y % Edge /\ d = z % Edge
    BY <2>1, <2>2, <2>3 DEF a, b, d
  <2>5. p[1] = x \div Edge /\ p[2] = z \div Edge
    BY <2>1
  <2> QED
    BY <2>1, <2>2, <2>4, <2>5
<1>7. X = x /\ Y = y /\ Z = z => Here
  BY <1>1, <1>2, <1>5
<1> HIDE DEF X, Y, Z, Here
<1>8. Width \in Nat \ {0} /\ Length \in Nat \ {0}
  BY SizeIs
<1>9. CASE X = x /\ Y = y /\ Z = z
  <2>1. Given(X, Y, Z)' = ids[set + 1]
    BY <1>9 DEF Given, InSchematic, blockIndex, Width, Height, Length
  <2> QED
    BY <1>3, <1>7, <1>9, <2>1 DEF Here
<1>10. CASE ~(X = x /\ Y = y /\ Z = z)
  <2>1. X < Width /\ Z < Length => blockIndex(X, Y, Z) \in Nat /\ blockIndex(X, Y, Z) # set
    <3>1. SUFFICES ASSUME X < Width, Z < Length
                   PROVE  blockIndex(X, Y, Z) \in Nat /\ blockIndex(X, Y, Z) # set
      OBVIOUS
    <3>2. blockIndex(X, Y, Z) \in Nat
      BY <1>4, <1>8 DEF blockIndex
    <3>3. ASSUME blockIndex(X, Y, Z) = set PROVE FALSE
      <4>1. blockIndex(X, Y, Z) = blockIndex(x, y, z)
        BY <3>3
      <4>2. X = x /\ Y = y /\ Z = z
        BY <1>4, <3>1, <4>1, OneNumber
      <4> QED
        BY <1>10, <4>2
    <3> QED
      BY <3>2, <3>3
  <2>2. InSchematic(X, Y, Z)' <=> InSchematic(X, Y, Z)
    <3>1. blockIndex(X, Y, Z)' = blockIndex(X, Y, Z)
      BY DEF blockIndex, Width, Length
    <3>2. Width' = Width /\ Height' = Height /\ Length' = Length
      BY DEF Width, Height, Length
    <3> DEFINE n == blockIndex(X, Y, Z)
    <3>3. InSchematic(X, Y, Z)' <=> X < Width /\ Z < Length /\ Y < Height /\ n < set + 1
      BY <3>1, <3>2 DEF InSchematic
    <3>4. InSchematic(X, Y, Z) <=> X < Width /\ Z < Length /\ Y < Height /\ n < set
      BY DEF InSchematic
    <3> HIDE DEF n
    <3>5. X < Width /\ Z < Length => n \in Nat /\ n # set
      BY <2>1 DEF n
    <3> QED
      BY <3>3, <3>4, <3>5
  <2>3. Given(X, Y, Z)' = Given(X, Y, Z)
    BY <2>2 DEF Given, blockIndex, Width, Length
  <2> QED
    BY <1>3, <1>6, <1>10, <2>3 DEF Here
<1> QED
  BY <1>9, <1>10

\* A turn of the loops keeps every section sorted, made for a layer begun, and
\* filled with what it should hold.
LEMMA BlockIsSet ==
    ASSUME WorldInv, set < Expected, Width > 0, Height > 0, Length > 0,
           size' = size, ids' = ids, set' = set + 1,
           NEW x, x = set % Width, NEW z, z = (set \div Width) % Length,
           NEW y, y = set \div (Width * Length),
           NEW id, id = ids[set + 1],
           chunks' = setBlock(x, y, z, id)
    PROVE  Shaped' /\ Covered' /\ Kept'
<1> DEFINE pos  == <<x \div Edge, z \div Edge>>
           sy   == y \div Edge
           cell == sectionIndexInChunk(x % Edge, y % Edge, z % Edge)
<1>1. size \in Sizes /\ set \in Nat /\ Progress /\ Shaped /\ Covered /\ Kept
  BY DEF WorldInv, Progress
<1>2. Width \in Nat \ {0} /\ Height \in Nat \ {0} /\ Length \in Nat \ {0} /\ Edge \in Nat \ {0}
  BY <1>1, SizeIs, EdgeIs
<1>3. /\ x \in Nat /\ x < Width /\ z \in Nat /\ z < Length /\ y \in Nat /\ y < Height
      /\ blockIndex(x, y, z) = set
      /\ y * Length * Width <= set /\ set < (y + 1) * Length * Width
  BY <1>1, Turn
<1>4. pos \in Nat \X Nat /\ sy \in Nat /\ cell \in Cells
  <2>1. /\ x \div Edge \in Nat /\ z \div Edge \in Nat /\ y \div Edge \in Nat
        /\ x % Edge \in Nat /\ x % Edge < Edge /\ y % Edge \in Nat /\ y % Edge < Edge
        /\ z % Edge \in Nat /\ z % Edge < Edge
    BY <1>3, Split
  <2>2. \A i, j, k \in Nat : i < Edge /\ j < Edge /\ k < Edge =>
            sectionIndexInChunk(i, j, k) \in Cells
    BY CellOf
  <2> QED
    BY <2>1, <2>2
<1>5. PICK old : old = IF pos \in DOMAIN chunks THEN chunks[pos] ELSE <<>>
  OBVIOUS
<1>6. /\ old \in Seq(SectionSet) /\ Ascending(old)
      /\ \A i \in DOMAIN old : \E y1 \in 0..(Height - 1) :
             old[i].y = y1 \div Edge /\ y1 * Length * Width < set
  <2>1. CASE pos \in DOMAIN chunks
    BY <1>1, <1>5, <2>1 DEF Shaped
  <2>2. CASE pos \notin DOMAIN chunks
    <3>1. old = <<>>
      BY <1>5, <2>2
    <3> QED
      BY <3>1 DEF Ascending
  <2> QED
    BY <2>1, <2>2
<1>7. \A i \in DOMAIN old : old[i].y <= sy
  <2>1. SUFFICES ASSUME NEW i \in DOMAIN old PROVE old[i].y <= sy
    OBVIOUS
  <2>2. PICK y1 \in 0..(Height - 1) : old[i].y = y1 \div Edge /\ y1 * Length * Width < set
    BY <1>6
  <2>3. y1 \in Nat /\ Width > 0 /\ Length > 0
    BY <1>2
  <2>4. y1 \div Edge <= y \div Edge
    BY <1>1, <1>3, <2>2, <2>3, NotAbove
  <2> QED
    BY <2>2, <2>4
<1>8. id \in Values
  BY <1>1 DEF Values
<1> DEFINE o == IF pos \in DOMAIN chunks THEN chunks[pos] ELSE <<>>
           n == NewSections(o, sy, cell, id)
<1>9. chunks' = [p \in DOMAIN chunks \cup {pos} |-> IF p = pos THEN n ELSE chunks[p]]
  BY DEF setBlock, NewSections
<1>17. PICK new : new = NewSections(old, sy, cell, id)
  OBVIOUS
<1>10. chunks' = [p \in DOMAIN chunks \cup {pos} |-> IF p = pos THEN new ELSE chunks[p]]
  <2>1. n = new
    <3>1. o = old
      BY <1>5
    <3> HIDE DEF o
    <3> QED
      BY <1>17, <3>1
  <2> HIDE DEF n
  <2> QED
    BY <1>9, <2>1
<1> HIDE DEF o, n
<1> HIDE DEF pos, sy, cell
<1>11. /\ new \in Seq(SectionSet) /\ Ascending(new)
       /\ \A i \in DOMAIN new : \A c \in Cells :
              IF new[i].y = sy /\ c = cell THEN new[i].blocks[c] = id
              ELSE \/ \E j \in DOMAIN old :
                          old[j].y = new[i].y /\ old[j].blocks[c] = new[i].blocks[c]
                   \/ /\ new[i].y = sy /\ new[i].blocks[c] = 0
                      /\ \A j \in DOMAIN old : old[j].y # sy
       /\ \A i \in DOMAIN new : new[i].y = sy \/ \E j \in DOMAIN old : old[j].y = new[i].y
       /\ \A j \in DOMAIN old : \E i \in DOMAIN new : new[i].y = old[j].y
       /\ \E i \in DOMAIN new : new[i].y = sy
  <2>1. WithID(new, old, sy, cell, id)
    BY <1>4, <1>6, <1>7, <1>8, <1>17, SectionsIs
  <2> QED
    BY <2>1 DEF WithID
<1>12. Width' = Width /\ Height' = Height /\ Length' = Length
  BY DEF Width, Height, Length
<1>13. /\ DOMAIN (chunks') = DOMAIN chunks \cup {pos} /\ chunks'[pos] = new
       /\ \A p \in DOMAIN chunks : p # pos => chunks'[p] = chunks[p]
  BY <1>10
<1>14. Shaped'
  <2>1. SectionSet' = SectionSet
    BY DEF SectionSet, Values
  <2>2. SUFFICES ASSUME NEW p \in DOMAIN chunks'
                 PROVE  /\ p \in Nat \X Nat
                        /\ chunks'[p] \in Seq(SectionSet) /\ Ascending(chunks'[p])
                        /\ \A i \in DOMAIN chunks'[p] : \E y1 \in 0..(Height - 1) :
                               chunks'[p][i].y = y1 \div Edge /\ y1 * Length * Width < set + 1
    BY <1>12, <2>1 DEF Shaped, Ascending
  <2>3. CASE p = pos
    <3>1. ASSUME NEW i \in DOMAIN new
          PROVE  \E y1 \in 0..(Height - 1) :
                     new[i].y = y1 \div Edge /\ y1 * Length * Width < set + 1
      <4>1. CASE new[i].y = sy
        <5>1. y \in 0..(Height - 1) /\ y * Length * Width < set + 1
          <6>1. y * Length * Width \in Nat
            BY <1>2, <1>3
          <6> QED
            BY <1>1, <1>2, <1>3, <6>1
        <5> QED
          BY <4>1, <5>1 DEF sy
      <4>2. CASE \E j \in DOMAIN old : old[j].y = new[i].y
        <5>1. PICK j \in DOMAIN old : old[j].y = new[i].y
          BY <4>2
        <5>2. PICK y1 \in 0..(Height - 1) : old[j].y = y1 \div Edge /\ y1 * Length * Width < set
          BY <1>6
        <5>3. y1 * Length * Width \in Int
          BY <1>2
        <5>4. y1 * Length * Width < set + 1
          BY <1>1, <5>2, <5>3
        <5> QED
          BY <5>1, <5>2, <5>4
      <4> QED
        BY <1>11, <4>1, <4>2
    <3> QED
      BY <1>4, <1>11, <1>13, <2>3, <3>1
  <2>4. CASE p # pos
    <3>1. p \in DOMAIN chunks /\ chunks'[p] = chunks[p]
      BY <1>13, <2>4
    <3>2. /\ p \in Nat \X Nat
          /\ chunks[p] \in Seq(SectionSet) /\ Ascending(chunks[p])
      BY <1>1, <3>1 DEF Shaped
    <3>3. ASSUME NEW i \in DOMAIN chunks[p]
          PROVE  \E y1 \in 0..(Height - 1) :
                     chunks[p][i].y = y1 \div Edge /\ y1 * Length * Width < set + 1
      <4>1. PICK y1 \in 0..(Height - 1) :
                chunks[p][i].y = y1 \div Edge /\ y1 * Length * Width < set
        BY <1>1, <3>1 DEF Shaped
      <4>2. y1 * Length * Width \in Int
        BY <1>2
      <4>3. y1 * Length * Width < set + 1
        BY <1>1, <4>1, <4>2
      <4> QED
        BY <4>1, <4>3
    <3> QED
      BY <3>1, <3>2, <3>3
  <2> QED
    BY <2>3, <2>4
<1>15. Covered'
  <2>1. SUFFICES ASSUME NEW x2 \in 0..(Width - 1), NEW y2 \in 0..(Height - 1),
                        NEW z2 \in 0..(Length - 1), blockIndex(x2, y2, z2) < set + 1
                 PROVE  LET q == <<x2 \div Edge, z2 \div Edge>>
                        IN  /\ q \in DOMAIN chunks'
                            /\ \E i \in DOMAIN chunks'[q] : chunks'[q][i].y = y2 \div Edge
    BY <1>12 DEF Covered, blockIndex
  <2> DEFINE q == <<x2 \div Edge, z2 \div Edge>>
  <2>2. /\ x2 \in Nat /\ x2 < Width /\ y2 \in Nat /\ z2 \in Nat /\ z2 < Length
        /\ blockIndex(x2, y2, z2) \in Nat
    BY <1>2, InLayer DEF blockIndex
  <2>3. CASE blockIndex(x2, y2, z2) = set
    <3>1. x2 = x /\ y2 = y /\ z2 = z
      BY <1>1, <1>3, <2>2, <2>3, OneNumber
    <3>2. q = pos /\ y2 \div Edge = sy
      BY <3>1 DEF pos, sy
    <3> QED
      BY <1>11, <1>13, <3>2
  <2>4. CASE blockIndex(x2, y2, z2) < set
    <3>1. q \in DOMAIN chunks /\ \E i \in DOMAIN chunks[q] : chunks[q][i].y = y2 \div Edge
      BY <1>1, <2>4 DEF Covered
    <3>2. CASE q = pos
      <4>1. old = chunks[q]
        BY <1>5, <3>1, <3>2
      <4>2. \E i \in DOMAIN new : new[i].y = y2 \div Edge
        <5>1. PICK j \in DOMAIN old : old[j].y = y2 \div Edge
          BY <3>1, <4>1
        <5> QED
          BY <1>11, <5>1
      <4> QED
        BY <1>13, <3>2, <4>2
    <3>3. CASE q # pos
      BY <1>13, <3>1, <3>3
    <3> QED
      BY <3>2, <3>3
  <2> QED
    BY <1>1, <2>1, <2>2, <2>3, <2>4
<1>16. Kept'
  <2>1. \A p \in Nat \X Nat, yy \in Nat, c \in Cells :
            Wanted(p, yy, c)' = IF p = pos /\ yy = sy /\ c = cell THEN id ELSE Wanted(p, yy, c)
    BY <1>1, <1>2, <1>3, WantedStep DEF pos, sy, cell
  <2>2. \A p \in DOMAIN chunks : \A i \in DOMAIN chunks[p] : chunks[p][i].y \in Nat
    BY <1>1, OfSections DEF Shaped
  <2>3. \A p \in DOMAIN chunks : p \in Nat \X Nat
    BY <1>1 DEF Shaped
  <2>7. \A p \in DOMAIN chunks' : \A i \in DOMAIN chunks'[p] : chunks'[p][i].y \in Nat
    BY <1>11, <1>13, <2>2, OfSections
  <2>4. SUFFICES ASSUME NEW p \in DOMAIN chunks', NEW i \in DOMAIN chunks'[p], NEW c \in Cells,
                        NEW yy \in Nat, yy = chunks'[p][i].y
                 PROVE  chunks'[p][i].blocks[c] = Wanted(p, yy, c)'
    BY <2>7 DEF Kept, Wanted, Given, InSchematic, blockIndex
  <2>5. CASE p # pos
    <3>1. p \in DOMAIN chunks /\ chunks'[p] = chunks[p] /\ i \in DOMAIN chunks[p]
      BY <1>13, <2>5
    <3>2. chunks[p][i].blocks[c] = Wanted(p, chunks[p][i].y, c)
      BY <1>1, <3>1 DEF Kept
    <3>3. yy = chunks[p][i].y /\ p \in Nat \X Nat
      BY <2>3, <2>4, <3>1
    <3>4. Wanted(p, yy, c)' = Wanted(p, yy, c)
      BY <2>1, <2>5, <3>3
    <3> QED
      BY <3>1, <3>2, <3>3, <3>4
  <2>6. CASE p = pos
    <3>1. i \in DOMAIN new /\ chunks'[p][i] = new[i]
      BY <1>13, <2>6
    <3>3. yy = new[i].y
      BY <2>4, <3>1
    <3>4. CASE yy = sy /\ c = cell
      BY <1>4, <1>11, <2>1, <2>6, <3>1, <3>3, <3>4
    <3>5. CASE ~(yy = sy /\ c = cell)
      <4>1. Wanted(p, yy, c)' = Wanted(p, yy, c)
        BY <1>4, <2>1, <2>6, <3>5
      <4>2. CASE \E j \in DOMAIN old : old[j].y = yy /\ old[j].blocks[c] = new[i].blocks[c]
        <5>1. PICK j \in DOMAIN old : old[j].y = yy /\ old[j].blocks[c] = new[i].blocks[c]
          BY <4>2
        <5>2. pos \in DOMAIN chunks /\ old = chunks[pos]
          BY <1>5, <5>1
        <5>3. old[j].blocks[c] = Wanted(pos, yy, c)
          BY <1>1, <5>1, <5>2 DEF Kept
        <5> QED
          BY <2>6, <3>1, <3>3, <4>1, <5>1, <5>3
      <4>3. CASE /\ yy = sy /\ new[i].blocks[c] = 0
                 /\ \A j \in DOMAIN old : old[j].y # sy
        <5>1. Wanted(pos, sy, c) = 0
          <6> DEFINE X == pos[1] * Edge + (c % Edge)
                     Y == sy * Edge + c \div (Edge * Edge)
                     Z == pos[2] * Edge + ((c \div Edge) % Edge)
          <6>1. /\ X \in Nat /\ X \div Edge = pos[1] /\ Y \in Nat /\ Y \div Edge = sy
                /\ Z \in Nat /\ Z \div Edge = pos[2]
            <7>1. /\ c % Edge \in Nat /\ c % Edge < Edge
                  /\ (c \div Edge) % Edge \in Nat /\ (c \div Edge) % Edge < Edge
                  /\ c \div (Edge * Edge) \in Nat /\ c \div (Edge * Edge) < Edge
              BY CellIs
            <7>2. pos[1] \in Nat /\ pos[2] \in Nat
              BY <1>4
            <7> QED
              <8>1. \A m, k \in Nat : k < Edge =>
                        m * Edge + k \in Nat /\ (m * Edge + k) \div Edge = m
                BY <1>2, Split
              <8>2. X \in Nat /\ X \div Edge = pos[1]
                BY <7>1, <7>2, <8>1, Zenon
              <8>3. Y \in Nat /\ Y \div Edge = sy
                BY <1>4, <7>1, <8>1, Zenon
              <8>4. Z \in Nat /\ Z \div Edge = pos[2]
                BY <7>1, <7>2, <8>1, Zenon
              <8> QED
                BY <8>2, <8>3, <8>4
          <6>2. Wanted(pos, sy, c) = Given(X, Y, Z)
            BY DEF Wanted
          <6> HIDE DEF X, Y, Z
          <6>3. ~ InSchematic(X, Y, Z)
            <7>1. SUFFICES ASSUME InSchematic(X, Y, Z) PROVE FALSE
              OBVIOUS
            <7>2. X \in 0..(Width - 1) /\ Y \in 0..(Height - 1) /\ Z \in 0..(Length - 1)
                  /\ blockIndex(X, Y, Z) < set
              BY <1>2, <6>1, <7>1 DEF InSchematic
            <7>3. <<X \div Edge, Z \div Edge>> = pos
              BY <1>4, <6>1
            <7>4. pos \in DOMAIN chunks /\ \E j \in DOMAIN chunks[pos] : chunks[pos][j].y = sy
              BY <1>1, <6>1, <7>2, <7>3 DEF Covered
            <7> QED
              BY <1>5, <4>3, <7>4
          <6> QED
            BY <6>2, <6>3 DEF Given
        <5> QED
          BY <2>6, <3>1, <3>3, <4>1, <4>3, <5>1
      <4> QED
        BY <1>11, <3>1, <3>3, <3>5, <4>2, <4>3
    <3> QED
      BY <3>4, <3>5
  <2> QED
    BY <2>5, <2>6
<1> QED
  BY <1>14, <1>15, <1>16

-----------------------------------------------------------------------------
(***************************************************************************)
(* Packing: the loops of the adapters and what a client unpacks.           *)
(***************************************************************************)

LEMMA LongIs ==
    /\ Bits \in Nat \ {0} /\ PerLong \in Nat \ {0}
    /\ Volume \div PerLong \in Nat /\ Volume = PerLong * (Volume \div PerLong)
<1>1. Bits \in Nat \ {0} /\ LongBits \in Nat \ {0} /\ LongBits % Bits = 0 /\ Volume % PerLong = 0
  BY WorldAssumption DEF Volume, PerLong
<1>2. PerLong \in Nat /\ LongBits = Bits * PerLong
  BY <1>1, Divides DEF PerLong
<1>3. PerLong # 0
  BY <1>1, <1>2
<1>4. Volume \in Nat
  BY EdgeIs
<1> QED
  BY <1>1, <1>2, <1>3, <1>4, Divides

\* The turns that fill one long.
LongTurns(long, indices) ==
    /\ long \in [0..PerLong -> Nat] /\ long[0] = 0
    /\ \A k \in 1..PerLong :
           long[k] = long[k - 1] + (indices[k] % Shifted[Bits]) * Shifted[Bits * (k - 1)]

LEMMA PackLongIs ==
    ASSUME NEW indices \in [1..PerLong -> Nat]
    PROVE  \E long : LongTurns(long, indices) /\ PackLong(indices) = long[PerLong]
<1> DEFINE step == [p \in (1..PerLong) \X Nat |->
                       p[2] + (indices[p[1]] % Shifted[Bits]) * Shifted[Bits * (p[1] - 1)]]
           Def(f) == f = [k \in 0..PerLong |->
                             IF k = 0 THEN 0
                             ELSE f[k - 1] + (indices[k] % Shifted[Bits])
                                                 * Shifted[BitOffset(k - 1)]]
<1>1. ASSUME NEW k \in 1..PerLong, NEW v \in Nat
      PROVE  v + (indices[k] % Shifted[Bits]) * Shifted[Bits * (k - 1)] \in Nat
  <2>1. PICK b \in Nat \ {0} : b = Shifted[Bits]
    BY LongIs, ShiftedIs
  <2>2. indices[k] % b \in Nat
    BY <2>1
  <2>3. Bits * (k - 1) \in Nat
    BY LongIs
  <2>4. Shifted[Bits * (k - 1)] \in Nat
    BY <2>3, ShiftedIs
  <2> QED
    BY <2>1, <2>2, <2>4
<1>2. /\ step \in [(1..PerLong) \X Nat -> Nat]
      /\ \A k \in 1..PerLong, v \in Nat :
             step[<<k, v>>] = v + (indices[k] % Shifted[Bits]) * Shifted[Bits * (k - 1)]
  BY <1>1
<1> HIDE DEF step
<1>3. PICK f : RecursUpTo(f, PerLong, Nat, 0, step)
  BY <1>2, LongIs, RecursionUpTo
<1>4. LongTurns(f, indices)
  <2>1. f \in [0..PerLong -> Nat] /\ f[0] = 0
    BY <1>3 DEF RecursUpTo
  <2>2. ASSUME NEW k \in 1..PerLong
        PROVE  f[k] = f[k - 1] + (indices[k] % Shifted[Bits]) * Shifted[Bits * (k - 1)]
    <3>1. f[k - 1] \in Nat
      BY <2>1, LongIs
    <3>2. f[k] = step[<<k, f[k - 1]>>]
      BY <1>3 DEF RecursUpTo
    <3> QED
      BY <1>2, <3>1, <3>2
  <2> QED
    BY <2>1, <2>2 DEF LongTurns
<1>5. Def(f)
  BY <1>4 DEF LongTurns, BitOffset
<1> DEFINE long == CHOOSE g : Def(g)
<1>6. PackLong(indices) = long[PerLong]
  BY DEF PackLong
<1>7. Def(long)
  BY <1>5
<1> HIDE DEF long
<1>8. long = [k \in 0..PerLong |->
                IF k = 0 THEN 0
                ELSE long[k - 1] + (indices[k] % Shifted[Bits]) * Shifted[Bits * (k - 1)]]
  BY <1>7 DEF BitOffset
<1>9. long[0] = 0 /\ \A k \in 1..PerLong :
          long[k] = long[k - 1] + (indices[k] % Shifted[Bits]) * Shifted[Bits * (k - 1)]
  BY <1>8, LongIs
<1> DEFINE S == {k \in 0..PerLong : long[k] \in Nat}
<1>10. 0 \in S /\ \A k \in 1..PerLong : k - 1 \in S => k \in S
  <2>1. 0 \in S
    BY <1>9, LongIs
  <2>2. ASSUME NEW k \in 1..PerLong, k - 1 \in S PROVE k \in S
    <3>1. PICK v \in Nat : v = long[k - 1]
      BY <2>2
    <3>2. long[k] \in Nat
      BY <1>1, <1>9, <3>1
    <3>3. k \in 0..PerLong
      BY LongIs
    <3> QED
      BY <3>2, <3>3
  <2> QED
    BY <2>1, <2>2
<1> HIDE DEF S
<1>11. \A k \in 0..PerLong : k \in S
  BY <1>10, LongIs, InductionUpTo
<1>12. LongTurns(long, indices)
  BY <1>8, <1>9, <1>11 DEF S, LongTurns
<1> QED
  BY <1>6, <1>12

\* A long is below the place of its next index.
LEMMA LongBelow ==
    ASSUME NEW indices \in [1..PerLong -> Nat], NEW long, LongTurns(long, indices)
    PROVE  \A k \in 0..PerLong : long[k] < Shifted[Bits * k]
<1> DEFINE S == {k \in 0..PerLong : long[k] < Shifted[Bits * k]}
<1>1. 0 \in S
  <2>1. Bits * 0 = 0 /\ 0 \in 0..PerLong
    BY LongIs
  <2>2. long[0] = 0 /\ Shifted[0] = 1
    BY ShiftedIs DEF LongTurns
  <2> QED
    BY <2>1, <2>2
<1>2. ASSUME NEW k \in 1..PerLong, k - 1 \in S PROVE k \in S
  <2>1. PICK b \in Nat \ {0} : b = Shifted[Bits]
    BY LongIs, ShiftedIs
  <2>2. PICK s \in Nat : s = Shifted[Bits * (k - 1)]
    <3>1. Bits * (k - 1) \in Nat
      BY LongIs
    <3> QED
      BY <3>1, ShiftedIs
  <2>3. Shifted[Bits * k] = s * b
    <3>1. Bits * k = Bits * (k - 1) + Bits /\ Bits * (k - 1) \in Nat /\ Bits \in Nat
      BY LongIs
    <3> QED
      BY <2>1, <2>2, <3>1, ShiftedTwice
  <2>4. PICK d \in Nat : d = indices[k] % b /\ d < b
    OBVIOUS
  <2>5. PICK v \in Nat : v = long[k - 1] /\ v < s
    BY <1>2, <2>2, LongIs DEF LongTurns
  <2>6. long[k] = v + d * s
    BY <2>1, <2>2, <2>4, <2>5 DEF LongTurns
  <2>7. (d + 1) * s <= b * s
    BY <2>4
  <2>8. (d + 1) * s = d * s + s /\ b * s = s * b /\ d * s \in Nat
    OBVIOUS
  <2>9. v + d * s < s * b
    BY <2>5, <2>7, <2>8
  <2>10. k \in 0..PerLong
    BY LongIs
  <2> QED
    BY <2>3, <2>6, <2>9, <2>10
<1> HIDE DEF S
<1>3. \A k \in 0..PerLong : k \in S
  BY <1>1, <1>2, LongIs, InductionUpTo
<1> QED
  BY <1>3 DEF S

\* What later turns add leaves the places before them alone.
LEMMA LongAbove ==
    ASSUME NEW indices \in [1..PerLong -> Nat], NEW long, LongTurns(long, indices),
           NEW k \in 1..PerLong
    PROVE  \E h \in Nat : long[PerLong] = long[k] + Shifted[Bits * k] * h
<1> DEFINE S == {n \in 0..PerLong :
                    n >= k => \E h \in Nat : long[n] = long[k] + Shifted[Bits * k] * h}
<1>0. /\ \A n \in 0..PerLong : long[n] \in Nat /\ Bits * n \in Nat /\ Shifted[Bits * n] \in Nat
      /\ k \in 0..PerLong /\ PerLong \in Nat
  <2>1. k \in 0..PerLong /\ PerLong \in Nat
    BY LongIs
  <2>2. \A n \in 0..PerLong : Bits * n \in Nat
    BY LongIs
  <2>3. \A n \in 0..PerLong : long[n] \in Nat
    BY DEF LongTurns
  <2>4. \A n \in 0..PerLong : Shifted[Bits * n] \in Nat
    BY <2>2, ShiftedIs
  <2> QED
    BY <2>1, <2>2, <2>3, <2>4
<1>1. 0 \in S
  BY <1>0
<1>2. ASSUME NEW n \in 1..PerLong, n - 1 \in S PROVE n \in S
  <2>1. n \in 0..PerLong /\ n - 1 \in 0..PerLong
    BY <1>0
  <2> SUFFICES ASSUME n >= k PROVE \E h \in Nat : long[n] = long[k] + Shifted[Bits * k] * h
    BY <2>1
  <2>2. PICK s \in Nat, v \in Nat : s = Shifted[Bits * k] /\ v = long[k]
    BY <1>0
  <2>3. CASE n = k
    <3>1. long[n] = v + s * 0
      BY <2>2, <2>3
    <3> QED
      BY <2>2, <3>1
  <2>4. CASE n > k
    <3>1. PICK h \in Nat : long[n - 1] = v + s * h
      <4>1. n - 1 >= k
        BY <2>4
      <4> QED
        BY <1>2, <2>2, <4>1
    <3>2. PICK g \in Nat : Shifted[Bits * (n - 1)] = s * g
      <4> DEFINE m == Bits * ((n - 1) - k)
      <4>1. (n - 1) - k \in Nat
        BY <2>4
      <4>2. m \in Nat /\ Bits * (n - 1) = Bits * k + m
        BY <4>1, LongIs
      <4> HIDE DEF m
      <4>3. Shifted[Bits * (n - 1)] = s * Shifted[m] /\ Shifted[m] \in Nat
        <5>1. PICK a \in Nat : a = Bits * k
          BY <1>0
        <5>2. Shifted[a + m] = Shifted[a] * Shifted[m] /\ Shifted[m] \in Nat
          BY <4>2, ShiftedTwice, ShiftedIs
        <5> QED
          BY <2>2, <4>2, <5>1, <5>2
      <4> QED
        BY <4>3
    <3>3. PICK d \in Nat : d = indices[n] % Shifted[Bits]
      <4>1. PICK b \in Nat \ {0} : b = Shifted[Bits]
        BY LongIs, ShiftedIs
      <4> QED
        BY <4>1
    <3>4. long[n] = (v + s * h) + d * (s * g)
      BY <3>1, <3>2, <3>3 DEF LongTurns
    <3>5. (v + s * h) + d * (s * g) = v + s * (h + d * g) /\ h + d * g \in Nat
      OBVIOUS
    <3> QED
      BY <2>2, <3>4, <3>5
  <2> QED
    BY <2>3, <2>4
<1> HIDE DEF S
<1>3. \A n \in 0..PerLong : n \in S
  BY <1>1, <1>2, LongIs, InductionUpTo
<1>4. PerLong \in S
  BY <1>0, <1>3
<1> QED
  BY <1>4 DEF S

LEMMA Divided ==
    \A b \in Nat \ {0}, q, r \in Int :
        0 <= r /\ r < b => (b * q + r) \div b = q /\ (b * q + r) % b = r
BY Quotients

\* A client that shifts a long and masks it gets the index that was put there.
LEMMA Unpacked ==
    ASSUME NEW indices \in [1..PerLong -> Nat], NEW k \in 0..(PerLong - 1)
    PROVE  (PackLong(indices) \div Shifted[Bits * k]) % Shifted[Bits]
               = indices[k + 1] % Shifted[Bits]
<1>1. PICK long : LongTurns(long, indices) /\ PackLong(indices) = long[PerLong]
  BY PackLongIs
<1>2. k + 1 \in 1..PerLong /\ k \in 0..PerLong /\ (k + 1) - 1 = k /\ k \in Nat
  BY LongIs
<1>3. PICK b \in Nat \ {0}, s \in Nat \ {0} : b = Shifted[Bits] /\ s = Shifted[Bits * k]
  <2>1. Bits * k \in Nat /\ Bits \in Nat
    BY <1>2, LongIs
  <2> QED
    BY <2>1, ShiftedIs
<1>4. Shifted[Bits * (k + 1)] = s * b
  <2>1. Bits * (k + 1) = Bits * k + Bits /\ Bits * k \in Nat /\ Bits \in Nat
    BY <1>2, LongIs
  <2> QED
    BY <1>3, <2>1, ShiftedTwice
<1>5. PICK low \in Nat : low = long[k] /\ low < s
  BY <1>1, <1>2, <1>3, LongBelow DEF LongTurns
<1>6. PICK d \in Nat : d = indices[k + 1] % b /\ d < b
  BY <1>2
<1>7. long[k + 1] = low + d * s
  BY <1>1, <1>2, <1>3, <1>5, <1>6 DEF LongTurns
<1>8. PICK h \in Nat : long[PerLong] = (low + d * s) + (s * b) * h
  <2>1. PICK h \in Nat : long[PerLong] = long[k + 1] + Shifted[Bits * (k + 1)] * h
    BY <1>1, <1>2, LongAbove
  <2> QED
    BY <1>4, <1>7, <2>1
<1> DEFINE q == b * h + d
<1>9. q \in Int /\ long[PerLong] = s * q + low
  BY <1>8
<1>10. q % b = d
  <2>1. h \in Int /\ d \in Int /\ 0 <= d /\ d < b
    BY <1>6
  <2> QED
    BY <2>1, Divided, Zenon
<1> HIDE DEF q
<1>11. long[PerLong] \div s = q
  <2>1. low \in Int /\ 0 <= low /\ low < s
    BY <1>5
  <2>2. (s * q + low) \div s = q
    BY <1>9, <2>1, Divided, Zenon
  <2> QED
    BY <1>9, <2>2
<1> QED
  BY <1>1, <1>3, <1>6, <1>10, <1>11

LEMMA AppendContains ==
    \A V : \A l \in Seq(V), s \in V :
        /\ Append(l, s) \in Seq(V) /\ Contains(Append(l, s), s)
        /\ \A e : Contains(l, e) => Contains(Append(l, s), e)
<1> SUFFICES ASSUME NEW V, NEW l \in Seq(V), NEW s \in V
             PROVE  /\ Append(l, s) \in Seq(V) /\ Contains(Append(l, s), s)
                    /\ \A e : Contains(l, e) => Contains(Append(l, s), e)
  OBVIOUS
<1>1. /\ Append(l, s) \in Seq(V) /\ Len(Append(l, s)) = Len(l) + 1 /\ Len(l) \in Nat
      /\ Append(l, s)[Len(l) + 1] = s
      /\ \A i \in 1..Len(l) : Append(l, s)[i] = l[i]
  OBVIOUS
<1>2. Contains(Append(l, s), s)
  BY <1>1 DEF Contains
<1>3. ASSUME NEW e, Contains(l, e) PROVE Contains(Append(l, s), e)
  <2>1. PICK i \in 1..Len(l) : l[i] = e
    BY <1>3 DEF Contains
  <2>2. i \in 1..(Len(l) + 1)
    BY <1>1
  <2> QED
    BY <1>1, <2>1, <2>2 DEF Contains
<1> QED
  BY <1>1, <1>2, <1>3

\* Every state of a section is in its local palette.
LEMMA PaletteHas ==
    ASSUME NEW states
    PROVE  /\ \E V : buildLocalPalette(states) \in Seq(V)
           /\ \A c \in 1..Volume : Contains(buildLocalPalette(states), states[c])
<1> DEFINE V == {0} \cup {states[n] : n \in 1..Volume}
           With(l, e) == IF Contains(l, e) THEN l ELSE Append(l, e)
           step == [p \in (1..Volume) \X Seq(V) |-> With(p[2], states[p[1]])]
           Def(f) == f = [n \in 0..Volume |-> IF n = 0 THEN <<0>> ELSE With(f[n - 1], states[n])]
<1>1. Volume \in Nat
  BY EdgeIs
<1>2. /\ <<0>> \in Seq(V)
      /\ \A n \in 1..Volume : states[n] \in V
  OBVIOUS
<1>3. \A n \in 1..Volume, l \in Seq(V) : With(l, states[n]) \in Seq(V)
  BY <1>2, AppendContains
<1> DEFINE local == CHOOSE f : Def(f)
<1>4. buildLocalPalette(states) = local[Volume]
  BY DEF buildLocalPalette
<1> HIDE DEF V, With
<1>5. /\ step \in [(1..Volume) \X Seq(V) -> Seq(V)]
      /\ \A n \in 1..Volume, l \in Seq(V) : step[<<n, l>>] = With(l, states[n])
  BY <1>3
<1> HIDE DEF step
<1>6. PICK f : RecursUpTo(f, Volume, Seq(V), <<0>>, step)
  BY <1>1, <1>2, <1>5, RecursionUpTo
<1>7. Def(f)
  <2>1. f \in [0..Volume -> Seq(V)] /\ f[0] = <<0>>
    BY <1>6 DEF RecursUpTo
  <2>2. ASSUME NEW n \in 1..Volume PROVE f[n] = With(f[n - 1], states[n])
    <3>1. f[n - 1] \in Seq(V)
      BY <1>1, <2>1
    <3>2. f[n] = step[<<n, f[n - 1]>>]
      BY <1>6 DEF RecursUpTo
    <3> QED
      BY <1>5, <3>1, <3>2
  <2>3. \A n \in 0..Volume : f[n] = IF n = 0 THEN <<0>> ELSE With(f[n - 1], states[n])
    <3>1. \A n \in 0..Volume : n = 0 \/ n \in 1..Volume
      BY <1>1
    <3> QED
      BY <2>1, <2>2, <3>1
  <2> QED
    BY <2>1, <2>3
<1>8. Def(local)
  BY <1>7
<1> HIDE DEF local
<1>9. local[0] = <<0>> /\ \A n \in 1..Volume : local[n] = With(local[n - 1], states[n])
  BY <1>1, <1>8
<1> DEFINE S == {n \in 0..Volume : /\ local[n] \in Seq(V)
                                   /\ \A c \in 1..n : Contains(local[n], states[c])}
<1>10. 0 \in S
  <2>1. 0 \in 0..Volume /\ 1..0 = {}
    BY <1>1
  <2>2. local[0] \in Seq(V)
    BY <1>2, <1>9
  <2> QED
    BY <2>1, <2>2
<1>11. ASSUME NEW n \in 1..Volume, n - 1 \in S PROVE n \in S
  <2>1. PICK l : l = local[n - 1] /\ l \in Seq(V) /\ \A c \in 1..(n - 1) : Contains(l, states[c])
    BY <1>11
  <2>2. PICK w : w = With(l, states[n]) /\ w = local[n]
    BY <1>9, <2>1
  <2>3. w \in Seq(V) /\ Contains(w, states[n])
        /\ \A e : Contains(l, e) => Contains(w, e)
    BY <1>2, <2>1, <2>2, AppendContains DEF With
  <2>4. \A c \in 1..n : c \in 1..(n - 1) \/ c = n
    OBVIOUS
  <2>5. n \in 0..Volume
    BY <1>1
  <2> QED
    BY <2>1, <2>2, <2>3, <2>4, <2>5
<1> HIDE DEF S
<1>12. \A n \in 0..Volume : n \in S
  BY <1>1, <1>10, <1>11, InductionUpTo
<1>13. Volume \in S
  BY <1>1, <1>12
<1> QED
  BY <1>4, <1>13 DEF S

\* The index of every state leads back to the state.
LEMMA IndexLeadsBack ==
    ASSUME NEW states, NEW local, local = buildLocalPalette(states), NEW c \in 1..Volume
    PROVE  /\ IndexByState(local, states[c]) \in Nat
           /\ IndexByState(local, states[c]) < Len(local)
           /\ local[IndexByState(local, states[c]) + 1] = states[c]
<1>1. PICK V : local \in Seq(V)
  BY PaletteHas
<1>2. DOMAIN local = 1..Len(local) /\ Len(local) \in Nat
  BY <1>1
<1>3. PICK s : s = states[c]
  OBVIOUS
<1>4. \E i \in DOMAIN local : local[i] = s
  <2>1. Contains(local, s)
    BY <1>3, PaletteHas
  <2> QED
    BY <1>2, <2>1 DEF Contains
<1>5. PICK i : i = CHOOSE j \in DOMAIN local : local[j] = s
  OBVIOUS
<1>6. i \in DOMAIN local /\ local[i] = s
  BY <1>4, <1>5
<1>7. IndexByState(local, s) = i - 1
  BY <1>5 DEF IndexByState
<1>8. i \in 1..Len(local) /\ i - 1 \in Nat /\ i - 1 < Len(local) /\ (i - 1) + 1 = i
  BY <1>2, <1>6
<1> QED
  BY <1>3, <1>6, <1>7, <1>8

\* What a client unpacks for a cell is the state that was packed for it, if the
\* indices fit their bits.
UnpackedState(local, longs, c) ==
    local[((longs[c \div PerLong + 1] \div Shifted[Bits * (c % PerLong)]) % Shifted[Bits]) + 1]

LEMMA SectionSeen ==
    ASSUME NEW states, NEW local, local = buildLocalPalette(states),
           Len(local) <= Shifted[Bits],
           NEW longs, longs = packSectionPaletteIndices(states, local), NEW c \in Cells
    PROVE  UnpackedState(local, longs, c) = states[c + 1]
<1>1. PerLong \in Nat \ {0} /\ c \in Nat /\ c < Volume
  BY LongIs, EdgeIs DEF Cells
<1>2. PICK count \in Nat : count = Volume \div PerLong /\ Volume = PerLong * count
  BY LongIs
<1>3. PICK j \in Nat, k \in Nat :
          j = c \div PerLong /\ k = c % PerLong /\ k < PerLong /\ c = PerLong * j + k
  <2>1. PICK w \in Nat \ {0} : w = PerLong
    BY <1>1
  <2>2. c \in Int /\ c >= 0
    BY <1>1
  <2>3. /\ c \div w \in Int /\ c % w \in Int /\ 0 <= c % w /\ c % w < w
        /\ c = w * (c \div w) + (c % w) /\ c \div w >= 0
    BY <2>2, Divides
  <2>4. c \div w \in Nat /\ c % w \in Nat
    BY <2>3
  <2> QED
    BY <2>1, <2>3, <2>4
<1>4. j < count
  <2>1. PICK w \in Nat \ {0} : w = PerLong
    BY <1>1
  <2>2. c \in Int /\ c < w * count /\ count \in Int
    BY <1>1, <1>2, <2>1
  <2>3. c \div w < count
    BY <2>2, Below
  <2> QED
    BY <1>3, <2>1, <2>3
<1>5. j + 1 \in 1..count /\ k \in 0..(PerLong - 1) /\ k + 1 \in 1..PerLong /\ (j + 1) - 1 = j
  BY <1>1, <1>3, <1>4
<1> DEFINE Cell(n) == j * PerLong + n
           indices == [n \in 1..PerLong |-> IndexByState(local, states[Cell(n)])]
<1>6. longs[j + 1] = PackLong(indices)
  BY <1>2, <1>5 DEF packSectionPaletteIndices
<1>7. \A n \in 1..PerLong : Cell(n) \in 1..Volume
  <2>1. PICK a \in Nat : a = j * PerLong
    BY <1>1
  <2>2. (j + 1) * PerLong <= PerLong * count
    BY <1>1, <1>4
  <2>3. (j + 1) * PerLong = a + PerLong
    BY <1>1, <2>1
  <2> QED
    BY <1>1, <1>2, <2>1, <2>2, <2>3
<1>8. Cell(k + 1) = c + 1
  <2>1. j * PerLong = PerLong * j
    BY <1>1
  <2> QED
    BY <1>1, <1>3, <2>1
<1> HIDE DEF Cell
<1>9. /\ indices \in [1..PerLong -> Nat]
      /\ \A n \in 1..PerLong : indices[n] = IndexByState(local, states[Cell(n)])
  BY <1>7, IndexLeadsBack
<1> HIDE DEF indices
<1>10. PICK index \in Nat :
           index = indices[k + 1] /\ index < Len(local) /\ local[index + 1] = states[c + 1]
  BY <1>5, <1>7, <1>8, <1>9, IndexLeadsBack
<1>11. (PackLong(indices) \div Shifted[Bits * k]) % Shifted[Bits] = index
  <2>1. PICK b \in Nat \ {0} : b = Shifted[Bits]
    BY LongIs, ShiftedIs
  <2>2. PICK V : local \in Seq(V)
    BY PaletteHas
  <2>3. index < b
    BY <1>10, <2>1, <2>2
  <2>4. index % b = index
    <3>1. (b * 0 + index) % b = index
      BY <2>3, Quotients
    <3> QED
      BY <2>1, <3>1
  <2>5. (PackLong(indices) \div Shifted[Bits * k]) % Shifted[Bits] = indices[k + 1] % Shifted[Bits]
    BY <1>5, <1>9, Unpacked
  <2> QED
    BY <1>10, <2>1, <2>4, <2>5
<1> QED
  BY <1>3, <1>6, <1>10, <1>11 DEF UnpackedState

\* The number of sections of a mask below a height goes up with each of them.
BelowIn(mask, n) == Cardinality({m \in mask : m < n})

LEMMA MaskCounted ==
    \A mask \in SUBSET (0..(Sections - 1)) :
        /\ BelowIn(mask, 0) = 0
        /\ \A n \in Nat :
               /\ BelowIn(mask, n) \in Nat
               /\ Cardinality({m \in mask : m <= n}) = BelowIn(mask, n + 1)
               /\ BelowIn(mask, n + 1) = IF n \in mask THEN BelowIn(mask, n) + 1
                                         ELSE BelowIn(mask, n)
<1> SUFFICES ASSUME NEW mask \in SUBSET (0..(Sections - 1))
             PROVE  /\ BelowIn(mask, 0) = 0
                    /\ \A n \in Nat :
                           /\ BelowIn(mask, n) \in Nat
                           /\ Cardinality({m \in mask : m <= n}) = BelowIn(mask, n + 1)
                           /\ BelowIn(mask, n + 1) = IF n \in mask THEN BelowIn(mask, n) + 1
                                                     ELSE BelowIn(mask, n)
  OBVIOUS
<1>1. Sections \in Nat
  BY WorldAssumption
<1>2. IsFiniteSet(0..(Sections - 1))
  BY <1>1, FS_Interval
<1>3. \A n \in Nat : IsFiniteSet({m \in mask : m < n})
  <2> SUFFICES ASSUME NEW n \in Nat PROVE IsFiniteSet({m \in mask : m < n})
    OBVIOUS
  <2>1. {m \in mask : m < n} \in SUBSET (0..(Sections - 1))
    OBVIOUS
  <2> QED
    BY <1>2, <2>1, FS_Subset
<1>0. \A m \in mask : m \in Nat
  BY <1>1
<1>4. {m \in mask : m < 0} = {}
  <2>1. \A m \in mask : ~(m < 0)
    BY <1>0
  <2> QED
    BY <2>1
<1>5. ASSUME NEW n \in Nat
      PROVE  /\ BelowIn(mask, n) \in Nat
             /\ Cardinality({m \in mask : m <= n}) = BelowIn(mask, n + 1)
             /\ BelowIn(mask, n + 1) = IF n \in mask THEN BelowIn(mask, n) + 1
                                       ELSE BelowIn(mask, n)
  <2> DEFINE S == {m \in mask : m < n}
  <2>1. IsFiniteSet(S)
    BY <1>3
  <2>2. Cardinality(S) \in Nat
    BY <2>1, FS_CardinalityType
  <2>3. \A m \in mask : (m <= n <=> m < n + 1) /\ (m < n + 1 <=> m < n \/ m = n) /\ ~(n < n)
    BY <1>0
  <2>4. {m \in mask : m <= n} = {m \in mask : m < n + 1}
    BY <2>3, Zenon
  <2>5. CASE n \in mask
    <3>1. {m \in mask : m < n + 1} = S \cup {n}
      <4>1. ASSUME NEW m PROVE m \in {i \in mask : i < n + 1} <=> m \in S \cup {n}
        BY <2>3, <2>5, Zenon
      <4> QED
        BY <4>1, Zenon
    <3>2. n \notin S
      BY <2>3, <2>5
    <3>3. Cardinality(S \cup {n}) = Cardinality(S) + 1
      BY <2>1, <3>2, FS_AddElement
    <3> QED
      BY <2>2, <2>4, <2>5, <3>1, <3>3 DEF BelowIn
  <2>6. CASE n \notin mask
    <3>1. {m \in mask : m < n + 1} = S
      <4>1. ASSUME NEW m PROVE m \in {i \in mask : i < n + 1} <=> m \in S
        BY <2>3, <2>6, Zenon
      <4> QED
        BY <4>1, Zenon
    <3> QED
      BY <2>2, <2>4, <2>6, <3>1 DEF BelowIn
  <2> QED
    BY <2>5, <2>6
<1> QED
  BY <1>4, <1>5, FS_EmptySet DEF BelowIn

\* A section stands in the packet behind those that the mask names below it.
LEMMA MaskedPlace ==
    ASSUME NEW family, NEW sections, NEW y \in SectionMask(sections)
    PROVE  EncodeMasked(family, sections)[Cardinality({m \in SectionMask(sections) : m <= y})]
               = WriteSection(family, findSection(sections, y))
<1> DEFINE mask == SectionMask(sections)
           count(n) == BelowIn(mask, n)
           Write(n) == WriteSection(family, findSection(sections, n))
           V == {Write(n) : n \in 0..(Sections - 1)}
           With(l, n) == IF n - 1 \in mask THEN Append(l, Write(n - 1)) ELSE l
           step == [p \in (1..Sections) \X Seq(V) |-> With(p[2], p[1])]
           Def(f) == f = [n \in 0..Sections |-> IF n = 0 THEN <<>>
                                                ELSE IF n - 1 \in mask
                                                     THEN Append(f[n - 1], Write(n - 1))
                                                     ELSE f[n - 1]]
           written == CHOOSE f : Def(f)
<1>1. Sections \in Nat
  BY WorldAssumption
<1>2. mask \in SUBSET (0..(Sections - 1))
  BY DEF SectionMask
<1>3. EncodeMasked(family, sections) = written[Sections]
  BY DEF EncodeMasked
<1> HIDE DEF mask
<1>4. \A n \in 1..Sections : Write(n - 1) \in V
  <2>1. \A n \in 1..Sections : n - 1 \in 0..(Sections - 1)
    BY <1>1
  <2> QED
    BY <2>1
<1>5. <<>> \in Seq(V)
  OBVIOUS
<1> HIDE DEF Write, V
<1>6. \A n \in 1..Sections, l \in Seq(V) : With(l, n) \in Seq(V)
  BY <1>4
<1>7. /\ step \in [(1..Sections) \X Seq(V) -> Seq(V)]
      /\ \A n \in 1..Sections, l \in Seq(V) : step[<<n, l>>] = With(l, n)
  <2> HIDE DEF With
  <2> QED
    BY <1>6
<1> HIDE DEF step
<1>8. PICK f : RecursUpTo(f, Sections, Seq(V), <<>>, step)
  BY <1>1, <1>5, <1>7, RecursionUpTo
<1>9. Def(f)
  <2>1. f \in [0..Sections -> Seq(V)] /\ f[0] = <<>>
    BY <1>8 DEF RecursUpTo
  <2>2. ASSUME NEW n \in 1..Sections PROVE f[n] = With(f[n - 1], n)
    <3>1. f[n - 1] \in Seq(V)
      BY <1>1, <2>1
    <3>2. f[n] = step[<<n, f[n - 1]>>]
      BY <1>8 DEF RecursUpTo
    <3> QED
      BY <1>7, <3>1, <3>2
  <2>3. \A n \in 0..Sections : f[n] = IF n = 0 THEN <<>>
                                      ELSE IF n - 1 \in mask
                                           THEN Append(f[n - 1], Write(n - 1))
                                           ELSE f[n - 1]
    <3>1. \A n \in 0..Sections : n = 0 \/ n \in 1..Sections
      BY <1>1
    <3> QED
      BY <2>1, <2>2, <3>1
  <2> QED
    BY <2>1, <2>3
<1>10. Def(written)
  BY <1>9
<1> HIDE DEF written
<1>11. written[0] = <<>> /\ \A n \in 1..Sections : written[n] = With(written[n - 1], n)
  <2>1. \A n \in 1..Sections : n \in 0..Sections /\ n # 0
    BY <1>1
  <2>2. \A n \in 0..Sections : written[n] = IF n = 0 THEN <<>>
                                            ELSE IF n - 1 \in mask
                                                 THEN Append(written[n - 1], Write(n - 1))
                                                 ELSE written[n - 1]
    BY <1>10
  <2>3. 0 \in 0..Sections
    BY <1>1
  <2> QED
    BY <2>1, <2>2, <2>3
<1> DEFINE S == {n \in 0..Sections :
                    /\ written[n] \in Seq(V) /\ Len(written[n]) = count(n)
                    /\ \A m \in mask : m < n =>
                           /\ count(m + 1) \in 1..count(n)
                           /\ written[n][count(m + 1)] = Write(m)}
<1>12. 0 \in S
  <2>1. 0 \in 0..Sections /\ \A m \in mask : ~(m < 0)
    BY <1>1, <1>2
  <2>2. count(0) = 0
    BY <1>2, MaskCounted
  <2> HIDE DEF count
  <2> QED
    BY <1>5, <1>11, <2>1, <2>2
<1>13. ASSUME NEW n \in 1..Sections, n - 1 \in S PROVE n \in S
  <2>1. PICK k \in Nat : k = n - 1 /\ n = k + 1 /\ k \in 0..Sections /\ n \in 0..Sections
    BY <1>1
  <2>2. PICK l, c : l = written[k] /\ c = count(k)
    OBVIOUS
  <2>3. /\ l \in Seq(V) /\ Len(l) = c
        /\ \A m \in mask : m < k => count(m + 1) \in 1..c /\ l[count(m + 1)] = Write(m)
    BY <1>13, <2>1, <2>2
  <2>4. c \in Nat /\ count(n) = IF k \in mask THEN c + 1 ELSE c
    <3>1. /\ BelowIn(mask, k) \in Nat
          /\ BelowIn(mask, k + 1) = IF k \in mask THEN BelowIn(mask, k) + 1
                                    ELSE BelowIn(mask, k)
      <4>1. k \in Nat
        OBVIOUS
      <4> QED
        BY <1>2, <4>1, MaskCounted, Zenon
    <3>2. n = k + 1
      BY <2>1
    <3> QED
      BY <2>2, <3>1, <3>2
  <2>5. written[n] = IF k \in mask THEN Append(l, Write(k)) ELSE l
    BY <1>11, <2>1, <2>2
  <2>6. \A m \in mask : m \in Int /\ (m < n <=> m < k \/ m = k)
    BY <1>1, <1>2, <2>1
  <2>7. Write(k) \in V
    BY <1>4, <2>1
  <2> HIDE DEF count
  <2>8. CASE k \in mask
    <3>1. PICK w : w = Append(l, Write(k)) /\ w = written[n]
      BY <2>5, <2>8
    <3>2. w \in Seq(V) /\ Len(w) = c + 1 /\ w[c + 1] = Write(k)
          /\ \A i \in 1..c : w[i] = l[i]
      <4>1. \A s \in Seq(V), e \in V :
                /\ Append(s, e) \in Seq(V) /\ Len(Append(s, e)) = Len(s) + 1
                /\ Append(s, e)[Len(s) + 1] = e
                /\ \A i \in 1..Len(s) : Append(s, e)[i] = s[i]
        OBVIOUS
      <4> QED
        <5>1. PICK e \in V : e = Write(k)
          BY <2>7
        <5>2. w = Append(l, e)
          BY <3>1, <5>1
        <5> QED
          BY <2>3, <4>1, <5>1, <5>2
    <3>3. ASSUME NEW m \in mask, m < n
          PROVE  count(m + 1) \in 1..(c + 1) /\ w[count(m + 1)] = Write(m)
      <4>1. CASE m < k
        <5>1. count(m + 1) \in 1..c /\ l[count(m + 1)] = Write(m)
          BY <2>3, <4>1
        <5> QED
          BY <2>4, <3>2, <5>1
      <4>2. CASE m = k
        <5>1. count(m + 1) = c + 1
          BY <2>1, <2>4, <2>8, <4>2
        <5> QED
          BY <2>4, <3>2, <4>2, <5>1
      <4> QED
        BY <2>6, <3>3, <4>1, <4>2
    <3> QED
      BY <2>1, <2>4, <2>8, <3>1, <3>2, <3>3
  <2>9. CASE k \notin mask
    <3>1. written[n] = l /\ count(n) = c
      BY <2>4, <2>5, <2>9
    <3> QED
      BY <2>1, <2>3, <2>6, <2>9, <3>1
  <2> QED
    BY <2>8, <2>9
<1> HIDE DEF S
<1>14. \A n \in 0..Sections : n \in S
  BY <1>1, <1>12, <1>13, InductionUpTo
<1>15. Sections \in S
  BY <1>1, <1>14
<1>16. y \in mask /\ y \in Nat /\ y < Sections
  BY <1>1, <1>2 DEF mask
<1>17. written[Sections][count(y + 1)] = Write(y)
  BY <1>15, <1>16 DEF S
<1>18. Cardinality({m \in mask : m <= y}) = count(y + 1)
  BY <1>2, <1>16, MaskCounted, Zenon
<1> QED
  BY <1>3, <1>17, <1>18 DEF Write, mask

-----------------------------------------------------------------------------
(***************************************************************************)
(* The inductive invariant.                                                *)
(***************************************************************************)

\* A schematic has at least one block if none of its sides is zero.
LEMMA SomeBlock ==
    ASSUME size \in Sizes, \A k \in 1..3 : size[k] > 0
    PROVE  /\ Width \in Nat \ {0} /\ Height \in Nat \ {0} /\ Length \in Nat \ {0}
           /\ Expected \in Nat /\ 0 < Expected
<1>1. Width \in Nat \ {0} /\ Height \in Nat \ {0} /\ Length \in Nat \ {0}
  BY SizeIs DEF Width, Height, Length
<1>2. Width * Height \in Nat \ {0}
  BY <1>1
<1>3. Width * Height * Length \in Nat \ {0}
  BY <1>1, <1>2
<1> QED
  BY <1>1, <1>3 DEF Expected

\* Without chunks and with no block set there is nothing to say of the chunks.
LEMMA NoChunks ==
    size \in Sizes /\ DOMAIN chunks = {} /\ set = 0 => Shaped /\ Covered /\ Kept
<1> SUFFICES ASSUME size \in Sizes, DOMAIN chunks = {}, set = 0
             PROVE  Shaped /\ Covered /\ Kept
  OBVIOUS
<1>1. ASSUME NEW x \in 0..(Width - 1), NEW y \in 0..(Height - 1), NEW z \in 0..(Length - 1)
      PROVE  ~(blockIndex(x, y, z) < set)
  <2>1. Width \in Int /\ Height \in Int /\ Length \in Int
    BY SizeIs
  <2>2. Width \in Nat \ {0} /\ Length \in Nat \ {0} /\ x \in Nat /\ z \in Nat /\ y \in Nat
        /\ x < Width /\ z < Length
    BY <2>1
  <2>3. (y * Length + z) * Width + x \in Nat
    BY <2>2, InLayer
  <2> QED
    BY <2>3 DEF blockIndex
<1>2. Covered
  BY <1>1 DEF Covered
<1> QED
  BY <1>2 DEF Shaped, Kept

LEMMA InitialWorld == Init => WorldInv
<1> SUFFICES ASSUME Init PROVE WorldInv
  OBVIOUS
<1>1. size \in Sizes /\ opts \in Options /\ DOMAIN chunks = {} /\ set = 0 /\ phase = "palette"
  BY DEF Init
<1>2. Shaped /\ Covered /\ Kept
  BY <1>1, NoChunks
<1>3. Progress /\ SentFromSpawn
  BY <1>1 DEF Progress, SentFromSpawn
<1> QED
  BY <1>1, <1>2, <1>3 DEF WorldInv

\* The chunks stay as they are with the size, the data and the blocks set.
LEMMA ChunksStay ==
    ASSUME WorldInv, UNCHANGED <<size, ids, set, chunks>>
    PROVE  size' \in Sizes /\ Shaped' /\ Covered' /\ Kept'
<1>1. size \in Sizes /\ Shaped /\ Covered /\ Kept
  BY DEF WorldInv
<1>2. Width' = Width /\ Height' = Height /\ Length' = Length
  BY DEF Width, Height, Length
<1>3. Shaped'
  BY <1>1, <1>2 DEF Shaped, SectionSet, Values, Ascending
<1>4. Covered'
  BY <1>1, <1>2 DEF Covered, blockIndex
<1>5. Kept'
  BY <1>1, <1>2 DEF Kept, Wanted, Given, InSchematic, blockIndex
<1> QED
  BY <1>1, <1>3, <1>4, <1>5

LEMMA OptionsStay == [Next]_vars => UNCHANGED <<size, opts>>
BY DEF Next, vars, given, DecodePalette, ReadID, EndData, SetBlock, SendSpawnChunk, Terminated

\* A section is written the same way as long as the palette is the same.
LEMMA SectionStays ==
    ASSUME UNCHANGED palette
    PROVE  \A family, blocks : WriteSection(family, blocks)' = WriteSection(family, blocks)
<1> SUFFICES ASSUME NEW family, NEW blocks
             PROVE  WriteSection(family, blocks)' = WriteSection(family, blocks)
  OBVIOUS
<1>1. SectionStates(blocks)' = SectionStates(blocks)
  BY DEF SectionStates, blockStateForProtocol, OutsidePalette
<1> QED
  BY <1>1 DEF WriteSection

\* What was sent stays what it was.
LEMMA PacketStays ==
    ASSUME SentFromSpawn, UNCHANGED <<size, opts, palette, chunks, sent>>, phase = phase'
    PROVE  SentFromSpawn'
<1>1. DimensionSections' = DimensionSections
  BY DEF DimensionSections, Dimension, Height
<1>2. PacketIsChunk => PacketIsChunk'
  BY <1>1, SectionStays DEF PacketIsChunk
<1> QED
  BY <1>2 DEF SentFromSpawn

LEMMA WorldStep == WorldInv /\ [Next]_vars => WorldInv'
<1> SUFFICES ASSUME WorldInv, [Next]_vars PROVE WorldInv'
  OBVIOUS
<1>0. opts' \in Options
  BY OptionsStay DEF WorldInv
<1>1. size \in Sizes /\ Progress /\ SentFromSpawn /\ set \in Nat
  BY DEF WorldInv, Progress
<1>2. CASE DecodePalette
  <2>1. UNCHANGED <<size, ids, set, chunks, sent>> /\ phase = "palette"
        /\ (phase' = "error" \/ (phase' = "data" /\ \A k \in 1..3 : size[k] > 0))
    BY <1>2 DEF DecodePalette, given
  <2>2. Progress' /\ SentFromSpawn'
    BY <1>1, <2>1 DEF Progress, SentFromSpawn
  <2> QED
    BY <1>0, <2>1, <2>2, ChunksStay DEF WorldInv
<1>3. CASE ReadID
  <2>1. UNCHANGED <<size, set, chunks, sent>> /\ phase = "data" /\ phase' \in {"data", "error"}
    BY <1>3 DEF ReadID, given
  <2>2. (size \in Sizes /\ DOMAIN chunks = {} /\ set = 0)'
    BY <1>1, <2>1 DEF Progress
  <2>3. (Shaped /\ Covered /\ Kept)'
    BY <2>2, NoChunks, PTL
  <2>4. Progress' /\ SentFromSpawn'
    BY <1>1, <2>1, <2>2 DEF Progress, SentFromSpawn
  <2> QED
    BY <1>0, <2>2, <2>3, <2>4 DEF WorldInv
<1>4. CASE EndData
  <2>1. UNCHANGED <<size, ids, set, chunks, sent>> /\ phase = "data"
        /\ phase' \in {"blocks", "error"}
    BY <1>4 DEF EndData, given
  <2>2. set = 0 /\ DOMAIN chunks = {} /\ \A k \in 1..3 : size[k] > 0
    BY <1>1, <2>1 DEF Progress
  <2>3. 0 < Expected /\ Expected' = Expected
    BY <1>1, <2>1, <2>2, SomeBlock DEF Expected, Width, Height, Length
  <2>4. Progress' /\ SentFromSpawn'
    BY <1>1, <2>1, <2>2, <2>3 DEF Progress, SentFromSpawn
  <2> QED
    BY <1>0, <2>1, <2>4, ChunksStay DEF WorldInv
<1>5. CASE SetBlock
  <2> DEFINE x  == set % Width
             z  == (set \div Width) % Length
             y  == set \div (Width * Length)
             id == ids[blockIndex(x, y, z) + 1]
  <2>1. /\ UNCHANGED <<size, ids, sent>> /\ phase = "blocks" /\ set < Expected
        /\ IF OutsidePalette(id) THEN phase' = "error" /\ UNCHANGED <<set, chunks>>
           ELSE /\ chunks' = setBlock(x, y, z, id)
                /\ set' = set + 1
                /\ phase' = IF set' = Expected THEN "loaded" ELSE phase
    BY <1>5 DEF SetBlock, given
  <2>2. \A k \in 1..3 : size[k] > 0
    BY <1>1, <2>1 DEF Progress
  <2>3. /\ Width \in Nat \ {0} /\ Height \in Nat \ {0} /\ Length \in Nat \ {0}
        /\ Expected \in Nat /\ Expected' = Expected
    BY <1>1, <2>1, <2>2, SomeBlock DEF Expected, Width, Height, Length
  <2> HIDE DEF x, y, z
  <2>4. CASE OutsidePalette(id)
    <3>1. phase' = "error" /\ UNCHANGED <<set, chunks>>
      BY <2>1, <2>4
    <3>2. Progress' /\ SentFromSpawn'
      BY <1>1, <2>1, <2>2, <3>1 DEF Progress, SentFromSpawn
    <3> QED
      BY <1>0, <2>1, <3>1, <3>2, ChunksStay DEF WorldInv
  <2>5. CASE ~ OutsidePalette(id)
    <3>1. /\ chunks' = setBlock(x, y, z, id) /\ set' = set + 1
          /\ phase' = IF set' = Expected THEN "loaded" ELSE "blocks"
      BY <2>1, <2>5
    <3>2. blockIndex(x, y, z) = set
      <4>1. PICK x1, z1, y1 : x1 = x /\ z1 = z /\ y1 = y
        OBVIOUS
      <4>2. blockIndex(x1, y1, z1) = set
        BY <1>1, <2>1, <2>3, <4>1, Turn DEF x, y, z
      <4> QED
        BY <4>1, <4>2
    <3>3. Shaped' /\ Covered' /\ Kept'
      <4>1. PICK x1, z1, y1, i1 : x1 = x /\ z1 = z /\ y1 = y /\ i1 = id
        OBVIOUS
      <4>2. i1 = ids[set + 1] /\ chunks' = setBlock(x1, y1, z1, i1)
        BY <3>1, <3>2, <4>1
      <4>3. x1 = set % Width /\ z1 = (set \div Width) % Length /\ y1 = set \div (Width * Length)
        BY <4>1 DEF x, y, z
      <4> HIDE DEF id
      <4> QED
        BY <2>1, <2>3, <3>1, <4>2, <4>3, BlockIsSet
    <3>4. Progress' /\ SentFromSpawn'
      <4>1. set + 1 # Expected => set + 1 < Expected
        BY <1>1, <2>1, <2>3
      <4> QED
        BY <1>1, <2>1, <2>2, <2>3, <3>1, <4>1 DEF Progress, SentFromSpawn
    <3> QED
      BY <1>0, <1>1, <2>1, <3>3, <3>4 DEF WorldInv
  <2> QED
    BY <2>4, <2>5
<1>6. ASSUME NEW family \in Families, NEW spawn \in Spawns, SendSpawnChunk(family, spawn)
      PROVE  WorldInv'
  <2> DEFINE pos == <<chunkCoord(spawn[1]), chunkCoord(spawn[2])>>
  <2>1. /\ UNCHANGED <<size, opts, palette, ids, set, chunks>> /\ phase = "loaded"
        /\ IF pos \in DOMAIN chunks
           THEN /\ phase' = "sent"
                /\ \E told \in ToldTo(family) :
                       sent' = [family |-> family, spawn |-> spawn, pos |-> pos,
                                told |-> told,
                                packet |-> WriteMapChunk(family, chunks[pos])]
           ELSE phase' = "error" /\ UNCHANGED sent
    BY <1>6 DEF SendSpawnChunk, given
  <2>2. Progress'
    BY <1>1, <2>1 DEF Progress, Expected, Width, Height, Length
  <2>3. SentFromSpawn'
    <3>1. CASE pos \in DOMAIN chunks
      <4>1. /\ sent'.family = family /\ sent'.spawn = spawn /\ sent'.pos = pos
            /\ sent'.packet = WriteMapChunk(family, chunks[pos])
        BY <2>1, <3>1
      <4>2. PICK sections, packet : sections = chunks[pos] /\ packet = WriteMapChunk(family, sections)
        OBVIOUS
      <4>3. /\ sent'.packet = packet /\ chunks'[sent'.pos] = sections
            /\ sent'.family = family
        BY <2>1, <4>1, <4>2
      <4>4. DimensionSections' = DimensionSections
        BY <2>1 DEF DimensionSections, Dimension, Height
      <4>5. packet.mask = SectionMask(sections) /\ packet.data = EncodeChunkData(family, sections)
        BY <4>2 DEF WriteMapChunk
      <4>6. ASSUME family = "modern"
            PROVE  /\ DOMAIN packet.data = DOMAIN DimensionSections
                   /\ \A k \in DOMAIN packet.data :
                          packet.data[k]
                              = WriteSection(family, findSection(sections, DimensionSections[k]))
        BY <4>5, <4>6 DEF EncodeChunkData
      <4>7. ASSUME family # "modern"
            PROVE  \A y \in packet.mask :
                       packet.data[Cardinality({m \in packet.mask : m <= y})]
                           = WriteSection(family, findSection(sections, y))
        <5>1. packet.data = EncodeMasked(family, sections)
          BY <4>5, <4>7 DEF EncodeChunkData
        <5> QED
          BY <4>5, <5>1, MaskedPlace
      <4>8. PacketIsChunk'
        BY <2>1, <4>3, <4>4, <4>5, <4>6, <4>7, SectionStays DEF PacketIsChunk
      <4> QED
        BY <2>1, <3>1, <4>1, <4>8 DEF SentFromSpawn
    <3>2. CASE pos \notin DOMAIN chunks
      BY <2>1, <3>2 DEF SentFromSpawn
    <3> QED
      BY <3>1, <3>2
  <2> QED
    BY <1>0, <2>1, <2>2, <2>3, ChunksStay DEF WorldInv
<1>7. CASE UNCHANGED vars
  <2>1. UNCHANGED <<size, opts, phase, palette, ids, set, chunks, sent>>
    BY <1>7 DEF vars
  <2>2. Progress'
    BY <1>1, <2>1 DEF Progress, Expected, Width, Height, Length
  <2>3. SentFromSpawn'
    BY <1>1, <2>1, PacketStays
  <2> QED
    BY <1>0, <2>1, <2>2, <2>3, ChunksStay DEF WorldInv
<1> QED
  BY <1>2, <1>3, <1>4, <1>5, <1>6, <1>7 DEF Next, Terminated

LEMMA WorldHolds == Spec => []WorldInv
<1> QED
  BY InitialWorld, WorldStep, PTL DEF Spec

-----------------------------------------------------------------------------
(***************************************************************************)
(* What follows from it.                                                   *)
(***************************************************************************)

\* The blocks of the section at a layer are found.
LEMMA SectionFound ==
    ASSUME NEW t \in Seq(SectionSet), Ascending(t), NEW i \in DOMAIN t, NEW yy, t[i].y = yy
    PROVE  findSection(t, yy) = t[i].blocks /\ t[i].blocks # <<>>
<1>1. /\ DOMAIN t = 1..Len(t) /\ Len(t) \in Nat
      /\ \A j \in DOMAIN t : t[j].y \in Nat /\ t[j].blocks \in [Cells -> Values]
  BY OfSections
<1> DEFINE found == {j \in DOMAIN t : t[j].y = yy}
<1>2. ASSUME NEW j \in DOMAIN t, t[j].y = yy PROVE j = i
  <2>1. CASE i < j
    BY <1>1, <1>2, <2>1 DEF Ascending
  <2>2. CASE j < i
    BY <1>1, <1>2, <2>2 DEF Ascending
  <2>3. i \in Int /\ j \in Int
    BY <1>1
  <2> QED
    BY <2>1, <2>2, <2>3
<1>3. found = {i}
  BY <1>2
<1>4. findSection(t, yy) = IF found = {} THEN <<>>
                           ELSE t[CHOOSE j \in found : \A k \in found : j <= k].blocks
  BY DEF findSection
<1>5. (CHOOSE j \in found : \A k \in found : j <= k) = i
  <2>1. i <= i
    BY <1>1
  <2> QED
    BY <1>3, <2>1
<1>6. t[i].blocks # <<>>
  <2>1. 0 \in Cells
    BY EdgeIs DEF Cells
  <2>2. DOMAIN t[i].blocks = Cells
    BY <1>1
  <2>3. DOMAIN <<>> = {}
    OBVIOUS
  <2> QED
    BY <2>1, <2>2, <2>3, Zenon
<1> QED
  BY <1>3, <1>4, <1>5, <1>6

\* LoadKeepsBlocks: whatever the size of the schematic, the loader's chunks and
\* sections hold every block once, in its place, with zeros around (buildWorld,
\* setBlock and sectionIndexInChunk of world/schematic/load.go).
THEOREM KeepsBlocks == Spec => []LoadKeepsBlocks
<1>1. WorldInv => LoadKeepsBlocks
  <2> SUFFICES ASSUME WorldInv PROVE LoadKeepsBlocks
    OBVIOUS
  <2>1. size \in Sizes /\ Progress /\ Shaped /\ Covered /\ Kept
    BY DEF WorldInv
  <2>2. ASSUME phase = "loaded",
               NEW x \in 0..(Width - 1), NEW y \in 0..(Height - 1), NEW z \in 0..(Length - 1)
        PROVE  findSection(chunks[<<x \div Edge, z \div Edge>>], y \div Edge) # <<>>
    <3> DEFINE pos == <<x \div Edge, z \div Edge>>
    <3>1. set = Expected /\ \A k \in 1..3 : size[k] > 0
      BY <2>1, <2>2 DEF Progress
    <3>2. Width \in Nat \ {0} /\ Height \in Nat \ {0} /\ Length \in Nat \ {0}
      BY <2>1, <3>1, SomeBlock
    <3>3. blockIndex(x, y, z) < (y + 1) * Length * Width
      BY <3>2, InLayer DEF blockIndex
    <3>4. (y + 1) * Length * Width <= Expected
      <4>1. (y + 1) * Length <= Height * Length /\ (y + 1) * Length \in Nat
            /\ Height * Length \in Nat
        BY <3>2
      <4>2. (y + 1) * Length * Width <= Height * Length * Width
        BY <3>2, <4>1
      <4>3. Height * Length * Width = Width * Height * Length
        BY <3>2
      <4> QED
        BY <4>2, <4>3 DEF Expected
    <3>5. blockIndex(x, y, z) < set
      <4>1. blockIndex(x, y, z) \in Int /\ (y + 1) * Length * Width \in Int /\ Expected \in Int
        BY <3>2 DEF blockIndex, Expected
      <4> QED
        BY <3>1, <3>3, <3>4, <4>1
    <3>6. pos \in DOMAIN chunks /\ \E i \in DOMAIN chunks[pos] : chunks[pos][i].y = y \div Edge
      BY <2>1, <3>5 DEF Covered
    <3>7. PICK i \in DOMAIN chunks[pos] : chunks[pos][i].y = y \div Edge
      BY <3>6
    <3>8. PICK t : t = chunks[pos]
      OBVIOUS
    <3>9. t \in Seq(SectionSet) /\ Ascending(t)
      BY <2>1, <3>6, <3>8 DEF Shaped
    <3>10. PICK yy : yy = y \div Edge
      OBVIOUS
    <3>11. findSection(t, yy) # <<>>
      BY <3>7, <3>8, <3>9, <3>10, SectionFound
    <3> QED
      BY <3>8, <3>10, <3>11
  <2> QED
    BY <2>1, <2>2 DEF LoadKeepsBlocks
<1> QED
  BY <1>1, WorldHolds, PTL

\* chunkCoord rounds a position down to its chunk, on either side of zero.
LEMMA ChunkCoord ==
    ASSUME NEW v \in Int, NEW p, p = chunkCoord(v)
    PROVE  p \in Int /\ p * Edge * 2 <= v /\ v < (p + 1) * Edge * 2
<1> DEFINE t == Quotient(v, 2)
           block == IF v < 0 /\ 2 * t # v THEN t - 1 ELSE t
<1>1. Edge \in Nat \ {0}
  BY EdgeIs
<1>2. t \in Int /\ (v >= 0 => 2 * t <= v /\ v <= 2 * t + 1)
      /\ (v < 0 => v <= 2 * t /\ 2 * t <= v + 1)
  BY DEF Quotient
<1>3. p = IF block >= 0 THEN block \div Edge ELSE -((Edge - 1 - block) \div Edge)
  BY DEF chunkCoord
<1> HIDE DEF t
<1>4. block \in Int /\ 2 * block <= v /\ v < 2 * block + 2
  BY <1>2
<1> HIDE DEF block
<1>5. p \in Int /\ p * Edge <= block /\ block < (p + 1) * Edge
  <2>1. CASE block >= 0
    <3> DEFINE q == block \div Edge
               r == block % Edge
    <3>1. q \in Int /\ r \in Int /\ 0 <= r /\ r < Edge /\ block = Edge * q + r
      BY <1>1, <1>4, Divides
    <3>2. p = q
      BY <1>3, <2>1
    <3> HIDE DEF q, r
    <3>3. (p + 1) * Edge = Edge * q + Edge /\ p * Edge = Edge * q
      BY <1>1, <3>1, <3>2
    <3> QED
      BY <1>1, <3>1, <3>2, <3>3
  <2>2. CASE block < 0
    <3> DEFINE n == Edge - 1 - block
               q == n \div Edge
               r == n % Edge
    <3>1. n \in Int /\ n = Edge - 1 - block
      BY <1>1, <1>4
    <3> HIDE DEF n
    <3>2. q \in Int /\ r \in Int /\ 0 <= r /\ r < Edge /\ n = Edge * q + r
      BY <1>1, <3>1, Divides
    <3>3. p = -q
      BY <1>3, <1>4, <2>2 DEF n
    <3> HIDE DEF q, r
    <3>4. p * Edge = -(Edge * q) /\ (p + 1) * Edge = Edge - (Edge * q)
      BY <1>1, <3>2, <3>3
    <3>5. Edge * q \in Int
      BY <1>1, <3>2
    <3> QED
      BY <1>1, <1>4, <3>1, <3>2, <3>3, <3>4, <3>5
  <2> QED
    BY <1>4, <2>1, <2>2
<1>6. p * Edge \in Int /\ (p + 1) * Edge \in Int
  BY <1>1, <1>5
<1>7. p * Edge * 2 = 2 * (p * Edge) /\ (p + 1) * Edge * 2 = 2 * ((p + 1) * Edge)
  BY <1>6
<1> QED
  BY <1>4, <1>5, <1>6, <1>7

\* SpawnInChunk: the chunk an adapter looks up and sends is the one that spans the
\* configured spawn, below zero too (chunkCoord of the play adapters).
THEOREM SpawnChunk == Spec => []SpawnInChunk
<1>1. WorldInv => SpawnInChunk
  <2> SUFFICES ASSUME WorldInv, phase = "sent", NEW i \in 1..2
               PROVE  /\ sent.pos[i] * Edge * 2 <= sent.spawn[i]
                      /\ sent.spawn[i] < (sent.pos[i] + 1) * Edge * 2
    BY DEF SpawnInChunk
  <2>1. sent.spawn \in Spawns
        /\ sent.pos = <<chunkCoord(sent.spawn[1]), chunkCoord(sent.spawn[2])>>
    BY DEF WorldInv, SentFromSpawn
  <2>2. sent.spawn \in Int \X Int
    BY <2>1, WorldAssumption
  <2>3. PICK v \in Int : v = sent.spawn[i]
    BY <2>2
  <2>4. sent.pos[i] = chunkCoord(v)
    BY <2>1, <2>3
  <2>5. PICK p : p = chunkCoord(v)
    OBVIOUS
  <2>6. p * Edge * 2 <= v /\ v < (p + 1) * Edge * 2
    BY <2>5, ChunkCoord
  <2> QED
    BY <2>3, <2>4, <2>5, <2>6
<1> QED
  BY <1>1, WorldHolds, PTL

\* The height a dimension gets from a schematic is in whole sections, and no less.
LEMMA Fitted ==
    ASSUME NEW h \in Nat \ {0}
    PROVE  \E count \in Nat \ {0} :
               normalizeDimensionHeight(h) = Edge * count /\ h <= Edge * count
<1> DEFINE q == h \div Edge
           r == h % Edge
<1>1. Edge \in Nat \ {0}
  BY EdgeIs
<1>2. q \in Nat /\ r \in Nat /\ r < Edge /\ h = Edge * q + r
  BY <1>1, Divides
<1>3. normalizeDimensionHeight(h) = IF r = 0 THEN h ELSE h + (Edge - r)
  BY DEF normalizeDimensionHeight
<1> HIDE DEF q, r
<1>4. CASE r = 0
  <2>1. q # 0
    BY <1>1, <1>2, <1>4
  <2>2. normalizeDimensionHeight(h) = Edge * q /\ h <= Edge * q
    BY <1>1, <1>2, <1>3, <1>4
  <2> QED
    BY <1>2, <2>1, <2>2
<1>5. CASE r # 0
  <2>1. Edge * (q + 1) = Edge * q + Edge /\ Edge * q \in Nat
    BY <1>1, <1>2
  <2>2. normalizeDimensionHeight(h) = Edge * (q + 1) /\ h <= Edge * (q + 1)
    BY <1>1, <1>2, <1>3, <1>5, <2>1
  <2> QED
    BY <1>2, <2>2
<1> QED
  BY <1>4, <1>5

\* WholeSchematicSent: the dimension made for a schematic is as high as the
\* highest section it was cut into (defaultDimension, normalizeDimensionHeight and
\* the section count of encodeChunkDataModern).
THEOREM WholeSchematic == Spec => []WholeSchematicSent
<1>1. WorldInv => WholeSchematicSent
  <2> SUFFICES ASSUME WorldInv, phase = "sent", sent.family = "modern", ~opts.named,
                      sent.told = Dimension,
                      NEW i \in DOMAIN chunks[sent.pos]
               PROVE  Place(chunks[sent.pos][i].y) # 0
    BY DEF WholeSchematicSent
  <2>1. size \in Sizes /\ Progress /\ Shaped /\ SentFromSpawn
    BY DEF WorldInv
  <2>2. Height \in Nat \ {0} /\ Edge \in Nat \ {0}
    BY <2>1, SomeBlock, EdgeIs DEF Progress
  <2>3. PICK count \in Nat \ {0} :
            normalizeDimensionHeight(Height) = Edge * count /\ Height <= Edge * count
    BY <2>2, Fitted
  <2>4. Dimension.minY = 0 /\ Dimension.height = Edge * count
    BY <2>3 DEF Dimension
  <2>5. 0 \div Edge = 0 /\ (Edge * count) \div Edge = count
    <3>1. \A q \in Int : (Edge * q + 0) \div Edge = q
      BY <2>2, Quotients
    <3>2. Edge * 0 + 0 = 0 /\ Edge * count + 0 = Edge * count
      BY <2>2
    <3> QED
      BY <3>1, <3>2
  <2>6. DOMAIN DimensionSections = 1..count
    <3>1. Quotient(Dimension.height, Edge) = count
      <4>1. Edge * count >= 0
        BY <2>2
      <4> QED
        BY <2>4, <2>5, <4>1 DEF Quotient
    <3>2. (IF count <= 0 THEN Sections ELSE count) = count
      OBVIOUS
    <3> QED
      BY <3>1, <3>2 DEF DimensionSections
  <2>7. DOMAIN sent.packet.data = 1..count /\ sent.pos \in DOMAIN chunks
    BY <2>1, <2>6 DEF SentFromSpawn, PacketIsChunk
  <2>8. PICK y \in 0..(Height - 1) : chunks[sent.pos][i].y = y \div Edge
    BY <2>1, <2>7 DEF Shaped
  <2>9. PICK sy : sy = y \div Edge
    OBVIOUS
  <2>10. sy \in Nat /\ sy < count
    <3>1. y \in Nat /\ y < Edge * count
      BY <2>2, <2>3, <2>8
    <3> QED
      BY <2>2, <2>9, <3>1, Divides, Below
  <2>11. Place(sy) = sy + 1
    <3>1. sy - (sent.told.minY \div Edge) + 1 = sy + 1
      BY <2>4, <2>5, <2>10
    <3>2. sy + 1 \in Read
      <4>1. sent.told.height \div Edge = count
        BY <2>4, <2>5
      <4> QED
        BY <2>7, <2>10, <4>1 DEF Read
    <3> QED
      BY <3>1, <3>2 DEF Place
  <2> QED
    BY <2>8, <2>9, <2>10, <2>11
<1> QED
  BY <1>1, WorldHolds, PTL

\* Every section that was sent is where a client looks for it.
LEMMA InItsPlace ==
    ASSUME WorldInv, phase = "sent", ToldAsSent, NEW y \in SentSections
    PROVE  /\ Place(y) # 0
           /\ sent.packet.data[Place(y)]
                  = WriteSection(sent.family, findSection(chunks[sent.pos], y))
<1> DEFINE data == sent.packet.data
           mask == sent.packet.mask
           Written(n) == WriteSection(sent.family, findSection(chunks[sent.pos], n))
<1>1. opts \in Options /\ sent.family \in Families /\ PacketIsChunk
  BY DEF WorldInv, SentFromSpawn
<1>2. CASE sent.family = "modern"
  <2>1. DOMAIN data = DOMAIN DimensionSections
        /\ \A k \in DOMAIN data : data[k] = Written(DimensionSections[k])
    BY <1>1, <1>2 DEF PacketIsChunk
  <2>2. PICK m : m = Dimension.minY /\ m = sent.told.minY
    BY <1>2 DEF ToldAsSent
  <2>3. m \in Int /\ m % Edge = 0 /\ Edge \in Nat \ {0}
    <3>1. m % Edge = 0
      BY <1>2, <2>2 DEF ToldAsSent
    <3>2. m \in Int
      <4>1. opts.minY \in Int
        BY <1>1, WorldAssumption
      <4>2. m = 0 \/ m = opts.minY
        BY <2>2 DEF Dimension
      <4> QED
        BY <4>1, <4>2
    <3> QED
      BY <3>1, <3>2, EdgeIs
  <2>4. PICK e \in Nat \ {0} : e = Edge
    BY <2>3
  <2>5. PICK q \in Int : q = m \div Edge /\ m = e * q
    <3>1. m \div e \in Int /\ m = e * (m \div e) + (m % e)
      BY <2>3, Divides
    <3>2. m % e = 0
      BY <2>3, <2>4
    <3>3. m = e * (m \div e)
      BY <2>3, <3>1, <3>2
    <3> QED
      BY <2>4, <3>1, <3>3
  <2>6. Quotient(m, Edge) = q
    <3>1. CASE m >= 0
      BY <2>5, <3>1 DEF Quotient
    <3>2. CASE m < 0
      <4>1. -m = e * (-q) + 0 /\ -q \in Int
        BY <2>3, <2>5
      <4>2. (e * (-q) + 0) \div e = -q
        BY <4>1, Quotients
      <4>3. (-m) \div Edge = -q
        BY <2>4, <4>1, <4>2
      <4>4. Quotient(m, Edge) = -((-m) \div Edge)
        BY <2>3, <3>2 DEF Quotient
      <4> QED
        BY <4>3, <4>4
    <3> QED
      BY <2>3, <3>1, <3>2
  <2>7. PICK k \in Read : y = q + k - 1 /\ k \in DOMAIN data
    BY <1>2, <2>2, <2>5 DEF SentSections, Read
  <2>8. k \in Int /\ DimensionSections[k] = q + k - 1
    <3>1. PICK n : n = IF Quotient(Dimension.height, Edge) <= 0 THEN Sections
                       ELSE Quotient(Dimension.height, Edge)
      OBVIOUS
    <3>2. DimensionSections = [i \in 1..n |-> q + i - 1]
      BY <2>2, <2>6, <3>1 DEF DimensionSections
    <3>3. k \in 1..n
      BY <2>1, <2>7, <3>2
    <3> QED
      BY <3>2, <3>3
  <2>9. Place(y) = k
    <3>1. y - (sent.told.minY \div Edge) + 1 = k
      <4>1. y - q + 1 = k
        BY <2>7, <2>8
      <4>2. sent.told.minY \div Edge = q
        BY <2>2, <2>5, Zenon
      <4> QED
        BY <4>1, <4>2
    <3> QED
      BY <1>2, <2>7, <3>1 DEF Place
  <2>10. k # 0
    BY <2>1, <2>7 DEF DimensionSections
  <2> QED
    BY <2>1, <2>7, <2>8, <2>9, <2>10
<1>3. CASE sent.family # "modern"
  <2>1. y \in mask /\ mask \in SUBSET (0..(Sections - 1))
    <3>1. mask = SectionMask(chunks[sent.pos])
      BY <1>1 DEF PacketIsChunk
    <3> QED
      BY <1>3, <3>1 DEF SentSections, SectionMask
  <2>2. Place(y) = Cardinality({m \in mask : m <= y})
    BY <1>3, <2>1 DEF Place
  <2>3. data[Cardinality({m \in mask : m <= y})] = Written(y)
    BY <1>1, <1>3, <2>1 DEF PacketIsChunk
  <2>4. Cardinality({m \in mask : m <= y}) # 0
    <3>1. y \in Nat
      BY <2>1, WorldAssumption
    <3>2. PICK set1 : set1 = mask
      OBVIOUS
    <3>3. BelowIn(set1, y) \in Nat /\ Cardinality({m \in set1 : m <= y}) = BelowIn(set1, y) + 1
      <4>1. set1 \in SUBSET (0..(Sections - 1)) /\ y \in set1
        BY <2>1, <3>2
      <4>2. /\ BelowIn(set1, y) \in Nat
            /\ Cardinality({m \in set1 : m <= y}) = BelowIn(set1, y + 1)
            /\ BelowIn(set1, y + 1) = BelowIn(set1, y) + 1
        BY <3>1, <4>1, MaskCounted, Zenon
      <4> QED
        BY <4>2
    <3> QED
      BY <3>2, <3>3
  <2> QED
    BY <2>2, <2>3, <2>4
<1> QED
  BY <1>2, <1>3

\* ClientSeesWorld: what a client of any version unpacks for a cell is the state
\* of the block the loader put there, whatever the sizes and the number of bits,
\* as long as the section's states fit its bits and the dimension the client was
\* told begins where the sections sent do (buildLocalPalette, the packing of
\* palette indices and the section masks of the play adapters).
THEOREM ClientSees == Spec => []ClientSeesWorld
<1>1. WorldInv => ClientSeesWorld
  <2> SUFFICES ASSUME WorldInv, phase = "sent", ToldAsSent, NEW y \in SentSections,
                      Fits(sent.family, chunks[sent.pos], y), NEW c \in Cells,
                      NEW blocks, blocks = findSection(chunks[sent.pos], y)
               PROVE  Seen(y, c) = IF blocks = <<>> THEN 0 ELSE blockStateForProtocol(blocks[c])
    BY DEF ClientSeesWorld, Translated
  <2>1. c \in Nat /\ c + 1 \in 1..Volume /\ (c + 1) - 1 = c
    BY EdgeIs DEF Cells
  <2>2. PICK states : states = SectionStates(blocks)
    OBVIOUS
  <2>3. states[c + 1] = IF blocks = <<>> THEN 0 ELSE blockStateForProtocol(blocks[c])
    BY <2>1, <2>2 DEF SectionStates
  <2>4. PICK data : data = sent.packet.data[Place(y)]
    OBVIOUS
  <2>5. Place(y) # 0 /\ data = WriteSection(sent.family, blocks)
    BY <2>4, InItsPlace
  <2>6. CASE sent.family = "47"
    <3>1. data = states
      BY <2>2, <2>5, <2>6 DEF WriteSection
    <3>2. Seen(y, c) = data[c + 1]
      BY <2>4, <2>5, <2>6 DEF Seen
    <3> QED
      BY <2>3, <3>1, <3>2
  <2>7. CASE sent.family # "47"
    <3>1. PICK local, longs :
              local = buildLocalPalette(states) /\ longs = packSectionPaletteIndices(states, local)
      OBVIOUS
    <3>2. data = [palette |-> local, longs |-> longs]
      BY <2>2, <2>5, <2>7, <3>1 DEF WriteSection
    <3>3. data.palette = local /\ data.longs = longs
      BY <3>2
    <3>4. Seen(y, c) = UnpackedState(local, longs, c)
      BY <2>4, <2>5, <2>7, <3>3 DEF Seen, UnpackedState
    <3>5. Len(local) <= Shifted[Bits]
      BY <2>2, <2>7, <3>1 DEF Fits
    <3>6. UnpackedState(local, longs, c) = states[c + 1]
      BY <3>1, <3>5, SectionSeen
    <3> QED
      BY <2>3, <3>4, <3>6
  <2> QED
    BY <2>6, <2>7
<1> QED
  BY <1>1, WorldHolds, PTL

-----------------------------------------------------------------------------
(***************************************************************************)
(* Types, and that every ID of a section is in the palette.                *)
(***************************************************************************)

\* What is read is a number or the error.
LEMMA ReadIs == \A bytes \in Seq(Byte) : readSchematicVarInt(bytes) \in Nat \cup {-1}
<1> SUFFICES ASSUME NEW bytes \in Seq(Byte), NumberEnd(bytes) # 0
             PROVE  Unsigned(Groups(bytes, NumberEnd(bytes))) \in Nat
  BY DEF readSchematicVarInt
<1> DEFINE ends == {i \in DOMAIN bytes : bytes[i] < More /\ i <= MaxVarIntBytes}
           n == NumberEnd(bytes)
<1>1. n = IF ends = {} THEN 0 ELSE CHOOSE i \in ends : \A j \in ends : i <= j
  BY DEF NumberEnd
<1>2. ends # {} /\ ends \in SUBSET Nat /\ \A i \in ends : i <= Len(bytes)
  BY <1>1
<1> HIDE DEF ends, n
<1>3. \E i \in ends : \A j \in ends : i <= j
  BY <1>2, Least
<1>4. n \in Nat /\ n <= Len(bytes)
  BY <1>1, <1>2, <1>3
<1>5. PICK sum : GroupTurns(sum, bytes, n) /\ Groups(bytes, n) = sum[n]
  BY <1>4, GroupsIs
<1>6. Groups(bytes, n) \in Nat
  BY <1>4, <1>5 DEF GroupTurns
<1>7. PICK m \in Nat, w \in Nat \ {0} : m = Groups(bytes, n) /\ w = Word
  BY <1>6, WidthsAre
<1>8. m % w \in Nat
  BY Divides
<1> QED
  BY <1>7, <1>8 DEF Unsigned, n

LEMMA InitialIndexed == Init => Indexed
BY DEF Init, Indexed

LEMMA IndexedStep == WorldInv /\ Indexed /\ [Next]_vars => Indexed'
<1> SUFFICES ASSUME WorldInv, Indexed, [Next]_vars PROVE Indexed'
  OBVIOUS
<1>1. size \in Sizes /\ Progress /\ set \in Nat
  BY DEF WorldInv, Progress
<1>2. /\ ids \in Seq(Nat)
      /\ phase \in {"data", "blocks", "loaded", "sent"} \/ DOMAIN chunks # {} =>
             \E top \in DOMAIN palette : top \in Nat /\ DOMAIN palette = 0..top
      /\ phase = "blocks" => Len(ids) = Expected
      /\ \A k \in 1..set : ids[k] \in DOMAIN palette
  BY DEF Indexed
<1>3. CASE DecodePalette
  <2>1. /\ UNCHANGED <<ids, set, chunks>> /\ phase = "palette"
        /\ \/ palette' \in decodePalette(input) /\ phase' = "data"
           \/ phase' = "error"
    BY <1>3 DEF DecodePalette, given
  <2>2. set = 0 /\ DOMAIN chunks = {}
    BY <1>1, <2>1 DEF Progress
  <2>3. CASE palette' \in decodePalette(input) /\ phase' = "data"
    <3> DEFINE used == {input[n] : n \in DOMAIN input}
    <3>1. palette' \in UNION {[0..top -> DOMAIN input] : top \in used} /\ used = DOMAIN palette'
      BY <2>3 DEF decodePalette
    <3> HIDE DEF used
    <3>2. PICK top \in used : palette' \in [0..top -> DOMAIN input]
      BY <3>1
    <3>3. DOMAIN palette' = 0..top /\ top \in DOMAIN palette'
      BY <3>1, <3>2
    <3>4. top \in Nat
      BY <3>3
    <3> QED
      BY <1>2, <2>1, <2>2, <2>3, <3>3, <3>4 DEF Indexed
  <2>4. CASE phase' = "error"
    BY <1>2, <2>1, <2>2, <2>4 DEF Indexed
  <2> QED
    BY <2>1, <2>3, <2>4
<1>4. CASE ReadID
  <2>1. PICK bytes \in VarInts :
            LET id == readSchematicVarInt(bytes)
            IN  IF id = -1 THEN phase' = "error" /\ UNCHANGED ids
                ELSE ids' = Append(ids, id) /\ UNCHANGED phase
    BY <1>4 DEF ReadID
  <2>2. UNCHANGED <<palette, set, chunks>> /\ phase = "data"
    BY <1>4 DEF ReadID, given
  <2>3. set = 0
    BY <1>1, <2>2 DEF Progress
  <2>4. bytes \in Seq(Byte)
    BY WorldAssumption
  <2>5. PICK id : id = readSchematicVarInt(bytes)
    OBVIOUS
  <2>6. id \in Nat \cup {-1}
    BY <2>4, <2>5, ReadIs
  <2>7. ids' \in Seq(Nat) /\ phase' \in {"data", "error"}
    BY <1>2, <2>1, <2>2, <2>5, <2>6
  <2> QED
    BY <1>2, <2>2, <2>3, <2>7 DEF Indexed
<1>5. CASE EndData
  <2>1. /\ UNCHANGED <<size, palette, ids, set, chunks>> /\ phase = "data"
        /\ phase' = IF Len(ids) = Expected THEN "blocks" ELSE "error"
    BY <1>5 DEF EndData, given
  <2>2. Expected' = Expected
    BY <2>1 DEF Expected, Width, Height, Length
  <2> QED
    BY <1>2, <2>1, <2>2 DEF Indexed
<1>6. CASE SetBlock
  <2>1. PICK x, y, z :
            /\ x = set % Width /\ z = (set \div Width) % Length
            /\ y = set \div (Width * Length)
    OBVIOUS
  <2>2. PICK id : id = ids[blockIndex(x, y, z) + 1]
    OBVIOUS
  <2>3. /\ UNCHANGED <<size, palette, ids>> /\ phase = "blocks" /\ set < Expected
        /\ IF OutsidePalette(id) THEN phase' = "error" /\ UNCHANGED <<set, chunks>>
           ELSE /\ set' = set + 1
                /\ phase' = IF set' = Expected THEN "loaded" ELSE phase
    BY <1>6, <2>1, <2>2 DEF SetBlock, given
  <2>4. Expected' = Expected
    BY <2>3 DEF Expected, Width, Height, Length
  <2>5. CASE OutsidePalette(id)
    BY <1>2, <2>3, <2>5 DEF Indexed
  <2>6. CASE ~OutsidePalette(id)
    <3>1. \A k \in 1..3 : size[k] > 0
      BY <1>1, <2>3 DEF Progress
    <3>2. Width > 0 /\ Height > 0 /\ Length > 0 /\ Expected \in Nat
      BY <1>1, <3>1, SomeBlock
    <3>3. blockIndex(x, y, z) = set
      BY <1>1, <2>1, <2>3, <3>2, Turn
    <3>4. set + 1 \in 1..Len(ids)
      BY <1>1, <1>2, <2>3, <3>2
    <3>5. id = ids[set + 1] /\ id \in Nat
      BY <1>2, <2>2, <3>3, <3>4
    <3>6. PICK top \in Nat : DOMAIN palette = 0..top
      BY <1>2, <2>3
    <3>7. Cardinality(0..top) = top + 1
      BY FS_Interval
    <3>8. id \in DOMAIN palette
      BY <2>6, <3>5, <3>6, <3>7 DEF OutsidePalette
    <3>9. set' = set + 1 /\ phase' \in {"loaded", "blocks"}
      BY <2>3, <2>6
    <3>10. \A k \in 1..set' : ids'[k] \in DOMAIN palette'
      BY <1>1, <1>2, <2>3, <3>5, <3>8, <3>9
    <3> QED
      BY <1>2, <2>3, <2>4, <3>9, <3>10 DEF Indexed
  <2> QED
    BY <2>5, <2>6
<1>7. ASSUME NEW family \in Families, NEW spawn \in Spawns, SendSpawnChunk(family, spawn)
      PROVE  Indexed'
  <2>1. /\ UNCHANGED <<palette, ids, set, chunks>> /\ phase = "loaded"
        /\ phase' \in {"sent", "error"}
    BY <1>7 DEF SendSpawnChunk, given
  <2> QED
    BY <1>2, <2>1 DEF Indexed
<1>8. CASE UNCHANGED vars
  <2>1. UNCHANGED <<size, phase, palette, ids, set, chunks>>
    BY <1>8 DEF vars
  <2>2. Expected' = Expected
    BY <2>1 DEF Expected, Width, Height, Length
  <2> QED
    BY <1>2, <2>1, <2>2 DEF Indexed
<1> QED
  BY <1>3, <1>4, <1>5, <1>6, <1>7, <1>8 DEF Next, Terminated

\* What a cell should hold is in the palette.
LEMMA WantedIndexed ==
    ASSUME WorldInv, Indexed, NEW pos \in DOMAIN chunks, NEW y \in Nat, NEW c \in Cells
    PROVE  Wanted(pos, y, c) \in DOMAIN palette
<1>1. size \in Sizes /\ pos \in Nat \X Nat /\ set \in Nat
  BY DEF WorldInv, Shaped, Progress
<1>2. PICK top \in Nat : DOMAIN palette = 0..top
  BY DEF Indexed
<1>3. PICK p, q \in Nat : pos[1] = p /\ pos[2] = q
  BY <1>1
<1>4. PICK i, j, k \in Nat : i = c % Edge /\ j = c \div (Edge * Edge) /\ k = (c \div Edge) % Edge
  BY CellIs
<1>5. PICK e \in Nat : e = Edge
  BY EdgeIs
<1>6. PICK x, h, z \in Nat : x = p * e + i /\ h = y * e + j /\ z = q * e + k
  <2>1. p * e + i \in Nat /\ y * e + j \in Nat /\ q * e + k \in Nat
    OBVIOUS
  <2> QED
    BY <2>1
<1>7. Wanted(pos, y, c) = Given(x, h, z)
  BY <1>3, <1>4, <1>5, <1>6 DEF Wanted
<1>8. CASE InSchematic(x, h, z)
  <2>1. x < Width /\ z < Length /\ blockIndex(x, h, z) < set
    BY <1>8 DEF InSchematic
  <2>2. PICK w, l \in Nat \ {0} : w = Width /\ l = Length
    <3>1. Width \in Int /\ Length \in Int
      BY <1>1, SizeIs
    <3> QED
      BY <2>1, <3>1
  <2>3. (h * l + z) * w + x \in Nat
    BY <2>1, <2>2, InLayer
  <2>4. PICK b \in Nat : b = blockIndex(x, h, z)
    BY <2>2, <2>3 DEF blockIndex
  <2>5. b + 1 \in 1..set
    BY <1>1, <2>1, <2>4
  <2>6. ids[b + 1] \in DOMAIN palette
    BY <2>5 DEF Indexed
  <2> QED
    BY <1>7, <1>8, <2>4, <2>6 DEF Given
<1>9. CASE ~InSchematic(x, h, z)
  BY <1>2, <1>7, <1>9 DEF Given
<1> QED
  BY <1>8, <1>9

\* TypeOK: whatever the input, every ID in a section is one the palette has, so
\* that the adapters look none up outside it (the range check of buildWorld).
THEOREM TypeCorrect == Spec => []TypeOK
<1>1. WorldInv /\ Indexed => TypeOK
  <2> SUFFICES ASSUME WorldInv, Indexed PROVE TypeOK
    OBVIOUS
  <2>1. size \in Sizes /\ Progress /\ Shaped /\ Kept
    BY DEF WorldInv
  <2>2. phase \in {"palette", "data", "blocks", "loaded", "sent", "error"} /\ ids \in Seq(Nat)
    BY <2>1 DEF Progress, Indexed
  <2>3. set \in Nat /\ (phase \notin {"palette", "error"} => set <= Expected)
    <3>1. set \in Nat
      BY <2>1 DEF Progress
    <3>2. ASSUME phase \notin {"palette", "error"} PROVE set <= Expected
      <4>1. Expected \in Nat /\ 0 < Expected
        BY <2>1, <3>2, SomeBlock DEF Progress
      <4> QED
        BY <2>1, <3>2, <4>1 DEF Progress
    <3> QED
      BY <3>1, <3>2
  <2>4. ASSUME NEW pos \in DOMAIN chunks, NEW i \in DOMAIN chunks[pos]
        PROVE  /\ chunks[pos][i].y \in Nat
               /\ chunks[pos][i].blocks \in [Cells -> DOMAIN palette]
    <3>1. chunks[pos][i].y \in Nat /\ chunks[pos][i].blocks \in [Cells -> Values]
      BY <2>1, OfSections DEF Shaped
    <3>2. ASSUME NEW c \in Cells PROVE chunks[pos][i].blocks[c] \in DOMAIN palette
      <4>1. chunks[pos][i].blocks[c] = Wanted(pos, chunks[pos][i].y, c)
        BY <2>1 DEF Kept
      <4> QED
        BY <3>1, <4>1, WantedIndexed
    <3> QED
      BY <3>1, <3>2
  <2> QED
    BY <2>2, <2>3, <2>4 DEF TypeOK
<1>2. Spec => [](WorldInv /\ Indexed)
  BY InitialIndexed, IndexedStep, InitialWorld, WorldStep, PTL DEF Spec
<1> QED
  BY <1>1, <1>2, PTL

================================================================================
