------------------------- MODULE HowdyConfigProofs -------------------------
(***************************************************************************)
(* Proofs about HowdyConfig: what binding a camera makes of a config.ini of *)
(* any length, and what follows for the daemon that reads it meanwhile.     *)
(***************************************************************************)
EXTENDS HowdyConfig, FiniteSetTheorems, WellFoundedInduction, TLAPS

-----------------------------------------------------------------------------
(* Texts: the first line with a property.                                   *)

LEMMA FirstOf ==
  ASSUME NEW S \in SUBSET Nat, S # {}
  PROVE  \E i \in S : \A j \in S : i <= j
PROOF
  <1> DEFINE R == {ss \in Nat \X Nat : ss[1] < ss[2]}
  <1>1. IsWellFoundedOn(R, Nat)
    BY Zenon, NatLessThanWellFounded DEF OpToRel
  <1>2. PICK i \in S : \A j \in S : ~(<<j, i>> \in R)
    BY <1>1, WFMin
  <1>3. \A j \in S : j < i => <<j, i>> \in R
    OBVIOUS
  <1>4. \A j \in S : ~(j < i)
    BY Zenon, <1>2, <1>3
  <1> HIDE DEF R
  <1>5. \A j \in S : i <= j
    BY <1>4
  <1> QED  BY <1>5

\* parse_video_device_path on a text whose first value is known.
LEMMA FirstPathCounts ==
  ASSUME NEW t \in Seq(Lines), NEW d,
         \E i \in DOMAIN t :
           /\ InVideo(t, i) /\ t[i] = Path(d)
           /\ \A j \in 1..(i - 1) : ~(InVideo(t, j) /\ t[j].kind = "path")
  PROVE  Configured(t) = d
PROOF
  <1> DEFINE C == {i \in DOMAIN t : InVideo(t, i) /\ t[i].kind = "path"}
  <1>1. PICK i \in DOMAIN t :
           /\ InVideo(t, i) /\ t[i] = Path(d)
           /\ \A j \in 1..(i - 1) : ~(InVideo(t, j) /\ t[j].kind = "path")
    OBVIOUS
  <1>2. i \in C /\ t[i].device = d
    BY <1>1 DEF Path
  <1>3. \A j \in C : i <= j
    BY <1>1
  <1>4. \A k \in C : (\A j \in C : k <= j) => k = i
    BY <1>2, <1>3
  <1>5. (CHOOSE k \in C : \A j \in C : k <= j) = i
    BY <1>2, <1>3, <1>4
  <1> QED  BY <1>2, <1>5 DEF Configured

\* ... and one where all values are the same.
LEMMA OnlyPathCounts ==
  ASSUME NEW t \in Seq(Lines), NEW d,
         \E i \in DOMAIN t : InVideo(t, i) /\ t[i].kind = "path",
         \A i \in DOMAIN t : InVideo(t, i) /\ t[i].kind = "path" => t[i] = Path(d)
  PROVE  Configured(t) = d
PROOF
  <1> DEFINE C == {i \in DOMAIN t : InVideo(t, i) /\ t[i].kind = "path"}
  <1>1. C \in SUBSET Nat /\ C # {}
    OBVIOUS
  <1>2. PICK i \in C : \A j \in C : i <= j
    BY <1>1, FirstOf
  <1>3. \A j \in 1..(i - 1) : ~(InVideo(t, j) /\ t[j].kind = "path")
    BY <1>2
  <1>4. InVideo(t, i) /\ t[i] = Path(d) /\ i \in DOMAIN t
    BY <1>2
  <1> QED  BY <1>3, <1>4, FirstPathCounts

-----------------------------------------------------------------------------
(* What bind_camera writes.                                                 *)

Set(t, d) == [i \in DOMAIN t |-> IF Settable(t, i) THEN Path(d) ELSE t[i]]

\* Setting the values leaves the sections where they are.
LEMMA SetKeepsSections ==
  ASSUME NEW t \in Seq(Lines), NEW d \in Devices
  PROVE  /\ Set(t, d) \in Seq(Lines) /\ Len(Set(t, d)) = Len(t)
         /\ DOMAIN Set(t, d) = DOMAIN t
         /\ \A i \in DOMAIN t : /\ Header(Set(t, d)[i]) <=> Header(t[i])
                                /\ Set(t, d)[i].kind = "video" <=> t[i].kind = "video"
         /\ \A i \in 1..(Len(t) + 1) : InVideo(Set(t, d), i) <=> InVideo(t, i)
PROOF
  <1> DEFINE u == Set(t, d)
  <1>1. Path(d) \in Lines /\ Path(d).kind = "path" /\ ~Header(Path(d))
    BY DEF Lines, Path, Header
  <1>2. u \in Seq(Lines) /\ Len(u) = Len(t) /\ DOMAIN u = DOMAIN t
    BY <1>1 DEF Set
  <1>3. \A i \in DOMAIN t : /\ Header(u[i]) <=> Header(t[i])
                            /\ u[i].kind = "video" <=> t[i].kind = "video"
    BY <1>1 DEF Set, Settable, Header
  <1>4. \A i \in 1..(Len(t) + 1) : InVideo(u, i) <=> InVideo(t, i)
    <2> HIDE DEF u
    <2> QED  BY SMTT(30), <1>2, <1>3 DEF InVideo
  <1> QED  BY <1>2, <1>3, <1>4

\* The end of the first [video] section.
FirstVideo(t, v) == t[v].kind = "video" /\ \A j \in 1..(v - 1) : t[j].kind # "video"

LEMMA EndOfSection ==
  ASSUME NEW t \in Seq(Lines), HasVideo(t)
  PROVE  /\ SectionEnd(t) \in 2..(Len(t) + 1)
         /\ InVideo(t, SectionEnd(t))
         /\ SectionEnd(t) <= Len(t) => Header(t[SectionEnd(t)])
         /\ \E v \in 1..(SectionEnd(t) - 1) :
              /\ FirstVideo(t, v)
              /\ \A j \in (v + 1)..(SectionEnd(t) - 1) : ~Header(t[j])
PROOF
  <1> DEFINE V == {i \in DOMAIN t : t[i].kind = "video"}
  <1>1. PICK w \in V : \A j \in V : w <= j
    <2>1. V \in SUBSET Nat /\ V # {}
      BY DEF HasVideo
    <2> QED  BY <2>1, FirstOf
  <1> DEFINE First(i) == t[i].kind = "video" /\ \A j \in 1..(i - 1) : t[j].kind # "video"
             v == CHOOSE i \in DOMAIN t : First(i)
  <1>2. w \in DOMAIN t /\ First(w)
    BY <1>1
  <1>3. v \in DOMAIN t /\ First(v)
    BY <1>2
  <1> HIDE DEF First, v
  <1> DEFINE H == {i \in (v + 1)..(Len(t) + 1) : i <= Len(t) => Header(t[i])}
             Ends(e) == /\ e <= Len(t) => Header(t[e])
                        /\ \A j \in (v + 1)..(e - 1) : ~Header(t[j])
             e == CHOOSE k \in (v + 1)..(Len(t) + 1) : Ends(k)
  <1>4. v \in 1..Len(t)
    BY <1>3
  <1>5. H \in SUBSET Nat /\ Len(t) + 1 \in H
    BY <1>4
  <1>6. PICK h \in H : \A j \in H : h <= j
    BY <1>5, FirstOf
  <1>7. h \in (v + 1)..(Len(t) + 1) /\ Ends(h)
    BY <1>4, <1>6
  <1>8. e \in (v + 1)..(Len(t) + 1) /\ Ends(e)
    BY <1>7
  <1>9. SectionEnd(t) = e
    BY DEF SectionEnd, v, First
  <1>10. InVideo(t, e)
    <2>1. v \in 1..(e - 1) /\ t[v].kind = "video"
      BY <1>3, <1>4, <1>8 DEF First
    <2>2. \A j \in (v + 1)..(e - 1) : ~Header(t[j])
      BY <1>8
    <2> HIDE DEF e
    <2> QED  BY <2>1, <2>2 DEF InVideo
  <1>11. FirstVideo(t, v)
    BY <1>3 DEF First, FirstVideo
  <1>12. v \in 1..(e - 1) /\ \A j \in (v + 1)..(e - 1) : ~Header(t[j])
    BY SMTT(30), <1>4, <1>8
  <1> HIDE DEF e
  <1> QED  BY <1>4, <1>8, <1>9, <1>10, <1>11, <1>12
\* The first [video] section has a value or a place for one.
HasPlace(t) == \E i \in 1..(SectionEnd(t) - 1) : Settable(t, i)

\* What is written where there is a place, ...
LEMMA BoundInPlace ==
  ASSUME NEW t \in Seq(Lines), HasVideo(t), NEW d \in Devices, HasPlace(t)
  PROVE  /\ Bound(t, d) \in Seq(Lines) /\ Len(Bound(t, d)) = Len(t)
         /\ Configured(Bound(t, d)) = d
         /\ HasVideo(Bound(t, d)) /\ HasPlace(Bound(t, d))
PROOF
  <1> DEFINE u == Set(t, d)
             e == SectionEnd(t)
  <1>1. Bound(t, d) = u
    BY DEF Bound, HasPlace, Set
  <1>2. /\ u \in Seq(Lines) /\ Len(u) = Len(t) /\ DOMAIN u = DOMAIN t
        /\ \A i \in DOMAIN t : /\ Header(u[i]) <=> Header(t[i])
                               /\ u[i].kind = "video" <=> t[i].kind = "video"
        /\ \A i \in 1..(Len(t) + 1) : InVideo(u, i) <=> InVideo(t, i)
    BY SetKeepsSections
  <1>3. /\ e \in 2..(Len(t) + 1)
        /\ e <= Len(t) => Header(t[e])
        /\ \E v \in 1..(e - 1) : /\ FirstVideo(t, v)
                                 /\ \A j \in (v + 1)..(e - 1) : ~Header(t[j])
    BY EndOfSection
  <1>4. PICK p \in 1..(e - 1) : Settable(t, p)
    BY DEF HasPlace
  <1>5. \A i \in DOMAIN t : Settable(t, i) => u[i] = Path(d) /\ InVideo(u, i)
    BY <1>2 DEF Set, Settable
  <1>6. \A i \in DOMAIN t : InVideo(u, i) /\ u[i].kind = "path" => u[i] = Path(d)
    BY <1>2 DEF Set, Settable
  <1> HIDE DEF u, e
  <1>7. p \in DOMAIN u /\ InVideo(u, p) /\ u[p].kind = "path"
    BY <1>2, <1>3, <1>4, <1>5 DEF Path
  <1>8. Configured(u) = d
    BY <1>2, <1>6, <1>7, OnlyPathCounts
  <1>9. HasVideo(u)
    BY <1>2 DEF HasVideo
  <1>10. SectionEnd(u) = e
    <2>1. /\ SectionEnd(u) \in 2..(Len(u) + 1)
          /\ SectionEnd(u) <= Len(u) => Header(u[SectionEnd(u)])
          /\ \E v \in 1..(SectionEnd(u) - 1) :
               /\ FirstVideo(u, v) /\ \A j \in (v + 1)..(SectionEnd(u) - 1) : ~Header(u[j])
      BY <1>2, <1>9, EndOfSection
    <2>2. PICK v \in 1..(e - 1) : /\ FirstVideo(t, v)
                                  /\ \A j \in (v + 1)..(e - 1) : ~Header(t[j])
      BY <1>3
    <2>3. PICK w \in 1..(SectionEnd(u) - 1) :
            /\ FirstVideo(u, w) /\ \A j \in (w + 1)..(SectionEnd(u) - 1) : ~Header(u[j])
      BY <2>1
    <2>4. v = w
      <3>1. \A j \in 1..(e - 1) : j \in DOMAIN t
        BY <1>3
      <3>2. \A j \in 1..(e - 1) : u[j].kind = "video" <=> t[j].kind = "video"
        BY <1>2, <3>1
      <3>3. u[v].kind = "video" /\ \A j \in 1..(v - 1) : u[j].kind # "video"
        BY <1>3, <2>2, <3>2 DEF FirstVideo
      <3> QED  BY <1>2, <1>3, <2>1, <2>2, <2>3, <3>3 DEF FirstVideo
    <2> QED  BY <1>2, <1>3, <2>1, <2>2, <2>3, <2>4
  <1>11. HasPlace(u)
    BY <1>4, <1>7, <1>10 DEF HasPlace, Settable
  <1> QED  BY <1>1, <1>2, <1>8, <1>9, <1>11

\* ... and where one is made at the end of the section.
LEMMA BoundAdds ==
  ASSUME NEW t \in Seq(Lines), HasVideo(t), NEW d \in Devices, ~HasPlace(t)
  PROVE  /\ Bound(t, d) \in Seq(Lines) /\ Len(Bound(t, d)) = Len(t) + 1
         /\ Configured(Bound(t, d)) = d
         /\ HasVideo(Bound(t, d)) /\ HasPlace(Bound(t, d))
PROOF
  <1> DEFINE u == Set(t, d)
             e == SectionEnd(t)
             r == SubSeq(u, 1, e - 1) \o <<Path(d)>> \o SubSeq(u, e, Len(t))
  <1>1. Bound(t, d) = r
    BY DEF Bound, HasPlace, Set
  <1>2. /\ u \in Seq(Lines) /\ Len(u) = Len(t) /\ DOMAIN u = DOMAIN t
        /\ \A i \in DOMAIN t : /\ Header(u[i]) <=> Header(t[i])
                               /\ u[i].kind = "video" <=> t[i].kind = "video"
    BY SetKeepsSections
  <1>3. /\ e \in 2..(Len(t) + 1) /\ InVideo(t, e)
        /\ \E v \in 1..(e - 1) : /\ FirstVideo(t, v)
                                 /\ \A j \in (v + 1)..(e - 1) : ~Header(t[j])
    BY EndOfSection
  <1>4. Path(d) \in Lines /\ Path(d).kind = "path" /\ ~Header(Path(d))
    BY DEF Lines, Path, Header
  <1>5. \A i \in 1..(e - 1) : ~(InVideo(t, i) /\ t[i].kind = "path")
    BY DEF HasPlace, Settable
  <1> HIDE DEF u, e
  <1>6. /\ r \in Seq(Lines) /\ Len(r) = Len(t) + 1
        /\ \A i \in 1..(e - 1) : r[i] = u[i]
        /\ r[e] = Path(d)
    BY <1>2, <1>3, <1>4
  <1> HIDE DEF r
  <1>7. \A i \in 1..(e - 1) : /\ i \in DOMAIN t /\ (Header(r[i]) <=> Header(t[i]))
                              /\ r[i].kind = "video" <=> t[i].kind = "video"
    BY <1>2, <1>3, <1>6
  <1>8. \A i \in 1..e : InVideo(r, i) <=> InVideo(t, i)
    BY <1>3, <1>7 DEF InVideo
  <1>9. \A i \in 1..(e - 1) : r[i] = t[i]
    <2>1. \A i \in 1..(e - 1) : ~Settable(t, i)
      BY DEF HasPlace, e
    <2> QED  BY <1>6, <1>7, <2>1 DEF u, Set
  <1>10. Configured(r) = d
    <2>1. e \in DOMAIN r /\ InVideo(r, e)
      BY <1>3, <1>6, <1>8
    <2>2. \A j \in 1..(e - 1) : ~(InVideo(r, j) /\ r[j].kind = "path")
      BY <1>3, <1>5, <1>8, <1>9
    <2> QED  BY <1>6, <2>1, <2>2, FirstPathCounts
  <1>11. PICK v \in 1..(e - 1) : /\ FirstVideo(t, v)
                                 /\ \A j \in (v + 1)..(e - 1) : ~Header(t[j])
    BY <1>3
  <1>12. HasVideo(r)
    BY <1>3, <1>6, <1>7, <1>11 DEF HasVideo, FirstVideo
  <1>13. SectionEnd(r) > e
    <2>1. /\ SectionEnd(r) \in 2..(Len(r) + 1)
          /\ SectionEnd(r) <= Len(r) => Header(r[SectionEnd(r)])
      BY <1>6, <1>12, EndOfSection
    <2>2. PICK w \in 1..(SectionEnd(r) - 1) : FirstVideo(r, w)
      BY <1>6, <1>12, EndOfSection
    <2>3. w = v
      <3>1. r[v].kind = "video" /\ \A j \in 1..(v - 1) : r[j].kind # "video"
        BY <1>3, <1>7, <1>11 DEF FirstVideo
      <3> QED  BY <1>3, <1>11, <2>1, <2>2, <3>1 DEF FirstVideo
    <2>4. \A j \in (v + 1)..e : ~Header(r[j])
      BY <1>3, <1>4, <1>6, <1>7, <1>11
    <2> QED  BY <1>3, <1>6, <2>1, <2>2, <2>3, <2>4
  <1>14. HasPlace(r)
    <2>1. Settable(r, e)
      BY <1>3, <1>4, <1>6, <1>8 DEF Settable
    <2> QED  BY <1>3, <1>6, <1>12, <1>13, <2>1, EndOfSection DEF HasPlace
  <1> QED  BY <1>1, <1>6, <1>10, <1>12, <1>14

-----------------------------------------------------------------------------
(* The other lines.                                                         *)

\* Texts whose other lines have the same places, ...
LEMMA SamePlaces ==
  ASSUME NEW t \in Seq(Lines), NEW u \in Seq(Lines), Len(u) = Len(t),
         \A i \in 1..Len(t) : /\ Settable(u, i) <=> Settable(t, i)
                              /\ ~Settable(t, i) => u[i] = t[i]
  PROVE  Others(u) = Others(t)
PROOF
  <1>1. DOMAIN t = 1..Len(t) /\ DOMAIN u = 1..Len(t) /\ Len(t) \in Nat
    OBVIOUS
  <1>2. ASSUME NEW i \in 1..Len(t)
        PROVE  Rank(u, i) = Rank(t, i)
    <2>1. \A j \in 1..i : j \in 1..Len(t)
      BY <1>1
    <2>2. {j \in 1..i : ~Settable(u, j)} = {j \in 1..i : ~Settable(t, j)}
      BY <2>1
    <2> QED  BY <2>2, Zenon DEF Rank
  <1>3. {j \in DOMAIN u : ~Settable(u, j)} = {j \in DOMAIN t : ~Settable(t, j)}
    BY <1>1
  <1>4. \A i \in {j \in DOMAIN t : ~Settable(t, j)} : <<Rank(u, i), u[i]>> = <<Rank(t, i), t[i]>>
    BY <1>1, <1>2
  <1> QED  BY <1>3, <1>4, Zenon DEF Others

\* Where a line stands once one was put in at e.
Moved(e, i) == IF i < e THEN i ELSE i + 1

\* ... or make room for a value only.
LEMMA MovedPlaces ==
  ASSUME NEW t \in Seq(Lines), NEW u \in Seq(Lines), Len(u) = Len(t) + 1,
         NEW e \in 1..(Len(t) + 1), Settable(u, e),
         \A i \in 1..Len(t) : /\ Settable(u, Moved(e, i)) <=> Settable(t, i)
                              /\ ~Settable(t, i) => u[Moved(e, i)] = t[i]
  PROVE  Others(u) = Others(t)
PROOF
  <1>1. /\ DOMAIN t = 1..Len(t) /\ DOMAIN u = 1..(Len(t) + 1) /\ Len(t) \in Nat
        /\ e \in Nat /\ 1 <= e /\ e <= Len(t) + 1
    OBVIOUS
  <1>2. ASSUME NEW i \in 1..Len(t)
        PROVE  /\ Moved(e, i) \in 1..(Len(t) + 1) /\ Moved(e, i) # e
               /\ \A j \in 1..Len(t) : Moved(e, i) = Moved(e, j) => i = j
    BY <1>1 DEF Moved
  <1>3. ASSUME NEW k \in 1..(Len(t) + 1), k # e
        PROVE  \E i \in 1..Len(t) : k = Moved(e, i)
    <2>1. CASE k < e
      <3>1. k \in 1..Len(t) /\ k = Moved(e, k)
        BY <1>1, <2>1 DEF Moved
      <3> QED  BY <3>1
    <2>2. CASE k > e
      <3>1. k - 1 \in 1..Len(t) /\ k = Moved(e, k - 1)
        BY <1>1, <2>2 DEF Moved
      <3> QED  BY <3>1
    <2> QED  BY <1>1, <1>3, <2>1, <2>2
  <1>4. ASSUME NEW i \in 1..Len(t)
        PROVE  Rank(u, Moved(e, i)) = Rank(t, i)
    <2> DEFINE A == {j \in 1..i : ~Settable(t, j)}
               B == {j \in 1..Moved(e, i) : ~Settable(u, j)}
               f == [j \in A |-> Moved(e, j)]
    <2>1. IsFiniteSet(A)
      <3>1. IsFiniteSet(1..i) /\ A \in SUBSET (1..i)
        BY FS_Interval
      <3> QED  BY <3>1, FS_Subset
    <2>2. \A j \in 1..i : j \in 1..Len(t)
      BY <1>1
    <2>3. \A j \in 1..Len(t) : Moved(e, j) <= Moved(e, i) <=> j <= i
      BY <1>1 DEF Moved
    <2>4. ASSUME NEW j \in A
          PROVE  Moved(e, j) \in B
      <3>1. j \in 1..Len(t) /\ j <= i /\ ~Settable(t, j)
        BY <2>2
      <3>2. Moved(e, j) \in 1..(Len(t) + 1) /\ Moved(e, j) <= Moved(e, i)
        BY <1>2, <2>3, <3>1
      <3>3. ~Settable(u, Moved(e, j))
        BY <3>1
      <3>4. Moved(e, j) \in 1..Moved(e, i)
        BY <1>2, <3>2
      <3> QED  BY <3>3, <3>4
    <2>5. ASSUME NEW k \in B
          PROVE  \E j \in A : k = Moved(e, j)
      <3>1. k \in 1..(Len(t) + 1) /\ k <= Moved(e, i) /\ ~Settable(u, k)
        BY <1>1, <1>2
      <3>2. k # e
        BY <3>1
      <3>3. PICK j \in 1..Len(t) : k = Moved(e, j)
        BY <1>3, <3>1, <3>2
      <3>4. j <= i /\ ~Settable(t, j)
        BY <2>3, <3>1, <3>3
      <3>5. j \in 1..i
        BY <1>1, <3>4
      <3> QED  BY <3>3, <3>4, <3>5
    <2>6. f \in Bijection(A, B)
      <3>1. \A j \in A, k \in A : Moved(e, j) = Moved(e, k) => j = k
        BY <1>2, <2>2
      <3> HIDE DEF A, B
      <3>2. f \in [A -> B]
        BY <2>4
      <3>3. \A j, k \in A : f[j] = f[k] => j = k
        BY <3>1
      <3>4. \A k \in B : \E j \in A : f[j] = k
        BY <2>5
      <3> HIDE DEF f
      <3> QED  BY <3>2, <3>3, <3>4 DEF Bijection, Injection, Surjection, IsInjective
    <2>7. ExistsBijection(A, B)
      BY <2>6, Zenon DEF ExistsBijection
    <2>8. Cardinality(B) = Cardinality(A)
      <3> HIDE DEF A, B
      <3> QED  BY <2>1, <2>7, FS_Bijection
    <2> QED  BY <2>8, Zenon DEF Rank
  <1>5. ASSUME NEW x \in Others(t)
        PROVE  x \in Others(u)
    <2>1. PICK i \in 1..Len(t) : ~Settable(t, i) /\ x = <<Rank(t, i), t[i]>>
      BY <1>1, <1>5 DEF Others
    <2>2. Moved(e, i) \in DOMAIN u /\ ~Settable(u, Moved(e, i))
      BY <1>1, <1>2, <2>1
    <2>3. x = <<Rank(u, Moved(e, i)), u[Moved(e, i)]>>
      BY <1>4, <2>1
    <2> QED  BY <2>2, <2>3 DEF Others
  <1>6. ASSUME NEW x \in Others(u)
        PROVE  x \in Others(t)
    <2>1. PICK k \in 1..(Len(t) + 1) : ~Settable(u, k) /\ x = <<Rank(u, k), u[k]>>
      BY <1>1, <1>6 DEF Others
    <2>2. PICK i \in 1..Len(t) : k = Moved(e, i)
      BY <1>3, <2>1
    <2>3. ~Settable(t, i) /\ x = <<Rank(t, i), t[i]>>
      BY <1>4, <2>1, <2>2
    <2> QED  BY <1>1, <2>3 DEF Others
  <1> QED  BY <1>5, <1>6

\* Setting values changes no other line, and which ones they are.
LEMMA SetOthers ==
  ASSUME NEW t \in Seq(Lines), NEW d \in Devices, NEW i \in 1..Len(t)
  PROVE  /\ Settable(Set(t, d), i) <=> Settable(t, i)
         /\ ~Settable(t, i) => Set(t, d)[i] = t[i]
PROOF
  <1>1. DOMAIN t = 1..Len(t) /\ i \in DOMAIN t /\ i \in 1..(Len(t) + 1)
    OBVIOUS
  <1>2. InVideo(Set(t, d), i) <=> InVideo(t, i)
    BY <1>1, SetKeepsSections
  <1>3. Set(t, d)[i] = IF Settable(t, i) THEN Path(d) ELSE t[i]
    BY <1>1 DEF Set
  <1>4. CASE Settable(t, i)
    BY <1>2, <1>3, <1>4 DEF Settable, Path
  <1>5. CASE ~Settable(t, i)
    BY <1>2, <1>3, <1>5 DEF Settable
  <1> QED  BY <1>4, <1>5

\* A value put in at the end of a section moves what follows and no section.
LEMMA AddedOthers ==
  ASSUME NEW t \in Seq(Lines), HasVideo(t), NEW d \in Devices, ~HasPlace(t)
  PROVE  Others(Bound(t, d)) = Others(t)
PROOF
  <1> DEFINE u == Set(t, d)
             e == SectionEnd(t)
             r == SubSeq(u, 1, e - 1) \o <<Path(d)>> \o SubSeq(u, e, Len(t))
  <1>1. Bound(t, d) = r
    BY DEF Bound, HasPlace, Set
  <1>2. /\ u \in Seq(Lines) /\ Len(u) = Len(t) /\ DOMAIN u = DOMAIN t
        /\ \A i \in DOMAIN t : /\ Header(u[i]) <=> Header(t[i])
                               /\ u[i].kind = "video" <=> t[i].kind = "video"
        /\ \A i \in 1..(Len(t) + 1) : InVideo(u, i) <=> InVideo(t, i)
    BY SetKeepsSections
  <1>3. e \in 2..(Len(t) + 1) /\ InVideo(t, e)
    BY EndOfSection
  <1>4. Path(d) \in Lines /\ Path(d).kind = "path" /\ ~Header(Path(d))
    BY DEF Lines, Path, Header
  <1>o. \A i \in 1..Len(t) : /\ Settable(u, i) <=> Settable(t, i)
                             /\ ~Settable(t, i) => u[i] = t[i]
    BY SetOthers
  <1> HIDE DEF u, e
  <1>5. /\ r \in Seq(Lines) /\ Len(r) = Len(t) + 1
        /\ \A i \in 1..(e - 1) : r[i] = u[i]
        /\ r[e] = Path(d)
        /\ \A i \in e..Len(t) : r[i + 1] = u[i]
    BY <1>2, <1>3, <1>4
  <1> HIDE DEF r
  <1>6. ASSUME NEW i \in 1..Len(t)
        PROVE  r[Moved(e, i)] = u[i]
    <2>1. CASE i < e
      BY <1>3, <1>5, <2>1 DEF Moved
    <2>2. CASE i >= e
      BY <1>3, <1>5, <2>2 DEF Moved
    <2> QED  BY <1>3, <2>1, <2>2
  <1>7. ASSUME NEW i \in 1..Len(t)
        PROVE  InVideo(r, Moved(e, i)) <=> InVideo(u, i)
    <2>0. Len(t) \in Nat /\ e \in Nat /\ r[e].kind # "video" /\ ~Header(r[e])
      BY <1>3, <1>4, <1>5
    <2>1. ASSUME InVideo(u, i) PROVE InVideo(r, Moved(e, i))
      <3>1. PICK v \in 1..(i - 1) : /\ u[v].kind = "video"
                                   /\ \A j \in (v + 1)..(i - 1) : ~Header(u[j])
        BY <2>1 DEF InVideo
      <3>2. v \in 1..Len(t) /\ Moved(e, v) \in 1..(Moved(e, i) - 1)
        BY <2>0, <3>1 DEF Moved
      <3>3. r[Moved(e, v)].kind = "video"
        BY <1>6, <3>1, <3>2
      <3>4. ASSUME NEW k \in (Moved(e, v) + 1)..(Moved(e, i) - 1)
            PROVE  ~Header(r[k])
        <4>1. CASE k = e
          BY <2>0, <4>1
        <4>2. CASE k < e
          <5>1. k \in (v + 1)..(i - 1) /\ k \in 1..Len(t) /\ Moved(e, k) = k
            BY <2>0, <3>1, <3>4, <4>2 DEF Moved
          <5> QED  BY <1>6, <3>1, <5>1
        <4>3. CASE k > e
          <5>1. k - 1 \in (v + 1)..(i - 1) /\ k - 1 \in 1..Len(t) /\ Moved(e, k - 1) = k
            BY <2>0, <3>1, <3>4, <4>3 DEF Moved
          <5> QED  BY <1>6, <3>1, <5>1
        <4> QED  BY <2>0, <4>1, <4>2, <4>3 DEF Moved
      <3> QED  BY <3>2, <3>3, <3>4 DEF InVideo
    <2>2. ASSUME InVideo(r, Moved(e, i)) PROVE InVideo(u, i)
      <3>1. PICK w \in 1..(Moved(e, i) - 1) :
              /\ r[w].kind = "video"
              /\ \A j \in (w + 1)..(Moved(e, i) - 1) : ~Header(r[j])
        BY <2>2 DEF InVideo
      <3>2. w # e
        BY <2>0, <3>1
      <3>3. PICK v \in 1..(i - 1) : w = Moved(e, v)
        <4>1. CASE w < e
          <5>1. w \in 1..(i - 1) /\ w = Moved(e, w)
            BY <2>0, <3>1, <4>1 DEF Moved
          <5> QED  BY <5>1
        <4>2. CASE w > e
          <5>1. w - 1 \in 1..(i - 1) /\ w = Moved(e, w - 1)
            BY <1>3, <2>0, <3>1, <4>2 DEF Moved
          <5> QED  BY <5>1
        <4>3. w \in Nat
          BY <2>0, <3>1 DEF Moved
        <4> QED  BY <2>0, <3>2, <4>1, <4>2, <4>3
      <3>4. v \in 1..Len(t)
        BY <2>0
      <3>5. u[v].kind = "video"
        BY <1>6, <3>1, <3>3, <3>4
      <3>6. ASSUME NEW j \in (v + 1)..(i - 1)
            PROVE  ~Header(u[j])
        <4>1. j \in 1..Len(t) /\ Moved(e, j) \in (w + 1)..(Moved(e, i) - 1)
          BY <2>0, <3>3, <3>6 DEF Moved
        <4> QED  BY <1>6, <3>1, <4>1
      <3> QED  BY <3>5, <3>6 DEF InVideo
    <2> QED  BY <2>1, <2>2
  <1>8. ASSUME NEW i \in 1..Len(t)
        PROVE  /\ Settable(r, Moved(e, i)) <=> Settable(t, i)
               /\ ~Settable(t, i) => r[Moved(e, i)] = t[i]
    <2>1. Settable(r, Moved(e, i)) <=> Settable(u, i)
      BY <1>6, <1>7 DEF Settable
    <2> QED  BY <1>6, <1>o, <2>1
  <1>9. Settable(r, e)
    <2>1. \A i \in 1..(e - 1) : /\ i \in DOMAIN t
                                /\ Header(r[i]) <=> Header(t[i])
                                /\ r[i].kind = "video" <=> t[i].kind = "video"
      BY <1>2, <1>3, <1>5
    <2>2. InVideo(r, e)
      BY <1>3, <2>1 DEF InVideo
    <2> QED  BY <1>4, <1>5, <2>2 DEF Settable
  <1>10. e \in 1..(Len(t) + 1)
    BY <1>3
  <1>11. Others(r) = Others(t)
    BY <1>5, <1>8, <1>9, <1>10, MovedPlaces
  <1> QED  BY <1>1, <1>11

LEMMA BoundKeepsOthers ==
  ASSUME NEW t \in Seq(Lines), HasVideo(t), NEW d \in Devices
  PROVE  Others(Bound(t, d)) = Others(t)
PROOF
  <1>1. CASE HasPlace(t)
    <2>1. Bound(t, d) = Set(t, d)
      BY <1>1 DEF Bound, HasPlace, Set
    <2>2. Set(t, d) \in Seq(Lines) /\ Len(Set(t, d)) = Len(t)
      BY SetKeepsSections
    <2>3. \A i \in 1..Len(t) : /\ Settable(Set(t, d), i) <=> Settable(t, i)
                               /\ ~Settable(t, i) => Set(t, d)[i] = t[i]
      BY SetOthers
    <2>4. Others(Set(t, d)) = Others(t)
      BY <2>2, <2>3, SamePlaces
    <2> QED  BY <2>1, <2>4
  <1>2. CASE ~HasPlace(t)
    BY <1>2, AddedOthers
  <1> QED  BY <1>1, <1>2

LEMMA BoundWorks ==
  ASSUME NEW t \in Seq(Lines), HasVideo(t), NEW d \in Devices
  PROVE  Bound(t, d) \in Seq(Lines) /\ Configured(Bound(t, d)) = d
  BY BoundInPlace, BoundAdds

-----------------------------------------------------------------------------
(* The invariant.                                                           *)

Binding == pc \in {"backup", "fill", "write", "writing", "rename"}

\* A text that has grown by the line a binding adds has a place for the next.
Short(t) ==
  /\ t \in Seq(Lines)
  /\ \/ Len(t) <= MaxLines + edits
     \/ Len(t) = MaxLines + 1 + edits /\ HasVideo(t) /\ HasPlace(t)

Inv ==
  /\ Short(config)
  /\ bak = NoFile \/ Short(bak)
  /\ tmp = NoFile \/ Short(tmp)
  /\ pc \in {"idle", "backup", "fill", "write", "writing", "rename", "putback"}
  /\ want \in Devices \cup {NoDevice}
  /\ stops \in 0..MaxStops /\ edits \in 0..MaxEdits
  /\ Binding => Short(seen) /\ HasVideo(seen) /\ want \in Devices
  /\ pc = "rename" => tmp = Bound(seen, want) /\ Short(tmp)
  /\ pc = "putback" => Short(bak)
  \* Until a command ends half-way the backup is what it was made from.
  /\ stops = 0 => IF pc = "fill" THEN orig = NoFile ELSE bak = orig

LEMMA InvInit == Init => Inv
PROOF
  <1> SUFFICES ASSUME Init PROVE Inv
    OBVIOUS
  <1>1. config \in Seq(Lines) /\ Len(config) <= MaxLines
    <2>1. CASE config = <<>>
      BY <2>1, HowdyConfigAssumption
    <2>2. CASE config # <<>>
      <3>1. PICK m \in 0..MaxLines : config \in [1..m -> Lines]
        BY <2>2 DEF Init, Texts, BoundedSeq, SeqOf
      <3> QED  BY <3>1, HowdyConfigAssumption
    <2> QED  BY <2>1, <2>2
  <1>2. Short(config)
    BY <1>1, HowdyConfigAssumption DEF Init, Short
  <1> QED  BY <1>2, HowdyConfigAssumption DEF Init, Inv, Binding

LEMMA ShortBound ==
  ASSUME edits \in Nat, NEW t, Short(t), HasVideo(t), NEW d \in Devices
  PROVE  Short(Bound(t, d))
PROOF
  <1>1. CASE HasPlace(t)
    BY <1>1, BoundInPlace, HowdyConfigAssumption DEF Short
  <1>2. CASE ~HasPlace(t)
    BY <1>2, BoundAdds, HowdyConfigAssumption DEF Short
  <1> QED  BY <1>1, <1>2

LEMMA InvStep == Inv /\ [Next]_vars => Inv'
PROOF
  <1> SUFFICES ASSUME Inv, [Next]_vars PROVE Inv'
    OBVIOUS
  <1>1. edits \in Nat /\ stops \in Nat
    BY HowdyConfigAssumption DEF Inv
  <1>2. Short(<<>>)
    BY <1>1, HowdyConfigAssumption DEF Short
  <1>3. ASSUME NEW d \in Devices, Begin(d) PROVE Inv'
    BY <1>3 DEF Begin, Inv, Binding, Short
  <1>4. CASE Backup
    BY <1>2, <1>4 DEF Backup, NeedsBackup, Inv, Binding, Short
  <1>5. CASE FillBackup
    BY <1>5 DEF FillBackup, Inv, Binding, Short
  <1>6. CASE Truncate
    BY <1>2, <1>6 DEF Truncate, Inv, Binding, Short
  <1>7. CASE Write
    <2>1. Short(Bound(seen, want))
      BY <1>1, <1>7, ShortBound DEF Write, Inv, Binding
    <2> QED  BY <1>7, <2>1 DEF Write, Inv, Binding, Short
  <1>8. CASE Rename
    BY <1>8 DEF Rename, Inv, Binding, Short
  <1>9. CASE TakeAway
    BY <1>2, <1>9 DEF TakeAway, Inv, Binding, Short
  <1>10. CASE PutBack
    BY <1>10 DEF PutBack, Inv, Binding, Short
  <1>11. CASE Stop
    BY <1>1, <1>11, HowdyConfigAssumption DEF Stop, Inv, Binding, Short
  <1>12. CASE Edit
    <2>1. PICK i \in DOMAIN config, l \in Lines : config' = [config EXCEPT ![i] = l]
      BY <1>12 DEF Edit
    <2>2. edits' = edits + 1 /\ edits' \in 0..MaxEdits
      BY <1>1, <1>12, HowdyConfigAssumption DEF Edit
    <2>3. Short(config)'
      BY <1>1, <2>1, <2>2, HowdyConfigAssumption DEF Inv, Short
    <2>4. ASSUME NEW t \in {bak, tmp, seen}, Short(t)
          PROVE  t \in Seq(Lines) /\ Len(t) <= MaxLines + edits'
      BY <1>1, <2>2, <2>4, HowdyConfigAssumption DEF Short
    <2> QED  BY <1>12, <2>2, <2>3, <2>4 DEF Edit, Inv, Binding, Short
  <1>13. CASE UNCHANGED vars
    BY <1>13 DEF vars, Inv, Binding, Short
  <1> QED  BY <1>3, <1>4, <1>5, <1>6, <1>7, <1>8, <1>9, <1>10, <1>11, <1>12, <1>13 DEF Next

\* The file keeps to known lines, and bindings add one line to it at most,
\* however often replace_video_device_path is applied.
THEOREM TypeCorrect == Spec => []TypeOK
PROOF
  <1>1. Inv => TypeOK
    BY HowdyConfigAssumption DEF Inv, TypeOK, Short
  <1> QED  BY InvInit, InvStep, <1>1, PTL DEF Spec

\* The daemon reads the configured camera or the selected one, whenever it
\* reads: bind_camera replaces the file by a rename, and what it has written
\* reads back as the camera it was asked to bind.
THEOREM CameraMoves == Spec => CameraMovesToSelected
PROOF
  <1>1. Inv /\ [Next]_vars =>
          [Configured(config') # Configured(config) /\ edits' = edits
             /\ pc \notin {"idle", "putback"} => Configured(config') = want]_vars
    <2> SUFFICES ASSUME Inv, [Next]_vars, pc \notin {"idle", "putback"}, edits' = edits,
                        config' # config
                 PROVE  Configured(config') = want
      OBVIOUS
    <2>1. Rename
      BY HowdyConfigAssumption DEF Inv, Next, Begin, Backup, FillBackup, Truncate, Write,
         TakeAway, PutBack, Stop, Edit, vars
    <2> QED  BY <2>1, BoundWorks DEF Rename, Inv, Binding, Short
  <1> QED  BY InvInit, InvStep, <1>1, PTL DEF Spec, CameraMovesToSelected

\* A binding that ends well leaves the selected camera in the file, and every
\* line that is not a device_path of [video] as it was and in its place.
THEOREM TheRestIsKept == Spec => BindKeepsTheRest
PROOF
  <1>1. Inv /\ [Next]_vars =>
          [pc = "rename" /\ pc' = "idle" /\ stops' = stops =>
             Configured(config') = want /\ Others(config') = Others(seen)]_vars
    <2> SUFFICES ASSUME Inv, [Next]_vars, pc = "rename", pc' = "idle", stops' = stops
                 PROVE  Configured(config') = want /\ Others(config') = Others(seen)
      OBVIOUS
    <2>1. ~Stop
      BY HowdyConfigAssumption DEF Stop, Inv
    <2>2. Rename
      BY <2>1 DEF Next, Begin, Backup, FillBackup, Truncate, Write, TakeAway, PutBack, Edit, vars
    <2>3. /\ config' = Bound(seen, want) /\ seen \in Seq(Lines) /\ HasVideo(seen)
          /\ want \in Devices
      BY <2>2 DEF Rename, Inv, Binding, Short
    <2> QED  BY <2>3, BoundWorks, BoundKeepsOthers
  <1> QED  BY InvInit, InvStep, <1>1, PTL DEF Spec, BindKeepsTheRest

\* The uninstaller gives back the config.ini of before the first binding unless
\* a command ended half-way: a backup is made once and never again.
THEOREM UninstallRestores == Spec => UninstallGivesBack
PROOF
  <1>1. Inv /\ [Next]_vars =>
          [pc = "putback" /\ pc' = "idle" /\ stops' = 0 => config' = orig]_vars
    <2> SUFFICES ASSUME Inv, [Next]_vars, pc = "putback", pc' = "idle", stops' = 0
                 PROVE  config' = orig
      OBVIOUS
    <2>1. ~Stop
      BY HowdyConfigAssumption DEF Stop, Inv
    <2>2. PutBack
      BY <2>1 DEF Next, Begin, Backup, FillBackup, Truncate, Write, Rename, TakeAway, Edit, vars
    <2> QED  BY <2>2 DEF PutBack, Inv
  <1> QED  BY InvInit, InvStep, <1>1, PTL DEF Spec, UninstallGivesBack

=============================================================================
