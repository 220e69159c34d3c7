---------------------------- MODULE XisfWalkProofs ----------------------------
(***************************************************************************)
(* The walk over the image occurrences of any header: what it keeps of     *)
(* them, that the granularity a header promises is the one its block is    *)
(* delivered at, that the pairs of a split block tile it, that nothing of  *)
(* an occurrence depends on the images read before it, and that its        *)
(* properties come in document order.                                      *)
(*                                                                         *)
(* WalkInv says that every occurrence, fresh or remembered, has the plan   *)
(* its document states (Walked), and counts the images passed.             *)
(*                                                                         *)
(* MemoInv says what the memo may know (HonestOf): of every element only   *)
(* what reading it alone would give.  A fold over keywords that consults   *)
(* such a memo gives what the fold without one gives (FoldsAsAlone), so    *)
(* does collecting an image's children (CollectReads) and the properties   *)
(* every image shares (SharedReads), and each leaves the memo honest: the  *)
(* k-th occurrence is what the k-th image read by itself says (Fresh).     *)
(***************************************************************************)
EXTENDS XisfWalk, XisfBlockProofs, FiniteSetTheorems, SequenceTheorems

-----------------------------------------------------------------------------
(* The images among the first root children.                               *)

FindStep(d, all, c) == IF ImageAt(d, c) = None THEN all ELSE Append(all, c)
FindClaim(d, n, all) == all \in Seq(DOMAIN d.nodes)
Finding == INSTANCE Folding WITH Step <- FindStep, Claim <- FindClaim

\* The images among the first n.
Found(d, n) == Finding!Fold(d, <<>>, Finding!Prefix(Children(d, 1), n))

\* A sequence appended to is one longer.
LEMMA Appended ==
    ASSUME NEW S, NEW s \in Seq(S), NEW x
    PROVE  Len(s) \in Nat /\ Len(Append(s, x)) = Len(s) + 1 /\ (x \in S => Append(s, x) \in Seq(S))
  OBVIOUS

\* The images found among the first children are elements of the document.
LEMMA FoundSoFar ==
    ASSUME NEW d, ConformingDoc(d), NEW n \in 0 .. Len(Children(d, 1))
    PROVE  Found(d, n) \in Seq(DOMAIN d.nodes)
  <1> DEFINE kids == Children(d, 1)
             first == Finding!Prefix(kids, n)
  <1>1. kids \in Seq(DOMAIN d.nodes)
    BY DEF ConformingDoc, Children
  <1>2. n \in Nat /\ DOMAIN first = 1 .. n /\ \A i \in 1 .. n : first[i] \in DOMAIN d.nodes
    BY <1>1 DEF Finding!Prefix
  <1>3. FindClaim(d, 0, <<>>)
    BY DEF FindClaim
  <1> HIDE DEF first
  <1>4. \A i \in 1 .. n : \A s : FindClaim(d, i - 1, s) => FindClaim(d, i, FindStep(d, s, first[i]))
    <2> DEFINE S == DOMAIN d.nodes
    <2> HIDE DEF S
    <2>1. ASSUME NEW i \in 1 .. n, NEW s \in Seq(S)
          PROVE  FindStep(d, s, first[i]) \in Seq(S)
      BY <1>2, Appended DEF FindStep, S
    <2> QED  BY <2>1 DEF FindClaim, S
  <1>5. FindClaim(d, n, Finding!Fold(d, <<>>, first))
    BY <1>2, <1>3, <1>4, Finding!FoldKeeps
  <1> QED  BY <1>5 DEF FindClaim, Found, first

\* The images found grow by those of the next child.
LEMMA FoundNext ==
    ASSUME NEW d, NEW n \in Nat
    PROVE  /\ Found(d, 0) = <<>>
           /\ Found(d, n + 1) = FindStep(d, Found(d, n), Children(d, 1)[n + 1])
  <1> DEFINE kids == Children(d, 1)
             first == Finding!Prefix(kids, n + 1)
  <1>1. DOMAIN Finding!Prefix(kids, 0) = {}
    BY DEF Finding!Prefix
  <1>2. Found(d, 0) = <<>>
    BY <1>1, Finding!FoldOfNone DEF Found
  <1>3. DOMAIN first = 1 .. n + 1 /\ first[n + 1] = kids[n + 1]
    BY DEF Finding!Prefix
  <1>4. Finding!Prefix(first, n) = Finding!Prefix(kids, n)
    BY DEF Finding!Prefix
  <1> HIDE DEF first
  <1>5. Finding!Fold(d, <<>>, first)
            = FindStep(d, Finding!Fold(d, <<>>, Finding!Prefix(first, n)), first[n + 1])
    BY <1>3, Finding!FoldOfOneMore
  <1> QED  BY <1>2, <1>3, <1>4, <1>5 DEF Found, first

\* All of them, once every root child was visited.
LEMMA FoundAll ==
    ASSUME ConformingDoc(doc)
    PROVE  Images = Found(doc, Len(RootChildren))
  <1>1. RootChildren \in Seq(DOMAIN doc.nodes)
    BY DEF RootChildren, Children, ConformingDoc
  <1>2. Finding!Prefix(RootChildren, Len(RootChildren)) = RootChildren
    BY <1>1 DEF Finding!Prefix
  <1>3. Images = Finding!Fold(doc, <<>>, RootChildren)
    BY Zenon DEF Images, FindStep, FoldLeft, MapThenFoldSet, Max,
         Finding!Fold, Finding!Iterates, Finding!Largest
  <1> QED  BY <1>2, <1>3 DEF Found, RootChildren

-----------------------------------------------------------------------------
(* The invariant.                                                          *)

\* A walk that was not refused has an occurrence for every image so far, up to one past the cap.
Counts == walk.res = "ok" => Len(walk.out) = Least(Len(Found(doc, at)), ImagesPerSource + 1)

WalkInv == doc \in Docs /\ at \in 0 .. Len(RootChildren) /\ Walked(walk) /\ Counts

\* A turn adds the occurrence of an image that is not past the cap, and no other.
LEMMA TurnCounts ==
    ASSUME NEW d, NEW s, Walked(s), NEW child, WalkChild(d, s, child).res = "ok"
    PROVE  /\ s.res = "ok"
           /\ Len(WalkChild(d, s, child).out) =
                 Len(s.out) + (IF PastTheCap(s.out) \/ ImageAt(d, child) = None THEN 0 ELSE 1)
  <1> DEFINE image == ImageAt(d, child)
             fresh == BuildAt(d, image, s.shared, s.cache)
             t == WalkChild(d, s, child)
  <1>1. /\ s = [res |-> s.res, out |-> s.out, built |-> s.built, shared |-> s.shared,
                cache |-> s.cache]
        /\ Len(s.out) \in Nat
    BY ImagesPerSourceAssumption DEF Walked
  <1>2. \E S : s.out \in Seq(S)
    BY DEF Walked
  <1>3. ASSUME NEW o PROVE Len(Append(s.out, o)) = Len(s.out) + 1
    BY <1>2
  <1>4. CASE s.res # "ok" \/ PastTheCap(s.out) \/ image = None
    BY <1>1, <1>4 DEF WalkChild
  <1>5. CASE ~ (s.res # "ok" \/ PastTheCap(s.out) \/ image = None)
    <2>1. CASE image \in DOMAIN s.built
      <3>1. t = [s EXCEPT !.out = Append(@, s.built[image])]
        BY <1>5, <2>1 DEF WalkChild
      <3>2. t.out = Append(s.out, s.built[image])
        BY <1>1, <3>1
      <3> QED  BY <1>3, <1>5, <3>2
    <2>2. CASE image \notin DOMAIN s.built
      <3>1. t = Enter(s, image, IsReferenced(d, child), fresh)
        BY <1>5, <2>2 DEF WalkChild
      <3>2. fresh.res = "ok"
        <4> SUFFICES ASSUME fresh.res # "ok" PROVE FALSE
          OBVIOUS
        <4>1. t = [s EXCEPT !.res = fresh.res]
          BY <3>1 DEF Enter
        <4> HIDE DEF fresh
        <4>2. t.res = fresh.res
          BY <1>1, <4>1
        <4> QED  BY <4>2
      <3>3. t.out = Append(s.out, fresh.occurrence)
        <4> HIDE DEF fresh
        <4>1. t = [s EXCEPT !.out = Append(@, fresh.occurrence), !.cache = fresh.cache,
                            !.built = IF IsReferenced(d, child)
                                      THEN Remembering(@, image, fresh.occurrence) ELSE @]
          BY <3>1, <3>2 DEF Enter
        <4> QED  BY <1>1, <4>1
      <3> QED  BY <1>3, <1>5, <3>3
    <2> QED  BY <2>1, <2>2
  <1> QED  BY <1>4, <1>5

\* The walk begins with nothing found or built.
LEMMA WalkInitInv == Init => WalkInv
  <1> SUFFICES ASSUME Init PROVE WalkInv
    OBVIOUS
  <1>1. doc \in Docs /\ at = 0 /\ walk = WalkStart(doc)
    BY DEF Init
  <1>2. ConformingDoc(doc)
    BY <1>1, DocsAssumption
  <1>3. Walked(walk)
    BY <1>1, WalkStartsWell
  <1>4. Len(RootChildren) \in Nat
    BY <1>2 DEF RootChildren, Children, ConformingDoc
  <1>5. Len(walk.out) = 0 /\ Len(Found(doc, at)) = 0
    BY <1>1, FoundNext DEF WalkStart, WalkFrom
  <1> QED  BY <1>1, <1>3, <1>4, <1>5, ImagesPerSourceAssumption DEF WalkInv, Counts, Least

\* A child walked extends what was found by its images.
LEMMA WalkNextInv == WalkInv /\ [Next]_vars => WalkInv'
  <1> SUFFICES ASSUME WalkInv, [Next]_vars PROVE WalkInv'
    OBVIOUS
  <1>1. /\ doc \in Docs /\ at \in 0 .. Len(RootChildren) /\ Walked(walk) /\ Counts
        /\ ConformingDoc(doc)
    BY DocsAssumption DEF WalkInv
  <1>2. RootChildren \in Seq(DOMAIN doc.nodes)
    BY <1>1 DEF RootChildren, Children, ConformingDoc
  <1>3. CASE Visit
    <2> DEFINE child == RootChildren[at + 1]
    <2>1. /\ at < Len(RootChildren) /\ at' = at + 1 /\ doc' = doc
          /\ walk' = WalkChild(doc, walk, child)
      BY <1>3 DEF Visit
    <2>2. at \in Nat /\ at + 1 \in 1 .. Len(RootChildren) /\ child \in DOMAIN doc.nodes
      BY <1>1, <1>2, <2>1
    <2>3. RootChildren' = RootChildren
      BY <2>1 DEF RootChildren
    <2>4. Walked(walk')
      BY <1>1, <2>1, <2>2, WalkGoesWell
    <2>5. Counts'
      <3> SUFFICES ASSUME walk'.res = "ok"
                   PROVE  Len(walk'.out) = Least(Len(Found(doc, at + 1)), ImagesPerSource + 1)
        BY <2>1 DEF Counts
      <3>1. /\ Len(walk.out) = Least(Len(Found(doc, at)), ImagesPerSource + 1)
            /\ Len(walk'.out) =
                 Len(walk.out) + (IF PastTheCap(walk.out) \/ ImageAt(doc, child) = None THEN 0 ELSE 1)
        BY <1>1, <2>1, TurnCounts DEF Counts
      <3>2. Found(doc, at) \in Seq(DOMAIN doc.nodes)
        BY <1>1, FoundSoFar DEF RootChildren
      <3>3. Found(doc, at + 1) =
                IF ImageAt(doc, child) = None THEN Found(doc, at) ELSE Append(Found(doc, at), child)
        BY <2>2, FoundNext DEF FindStep, RootChildren
      <3> DEFINE before == Len(Found(doc, at))
                 after == Len(Found(doc, at + 1))
                 none == ImageAt(doc, child) = None
      <3>5. before \in Nat /\ (none => after = before) /\ (~none => after = before + 1)
        BY <3>2, <3>3, Appended
      <3>6. /\ Len(walk.out) = (IF before < ImagesPerSource + 1 THEN before ELSE ImagesPerSource + 1)
            /\ (none \/ Len(walk.out) > ImagesPerSource => Len(walk'.out) = Len(walk.out))
            /\ (~none /\ ~(Len(walk.out) > ImagesPerSource) => Len(walk'.out) = Len(walk.out) + 1)
        <4>1. /\ Len(walk.out) = Least(before, ImagesPerSource + 1)
              /\ Len(walk'.out) = Len(walk.out) + (IF PastTheCap(walk.out) \/ none THEN 0 ELSE 1)
          BY <3>1
        <4> HIDE DEF before, after, none
        <4>2. /\ Len(walk.out) \in Nat
              /\ Len(walk.out) = (IF before < ImagesPerSource + 1 THEN before ELSE ImagesPerSource + 1)
          BY <3>5, <4>1, ImagesPerSourceAssumption DEF Least
        <4>3. PastTheCap(walk.out) <=> Len(walk.out) > ImagesPerSource
          BY DEF PastTheCap
        <4> QED  BY <4>1, <4>2, <4>3
      <3> HIDE DEF before, after, none
      <3>7. Len(walk'.out) = (IF after < ImagesPerSource + 1 THEN after ELSE ImagesPerSource + 1)
        BY <3>5, <3>6, ImagesPerSourceAssumption
      <3> QED  BY <3>7 DEF Least, after
    <2> QED  BY <1>1, <2>1, <2>2, <2>3, <2>4, <2>5 DEF WalkInv
  <1>4. CASE UNCHANGED vars
    BY <1>4 DEF vars, WalkInv, Counts, RootChildren, Walked
  <1> QED  BY <1>3, <1>4 DEF Next, Done

\* Every state of a walk is one of the invariant.
THEOREM WalkInvariance == Spec => []WalkInv
  BY WalkInitInv, WalkNextInv, PTL DEF Spec

-----------------------------------------------------------------------------
(* The theorems.                                                           *)

\* The walk keeps one occurrence past the cap and no more, and short of it every image of the
\* header (walk_occurrences of image.rs).
THEOREM OnePastTheCapAlways == Spec => []OnePastTheCap
  <1>1. WalkInv => OnePastTheCap
    <2> SUFFICES ASSUME WalkInv PROVE OnePastTheCap
      OBVIOUS
    <2>1. Walked(walk) /\ Counts /\ ConformingDoc(doc)
      BY DocsAssumption DEF WalkInv
    <2>2. Len(walk.out) <= ImagesPerSource + 1
      BY <2>1, ImagesPerSourceAssumption DEF Walked
    <2>3. ASSUME at = Len(RootChildren), walk.res = "ok"
          PROVE  Len(walk.out) = IF Len(Images) > ImagesPerSource THEN ImagesPerSource + 1
                                 ELSE Len(Images)
      <3>1. Len(walk.out) = Least(Len(Images), ImagesPerSource + 1)
        BY <2>1, <2>3, FoundAll DEF Counts
      <3>2. Len(RootChildren) \in Nat
        BY <2>1 DEF RootChildren, Children, ConformingDoc
      <3>3. Images \in Seq(DOMAIN doc.nodes)
        BY <2>1, <3>2, FoundAll, FoundSoFar DEF RootChildren
      <3>4. Len(Images) \in Nat
        BY <3>3
      <3> QED  BY <3>1, <3>4, ImagesPerSourceAssumption DEF Least
    <2> QED  BY <2>2, <2>3 DEF OnePastTheCap
  <1> QED  BY <1>1, WalkInvariance, PTL

\* An occurrence of the walk that has a plan has it from its document.
LEMMA DecodableIsPlanned ==
    ASSUME WalkInv, NEW k \in Decodable
    PROVE  Planned(walk.out[k])
  <1>1. PICK S : AllPlanned(S) /\ walk.out \in Seq(S)
    BY DEF WalkInv, Walked
  <1>2. k \in DOMAIN walk.out /\ walk.out[k].plan # None
    BY DEF Decodable
  <1>3. walk.out[k] \in S
    BY <1>1, <1>2
  <1> QED  BY <1>1, <1>2, <1>3 DEF AllPlanned

\* The granularity a header promises is the path its block takes: the two are decided apart, by
\* granularity of image.rs and is_streamable of decoder.rs, and agree on every plan.
THEOREM GranularityAlwaysMatches == Spec => []GranularityMatchesThePath
  <1>1. WalkInv => GranularityMatchesThePath
    <2> SUFFICES ASSUME WalkInv, NEW k \in Decodable
                 PROVE  LET plan     == walk.out[k].plan
                            promised == walk.out[k].header.granularity IN
                        /\ promised.floor # "WholeImage" <=> IsStreamable(plan)
                        /\ promised.floor = "Rows" /\ plan.compression # None =>
                              ~HoldsWholeSubblocks(plan.compression.codec, plan.subblocks,
                                                   StoredSize(plan.location, plan.materialized),
                                                   plan.implied_bytes, Reading)
                        /\ promised.floor = "Block" => promised.subblocks = PairCount(plan)
      BY DEF GranularityMatchesThePath
    <2> DEFINE p == walk.out[k].plan
               promised == walk.out[k].header.granularity
               immune == p.checksum # None \/ (p.compression # None /\ p.compression.shuffled)
    <2>1. /\ Placed(p) /\ p.reading = Reading
          /\ promised = GranularityOf(p.location, p.compression, p.subblocks, p.checksum,
                                      HeldWhole(p), FALSE)
      BY DecodableIsPlanned DEF Planned
    <2> HIDE DEF p, promised
    <2>2. p.location # None /\ p.location.mode \in {"attachment", "embedded"}
      BY <2>1, PlacesRead
    <2>3. CASE p.location.mode = "embedded"
      <3>1. promised.floor = "WholeImage" /\ ~IsStreamable(p)
        BY <2>1, <2>2, <2>3 DEF GranularityOf, WholeImageFloor, Floor, IsStreamable
      <3> QED  BY <3>1 DEF p, promised
    <2>4. CASE p.location.mode = "attachment"
      <3>1. IsStreamable(p) <=> ~immune /\ (HeldWhole(p) => p.subblocks # None)
        BY <2>4 DEF IsStreamable, HeldWhole
      <3>2. promised = IF ~immune /\ ~HeldWhole(p) THEN Floor("Rows", 0)
                       ELSE IF p.subblocks # None /\ ~immune THEN Floor("Block", Len(p.subblocks))
                       ELSE WholeImageFloor
        BY <2>1, <2>4 DEF GranularityOf
      <3>3. p.compression # None =>
               (HeldWhole(p) <=> HoldsWholeSubblocks(p.compression.codec, p.subblocks,
                                                     StoredSize(p.location, p.materialized),
                                                     p.implied_bytes, Reading))
        BY <2>1 DEF HeldWhole
      <3> HIDE DEF immune
      <3>4. CASE ~immune /\ ~HeldWhole(p)
        BY <3>1, <3>2, <3>3, <3>4 DEF Floor, p, promised
      <3>5. CASE ~(~immune /\ ~HeldWhole(p)) /\ p.subblocks # None /\ ~immune
        <4>1. promised.floor = "Block" /\ promised.subblocks = PairCount(p)
          BY <3>2, <3>5 DEF Floor, PairCount
        <4> QED  BY <3>1, <3>5, <4>1 DEF p, promised
      <3>6. CASE ~(~immune /\ ~HeldWhole(p)) /\ ~(p.subblocks # None /\ ~immune)
        <4>1. promised.floor = "WholeImage"
          BY <3>2, <3>6 DEF Floor, WholeImageFloor
        <4> QED  BY <3>1, <3>6, <4>1 DEF p, promised
      <3> QED  BY <3>4, <3>5, <3>6
    <2> QED  BY <2>2, <2>3, <2>4 DEF p, promised
  <1> QED  BY <1>1, WalkInvariance, PTL

-----------------------------------------------------------------------------
(* The sums of a split block.                                              *)

\* The true sum of the n-th lengths of a list of pairs.
TotalStep(n, sum, pair) == sum + pair[n]
TotalClaim(n, k, sum) == sum \in Nat
Totals == INSTANCE Folding WITH Step <- TotalStep, Claim <- TotalClaim
TotalOf(list, n) == Totals!Fold(n, 0, list)

\* The running sums of check_subblock_sums over a list, beside the true ones.
CheckStep(list, sums, pair) ==
    <<CheckedAdd(sums[1], pair[1]), CheckedAdd(sums[2], pair[2])>>
CheckClaim(list, k, sums) ==
    \A n \in {1, 2} : sums[n] # None => /\ sums[n] \in Nat
                                        /\ sums[n] = TotalOf(Totals!Prefix(list, k), n)
Checks == INSTANCE Folding WITH Step <- CheckStep, Claim <- CheckClaim

\* A total over pairs grows by the pair added.
LEMMA TotalsGrow ==
    ASSUME NEW list \in Seq(Nat \X Nat), NEW k \in 1 .. Len(list), NEW n \in {1, 2}
    PROVE  /\ TotalOf(Totals!Prefix(list, 0), n) = 0
           /\ TotalOf(Totals!Prefix(list, k), n) = TotalOf(Totals!Prefix(list, k - 1), n) + list[k][n]
  <1> DEFINE first == Totals!Prefix(list, k)
  <1>1. DOMAIN Totals!Prefix(list, 0) = {}
    BY DEF Totals!Prefix
  <1>2. TotalOf(Totals!Prefix(list, 0), n) = 0
    BY <1>1, Totals!FoldOfNone DEF TotalOf
  <1>3. k - 1 \in Nat /\ (k - 1) + 1 = k
    OBVIOUS
  <1>4. DOMAIN first = 1 .. (k - 1) + 1 /\ first[(k - 1) + 1] = list[k]
    BY <1>3 DEF Totals!Prefix
  <1>5. Totals!Prefix(first, k - 1) = Totals!Prefix(list, k - 1)
    BY <1>3 DEF Totals!Prefix
  <1> HIDE DEF first
  <1>6. Totals!Fold(n, 0, first)
            = TotalStep(n, Totals!Fold(n, 0, Totals!Prefix(first, k - 1)), first[(k - 1) + 1])
    BY <1>3, <1>4, Totals!FoldOfOneMore
  <1> QED  BY <1>2, <1>4, <1>5, <1>6 DEF TotalOf, TotalStep, first

\* Sums that were found right are the true ones, whatever would have overflowed on the way.
LEMMA SumsAreTrue ==
    ASSUME NEW list \in Seq(Nat \X Nat), NEW one \in Nat, NEW two \in Nat,
           SumsOf(list) = <<one, two>>
    PROVE  TotalOf(list, 1) = one /\ TotalOf(list, 2) = two
  <1> DEFINE sums == Checks!Fold(list, <<0, 0>>, list)
             m == Len(list)
  <1>1. SumsOf(list) = sums
    BY Zenon DEF SumsOf, CheckStep, FoldLeft, MapThenFoldSet, Max,
         Checks!Fold, Checks!Iterates, Checks!Largest
  <1>2. m \in Nat /\ DOMAIN list = 1 .. m
    OBVIOUS
  <1>3. CheckClaim(list, 0, <<0, 0>>)
    <2>1. \A n \in {1, 2} : TotalOf(Totals!Prefix(list, 0), n) = 0
      <3>1. DOMAIN Totals!Prefix(list, 0) = {}
        BY DEF Totals!Prefix
      <3> QED  BY <3>1, Totals!FoldOfNone DEF TotalOf
    <2> QED  BY <2>1 DEF CheckClaim
  <1>4. ASSUME NEW k \in 1 .. m, NEW s, CheckClaim(list, k - 1, s)
        PROVE  CheckClaim(list, k, CheckStep(list, s, list[k]))
    <2> DEFINE t == CheckStep(list, s, list[k])
    <2>1. t[1] = CheckedAdd(s[1], list[k][1]) /\ t[2] = CheckedAdd(s[2], list[k][2])
      BY DEF CheckStep
    <2>2. list[k][1] \in Nat /\ list[k][2] \in Nat
      OBVIOUS
    <2> HIDE DEF t
    <2>3. ASSUME NEW n \in {1, 2}, t[n] # None
          PROVE  t[n] \in Nat /\ t[n] = TotalOf(Totals!Prefix(list, k), n)
      <3>1. t[n] = CheckedAdd(s[n], list[k][n])
        BY <2>1, <2>3
      <3>2. s[n] # None /\ t[n] = s[n] + list[k][n]
        BY <2>3, <3>1 DEF CheckedAdd, Fit
      <3>3. s[n] \in Nat /\ s[n] = TotalOf(Totals!Prefix(list, k - 1), n)
        BY <1>4, <2>3, <3>2 DEF CheckClaim
      <3>4. TotalOf(Totals!Prefix(list, k), n) = TotalOf(Totals!Prefix(list, k - 1), n) + list[k][n]
        BY <2>3, TotalsGrow
      <3> QED  BY <2>2, <2>3, <3>2, <3>3, <3>4
    <2> QED  BY <2>3 DEF CheckClaim, t
  <1> HIDE DEF m
  <1>5. CheckClaim(list, m, sums)
    <2> HIDE DEF sums
    <2>1. CheckClaim(list, m, Checks!Fold(list, <<0, 0>>, list))
      BY <1>2, <1>3, <1>4, Checks!FoldKeeps
    <2> QED  BY <2>1 DEF sums
  <1>6. Totals!Prefix(list, m) = list
    BY <1>2 DEF Totals!Prefix
  <1> HIDE DEF sums
  <1>7. sums[1] = one /\ sums[2] = two /\ one # None /\ two # None
    BY <1>1, NoneAssumption
  <1> QED  BY <1>5, <1>6, <1>7 DEF CheckClaim

\* The pairs of a split block tile its stored bytes and the image, in true sums, whatever u64
\* could have wrapped (check_subblock_sums of block.rs).
THEOREM PairsAlwaysTile == Spec => []PairsTileTheBlock
  <1>1. WalkInv => PairsTileTheBlock
    <2> SUFFICES ASSUME WalkInv, NEW k \in Decodable, walk.out[k].plan.subblocks # None
                 PROVE  LET plan     == walk.out[k].plan
                            Total(n) == FoldLeft(LAMBDA sum, pair : sum + pair[n], 0,
                                                 plan.subblocks) IN
                        /\ Total(1) = StoredSize(plan.location, plan.materialized)
                        /\ Total(2) = plan.implied_bytes
                        /\ Len(plan.subblocks) <= XisfLimits.subblock_count
      BY DEF PairsTileTheBlock
    <2> DEFINE p == walk.out[k].plan
               stored == StoredSize(p.location, p.materialized)
    <2>1. Placed(p) /\ PackedAs(p) /\ p.implied_bytes \in U
      BY DecodableIsPlanned DEF Planned
    <2>2. /\ p.subblocks \in Seq(U \X U) /\ Len(p.subblocks) <= XisfLimits.subblock_count
          /\ SumsOf(p.subblocks) = <<stored, p.implied_bytes>>
      BY <2>1 DEF PackedAs
    <2>3. stored \in Nat
      BY <2>1, StoredSizeReads
    <2>4. p.subblocks \in Seq(Nat \X Nat) /\ p.implied_bytes \in Nat
      BY <2>1, <2>2, MaxUAssumption DEF U
    <2> HIDE DEF stored
    <2>5. TotalOf(p.subblocks, 1) = stored /\ TotalOf(p.subblocks, 2) = p.implied_bytes
      BY <2>2, <2>3, <2>4, SumsAreTrue
    <2>6. /\ TotalOf(p.subblocks, 1) = FoldLeft(LAMBDA sum, pair : sum + pair[1], 0, p.subblocks)
          /\ TotalOf(p.subblocks, 2) = FoldLeft(LAMBDA sum, pair : sum + pair[2], 0, p.subblocks)
      BY Zenon DEF TotalOf, TotalStep, FoldLeft, MapThenFoldSet, Max,
           Totals!Fold, Totals!Iterates, Totals!Largest
    <2>7. /\ FoldLeft(LAMBDA sum, pair : sum + pair[1], 0, p.subblocks) = stored
          /\ FoldLeft(LAMBDA sum, pair : sum + pair[2], 0, p.subblocks) = p.implied_bytes
      BY <2>5, <2>6, Zenon
    <2> QED  BY <2>2, <2>7, Zenon DEF stored
  <1> QED  BY <1>1, WalkInvariance, PTL

-----------------------------------------------------------------------------
(* Chains, and what the memo may know of them.                             *)

\* n positions after this one.
Positions(from, n) == [k \in 1 .. n |-> from + k]

\* The text of a chain: each continuation takes the place of the & before it.
JoinStep(raw, text, i) == Front(text) \o Unquote(raw[i].value.content)
JoinClaim(raw, k, text) == TRUE
Joins == INSTANCE Folding WITH Step <- JoinStep, Claim <- JoinClaim

\* The comment of a chain: the last that is not empty.
SaidStep(raw, said, i) == IF raw[i].comment = "" THEN said ELSE raw[i].comment
SaidClaim(raw, k, said) == TRUE
Saids == INSTANCE Folding WITH Step <- SaidStep, Claim <- SaidClaim
SaidOf(raw, from, n) == Saids!Fold(raw, None, Positions(from, n))

\* What is said past a record is what was said before it, unless it says more.
LEMMA SaidGrows ==
    ASSUME NEW raw, NEW from \in Nat, NEW n \in Nat
    PROVE  /\ SaidOf(raw, from, 0) = None
           /\ SaidOf(raw, from, n + 1) = SaidStep(raw, SaidOf(raw, from, n), from + n + 1)
  <1>1. DOMAIN Positions(from, 0) = {}
    BY DEF Positions
  <1>2. SaidOf(raw, from, 0) = None
    BY <1>1, Saids!FoldOfNone DEF SaidOf
  <1>3. /\ DOMAIN Positions(from, n + 1) = 1 .. n + 1
        /\ Positions(from, n + 1)[n + 1] = from + n + 1
        /\ Saids!Prefix(Positions(from, n + 1), n) = Positions(from, n)
    BY DEF Positions, Saids!Prefix
  <1>4. Saids!Fold(raw, None, Positions(from, n + 1))
          = SaidStep(raw, Saids!Fold(raw, None, Positions(from, n)), from + n + 1)
    BY <1>3, Saids!FoldOfOneMore
  <1> QED  BY <1>2, <1>4 DEF SaidOf

\* n records after one position of one and of another list of records say alike.
SayAlike(one, two, from, at0, n) ==
    \A k \in 1 .. n : /\ one[from + k].comment = two[at0 + k].comment
                      /\ one[from + k].value.content = two[at0 + k].value.content

\* The comments of alike records are one.
LEMMA SaidAlike ==
    ASSUME NEW one, NEW two, NEW from, NEW at0, NEW n \in Nat, SayAlike(one, two, from, at0, n)
    PROVE  SaidOf(one, from, n) = SaidOf(two, at0, n)
  <1>1. DOMAIN Positions(from, n) = 1 .. n /\ DOMAIN Positions(at0, n) = 1 .. n
    BY DEF Positions
  <1>2. \A k \in 1 .. n : \A s : SaidStep(one, s, Positions(from, n)[k])
                                   = SaidStep(two, s, Positions(at0, n)[k])
    BY DEF SayAlike, SaidStep, Positions
  <1> QED  BY <1>1, <1>2, Saids!FoldsAlike DEF SaidOf

\* The keyword assembled of a chain is a function of its opener and of what follows says.
LEMMA AssembledAlike ==
    ASSUME NEW one, NEW two, NEW opener, NEW c, NEW d, NEW n \in Nat,
           c.last - c.opener = n, d.last - d.opener = n, c.comment = d.comment,
           one[c.opener].comment = two[d.opener].comment,
           SayAlike(one, two, c.opener, d.opener, n)
    PROVE  Assemble(one, opener, c) = Assemble(two, opener, d)
  <1> DEFINE Text(raw, chain) ==
                 FoldLeft(LAMBDA t, i : Front(t) \o Unquote(raw[i].value.content), opener.value,
                          [k \in 1 .. chain.last - chain.opener |-> chain.opener + k])
  <1>1. /\ Text(one, c) = Joins!Fold(one, opener.value, Positions(c.opener, c.last - c.opener))
        /\ Text(two, d) = Joins!Fold(two, opener.value, Positions(d.opener, d.last - d.opener))
    BY Zenon DEF JoinStep, FoldLeft, MapThenFoldSet, Max, Positions,
       Joins!Fold, Joins!Iterates, Joins!Largest
  <1>2. DOMAIN Positions(c.opener, n) = 1 .. n /\ DOMAIN Positions(d.opener, n) = 1 .. n
    BY DEF Positions
  <1>3. \A k \in 1 .. n : \A s : JoinStep(one, s, Positions(c.opener, n)[k])
                                   = JoinStep(two, s, Positions(d.opener, n)[k])
    BY DEF SayAlike, JoinStep, Positions
  <1>4. Joins!Fold(one, opener.value, Positions(c.opener, n))
          = Joins!Fold(two, opener.value, Positions(d.opener, n))
    BY <1>2, <1>3, Joins!FoldsAlike
  <1>5. /\ Assemble(one, opener, c) =
             [opener EXCEPT !.value = Text(one, c),
                            !.comment = IF c.comment = None THEN one[c.opener].comment
                                        ELSE c.comment]
        /\ Assemble(two, opener, d) =
             [opener EXCEPT !.value = Text(two, d),
                            !.comment = IF d.comment = None THEN two[d.opener].comment
                                        ELSE d.comment]
    BY Zenon DEF Assemble
  <1> HIDE DEF Text
  <1>6. Text(one, c) = Text(two, d)
    BY <1>1, <1>4
  <1> QED  BY <1>5, <1>6

-----------------------------------------------------------------------------
(* The memo.                                                               *)

\* A memo that is right about a key reads it, and is as right about any other as it was.
LEMMA MemoTells ==
    ASSUME NEW map, NEW key, NEW referenced, NEW read,
           referenced /\ key \in DOMAIN map => map[key] = read
    PROVE  LET m == Memoized(map, key, referenced, read) IN
           /\ m.value = read
           /\ \A x \in DOMAIN m.map : \/ x \in DOMAIN map /\ m.map[x] = map[x]
                                      \/ referenced /\ x = key /\ m.map[x] = read
  <1> DEFINE m == Memoized(map, key, referenced, read)
  <1>1. CASE ~referenced
    BY <1>1 DEF Memoized
  <1>2. CASE referenced /\ key \in DOMAIN map
    BY <1>2 DEF Memoized
  <1>3. CASE referenced /\ key \notin DOMAIN map
    BY <1>3 DEF Memoized, Remembering
  <1> QED  BY <1>1, <1>2, <1>3

-----------------------------------------------------------------------------
(* The fold, its records read without a memo.                              *)

\* A record as the fold reads it.
ReadAs(r) == IF r.name.word = "CONTINUE" THEN Orphan(r) ELSE ReadRecord(r)

IsRecord(r) ==
    r = [node |-> r.node, name |-> r.name, value |-> r.value, comment |-> r.comment,
         origin |-> r.origin]

\* The records, told apart by their places alone.
Bare(raw) == [i \in DOMAIN raw |-> [raw[i] EXCEPT !.node = None]]

Said(s) == [res |-> s.res, out |-> s.out, chain |-> s.chain]

Closed(raw, s) ==
    IF s.chain = None \/ s.chain.last = s.chain.opener THEN [s EXCEPT !.chain = None]
    ELSE [res |-> s.res, chain |-> None,
          out |-> [s.out EXCEPT ![s.chain.index] = Assemble(raw, s.out[s.chain.index], s.chain)]]

OpenedBy(s, r, i) ==
    LET text == ReadRecord(r).value IN
    IF ReadRecord(r).kind = "CharacterString" /\ TrailingAmps(text) > 0
    THEN [index |-> Len(s.out) + 1, opener |-> i, last |-> i, comment |-> None,
          len |-> Len(text), amps |-> TrailingAmps(text)]
    ELSE None

Turn(raw, s, i) ==
    LET r     == raw[i]
        grown == Grow(s.chain, r, i)
        broken == Closed(raw, s)
    IN  IF s.res # "ok" THEN s
        ELSE IF Continues(s, r)
        THEN IF grown.len > ValueBytes THEN [s EXCEPT !.res = "LimitExceeded"]
             ELSE IF grown.amps = 0 THEN Closed(raw, [s EXCEPT !.chain = grown])
             ELSE [s EXCEPT !.chain = grown]
        ELSE [broken EXCEPT !.out = Append(@, ReadAs(r)),
                            !.chain = IF r.name.word = "CONTINUE" THEN None ELSE OpenedBy(s, r, i)]

TurnClaim(raw, k, s) == TRUE
Turns == INSTANCE Folding WITH Step <- Turn, Claim <- TurnClaim
Start == [res |-> "ok", out |-> <<>>, chain |-> None]
After(raw, k) == Turns!Fold(raw, Start, Turns!Prefix([i \in DOMAIN raw |-> i], k))

\* The keywords the records fold into.
ReadWith(raw, n) ==
    LET s == After(raw, n) IN IF s.res = "ok" /\ s.chain # None THEN Closed(raw, s) ELSE s

-----------------------------------------------------------------------------
(* What a memo of keywords holds, and where a fold that consults it stands.*)

\* The records are those of the elements they were read from, whoever refers to them.
Faithful(rec, raw) ==
    \A i \in DOMAIN raw : /\ IsRecord(raw[i])
                          /\ rec[raw[i].node] = [raw[i] EXCEPT !.origin = "Reference"]

\* The chain the elements f, the first its opener, give on their own.
ChainOf(rec, f, n) ==
    LET raw == [k \in 1 .. n |-> rec[f[k]]] IN
    Assemble(raw, ReadRecord(raw[1]),
             [opener |-> 1, last |-> n, comment |-> SaidOf(raw, 1, n - 1)])

HonestWords(rec, words) == \A n \in DOMAIN words : words[n] = ReadAs(rec[n])
HonestChains(rec, chains) ==
    \A n \in Nat \ {0} : \A f :
        DOMAIN f = 1 .. n /\ <<"Reference", f>> \in DOMAIN chains
            => chains[<<"Reference", f>>] = ChainOf(rec, f, n)

IsCache(c) ==
    c = [keywords |-> c.keywords, chains |-> c.chains, properties |-> c.properties,
         cfa |-> c.cfa, resolution |-> c.resolution, display_function |-> c.display_function]
\* The rest of the memo is as it was.
Beside(c, d) ==
    /\ d.properties = c.properties /\ d.cfa = c.cfa /\ d.resolution = c.resolution
    /\ d.display_function = c.display_function

Honest(rec, c) == IsCache(c) /\ HonestWords(rec, c.keywords) /\ HonestChains(rec, c.chains)

IsFold(s) ==
    /\ s = [res |-> s.res, out |-> s.out, chain |-> s.chain, cache |-> s.cache]
    /\ \E S : s.out \in Seq(S)

\* An open chain ends at the last record read, and tells what it was opened with and has said.
Chained(raw, k, s) ==
    s.res = "ok" /\ s.chain # None =>
        LET c == s.chain IN
        /\ c = [index |-> c.index, opener |-> c.opener, last |-> c.last, comment |-> c.comment,
                len |-> c.len, amps |-> c.amps]
        /\ c.index \in 1 .. Len(s.out) /\ c.opener \in 1 .. k /\ c.last = k
        /\ s.out[c.index] = ReadRecord(raw[c.opener])
        /\ c.comment = SaidOf(raw, c.opener, k - c.opener)

\* A record told apart or not reads alike.
LEMMA BareReads ==
    ASSUME NEW raw, NEW i \in DOMAIN raw, IsRecord(raw[i])
    PROVE  LET b == Bare(raw)[i]
               r == raw[i] IN
           /\ b.name = r.name /\ b.value = r.value /\ b.comment = r.comment /\ b.origin = r.origin
           /\ ReadRecord(b) = ReadRecord(r) /\ Orphan(b) = Orphan(r) /\ ReadAs(b) = ReadAs(r)
  <1>1. Bare(raw)[i] = [node |-> None, name |-> raw[i].name, value |-> raw[i].value,
                        comment |-> raw[i].comment, origin |-> raw[i].origin]
    BY DEF Bare, IsRecord
  <1>2. /\ Bare(raw)[i].name = raw[i].name /\ Bare(raw)[i].value = raw[i].value
        /\ Bare(raw)[i].comment = raw[i].comment /\ Bare(raw)[i].origin = raw[i].origin
    BY <1>1
  <1>3. ReadRecord(Bare(raw)[i]) = ReadRecord(raw[i]) /\ Orphan(Bare(raw)[i]) = Orphan(raw[i])
    BY <1>2, Zenon DEF ReadRecord, Orphan, Hierarch
  <1> QED  BY <1>2, <1>3 DEF ReadAs

\* A record a Reference reached reads as its element does.
LEMMA ReferencedReads ==
    ASSUME NEW rec, NEW raw, Faithful(rec, raw), NEW i \in DOMAIN raw
    PROVE  /\ rec[raw[i].node].name = raw[i].name /\ rec[raw[i].node].value = raw[i].value
           /\ rec[raw[i].node].comment = raw[i].comment
           /\ Referenced(raw[i]) => /\ raw[i].origin = "Reference"
                                    /\ ReadRecord(rec[raw[i].node]) = ReadRecord(raw[i])
                                    /\ ReadAs(rec[raw[i].node]) = ReadAs(raw[i])
  <1>1. rec[raw[i].node] = [node |-> raw[i].node, name |-> raw[i].name, value |-> raw[i].value,
                            comment |-> raw[i].comment, origin |-> "Reference"]
    BY DEF Faithful, IsRecord
  <1>2. /\ rec[raw[i].node].name = raw[i].name /\ rec[raw[i].node].value = raw[i].value
        /\ rec[raw[i].node].comment = raw[i].comment /\ rec[raw[i].node].origin = "Reference"
    BY <1>1
  <1>3. ASSUME Referenced(raw[i])
        PROVE  /\ raw[i].origin = "Reference"
               /\ ReadRecord(rec[raw[i].node]) = ReadRecord(raw[i])
               /\ Orphan(rec[raw[i].node]) = Orphan(raw[i])
    <2>1. raw[i].origin = "Reference"
      BY <1>3 DEF Referenced
    <2> QED  BY <1>2, <2>1, Zenon DEF ReadRecord, Orphan, Hierarch
  <1> QED  BY <1>2, <1>3 DEF ReadAs

\* A chain whose opener a Reference reached is the one its elements give on their own.
LEMMA ChainIsItsElements ==
    ASSUME NEW rec, NEW raw, NEW len \in Nat, DOMAIN raw = 1 .. len, Faithful(rec, raw),
           NEW c, NEW n \in Nat, c.opener \in 1 .. len, c.last = c.opener + n, c.last \in 1 .. len,
           c.comment = SaidOf(raw, c.opener, n), Referenced(raw[c.opener]),
           NEW f, \A k \in 1 .. n + 1 : f[k] = raw[c.opener + k - 1].node
    PROVE  Assemble(raw, ReadRecord(raw[c.opener]), c) = ChainOf(rec, f, n + 1)
  <1> DEFINE seq == [k \in 1 .. n + 1 |-> rec[f[k]]]
             d == [opener |-> 1, last |-> n + 1, comment |-> SaidOf(seq, 1, n)]
  <1>1. ASSUME NEW k \in 1 .. n + 1
        PROVE  c.opener + k - 1 \in DOMAIN raw /\ seq[k] = rec[raw[c.opener + k - 1].node]
    OBVIOUS
  <1>2. SayAlike(raw, seq, c.opener, 1, n)
    <2> SUFFICES ASSUME NEW k \in 1 .. n
                 PROVE  /\ raw[c.opener + k].comment = seq[1 + k].comment
                        /\ raw[c.opener + k].value.content = seq[1 + k].value.content
      BY DEF SayAlike
    <2>1. 1 + k \in 1 .. n + 1 /\ c.opener + (1 + k) - 1 = c.opener + k
      OBVIOUS
    <2>2. c.opener + k \in DOMAIN raw /\ seq[1 + k] = rec[raw[c.opener + k].node]
      BY <1>1, <2>1
    <2> HIDE DEF seq
    <2>3. /\ rec[raw[c.opener + k].node].comment = raw[c.opener + k].comment
          /\ rec[raw[c.opener + k].node].value = raw[c.opener + k].value
      BY ONLY <2>2, ReferencedReads, Faithful(rec, raw)
    <2> QED  BY ONLY <2>2, <2>3
  <1>3. 1 \in 1 .. n + 1 /\ c.opener + 1 - 1 = c.opener /\ c.opener \in DOMAIN raw
    OBVIOUS
  <1>4. seq[1] = rec[raw[c.opener].node]
    BY <1>1, <1>3
  <1> HIDE DEF seq
  <1>5. SaidOf(raw, c.opener, n) = SaidOf(seq, 1, n)
    BY <1>2, SaidAlike
  <1>6. ReadRecord(seq[1]) = ReadRecord(raw[c.opener]) /\ raw[c.opener].comment = seq[1].comment
    BY <1>3, <1>4, ReferencedReads
  <1>7. d.opener = 1 /\ d.last - d.opener = n /\ d.comment = c.comment
    BY <1>5
  <1> HIDE DEF d
  <1>8. c.last - c.opener = n
    OBVIOUS
  <1>9. Assemble(raw, ReadRecord(raw[c.opener]), c) = Assemble(seq, ReadRecord(raw[c.opener]), d)
    BY <1>2, <1>6, <1>7, <1>8, AssembledAlike
  <1>10. (n + 1) - 1 = n
    OBVIOUS
  <1>11. ChainOf(rec, f, n + 1) = Assemble(seq, ReadRecord(seq[1]), d)
    BY <1>10 DEF ChainOf, seq, d
  <1> QED  BY <1>6, <1>9, <1>11

\* Closing a chain assembles it, whether the memo knows it or not, and the memo stays right.
LEMMA CloseReads ==
    ASSUME NEW rec, NEW raw, NEW len \in Nat, DOMAIN raw = 1 .. len, Faithful(rec, raw),
           NEW k \in 0 .. len, NEW s, IsFold(s), s.res = "ok", Chained(raw, k, s),
           Honest(rec, s.cache)
    PROVE  LET t == CloseChain(raw, s) IN
           /\ IsFold(t) /\ t.res = "ok" /\ t.chain = None
           /\ Said(t) = Closed(Bare(raw), Said(s)) /\ Len(t.out) = Len(s.out)
           /\ Honest(rec, t.cache) /\ Beside(s.cache, t.cache)
           /\ t.cache.keywords = s.cache.keywords
  <1> DEFINE t == CloseChain(raw, s)
             c == s.chain
  <1>1. /\ s = [res |-> s.res, out |-> s.out, chain |-> s.chain, cache |-> s.cache]
        /\ IsCache(s.cache)
    BY DEF IsFold, Honest
  <1>2. CASE c = None \/ c.last = c.opener
    <2>1. t = [s EXCEPT !.chain = None]
      BY <1>2 DEF CloseChain
    <2>2. /\ t = [res |-> s.res, out |-> s.out, chain |-> None, cache |-> s.cache]
          /\ Said(s) = [res |-> s.res, out |-> s.out, chain |-> s.chain]
      BY <1>1, <2>1 DEF Said
    <2>3. Closed(Bare(raw), Said(s)) = [Said(s) EXCEPT !.chain = None]
      BY <1>2, <2>2 DEF Closed
    <2>4. Said(t) = Closed(Bare(raw), Said(s))
      BY <2>2, <2>3 DEF Said
    <2> HIDE DEF t
    <2>5. t.res = s.res /\ t.out = s.out /\ t.chain = None /\ t.cache = s.cache
      BY <2>2
    <2>6. IsFold(t)
      <3>1. t = [res |-> t.res, out |-> t.out, chain |-> t.chain, cache |-> t.cache]
        BY <2>2
      <3>2. \E S : t.out \in Seq(S)
        BY <2>5 DEF IsFold
      <3> QED  BY <3>1, <3>2 DEF IsFold
    <2> QED  BY <2>4, <2>5, <2>6 DEF Beside, t
  <1>3. CASE ~ (c = None \/ c.last = c.opener)
    <2> DEFINE n == c.last - c.opener
               f == [j \in 1 .. n + 1 |-> raw[c.opener + j - 1].node]
               key == ChainKey(raw, c)
               built == Assemble(raw, s.out[c.index], c)
               m == Memoized(s.cache.chains, key, Referenced(raw[c.opener]), built)
    <2>1. /\ c.index \in 1 .. Len(s.out) /\ c.opener \in 1 .. k /\ c.last = k
          /\ s.out[c.index] = ReadRecord(raw[c.opener])
          /\ c.comment = SaidOf(raw, c.opener, k - c.opener)
      BY <1>3 DEF Chained
    <2>2. n \in Nat /\ c.opener \in 1 .. len /\ c.last = c.opener + n /\ c.last \in 1 .. len
      BY <2>1
    <2>3. key = <<raw[c.opener].origin, f>>
      BY DEF ChainKey
    <2>5. /\ DOMAIN f = 1 .. n + 1 /\ n + 1 \in Nat \ {0}
          /\ \A j \in 1 .. n + 1 : f[j] = raw[c.opener + j - 1].node
      BY <2>2
    <2>4. Referenced(raw[c.opener]) => built = ChainOf(rec, f, n + 1)
      <3> HIDE DEF n
      <3>1. c.comment = SaidOf(raw, c.opener, n) /\ s.out[c.index] = ReadRecord(raw[c.opener])
        BY <2>1 DEF n
      <3> HIDE DEF c, f, t, key, built, m
      <3>2. ASSUME Referenced(raw[c.opener])
            PROVE  Assemble(raw, ReadRecord(raw[c.opener]), c) = ChainOf(rec, f, n + 1)
        <4>1. /\ len \in Nat /\ DOMAIN raw = 1 .. len /\ Faithful(rec, raw)
              /\ n \in Nat /\ c.opener \in 1 .. len /\ c.last = c.opener + n /\ c.last \in 1 .. len
              /\ c.comment = SaidOf(raw, c.opener, n) /\ Referenced(raw[c.opener])
              /\ \A j \in 1 .. n + 1 : f[j] = raw[c.opener + j - 1].node
          BY <2>2, <2>5, <3>1, <3>2
        <4> QED  BY ONLY <4>1, ChainIsItsElements
      <3> QED  BY <3>1, <3>2 DEF built
    <2>6. Referenced(raw[c.opener]) => key = <<"Reference", f>>
      BY <2>3 DEF Referenced
    <2> HIDE DEF f, n, built, key
    <2>7. Referenced(raw[c.opener]) /\ key \in DOMAIN s.cache.chains => s.cache.chains[key] = built
      BY <2>4, <2>5, <2>6 DEF Honest, HonestChains
    <2>8. /\ m.value = built
          /\ \A x \in DOMAIN m.map :
                \/ x \in DOMAIN s.cache.chains /\ m.map[x] = s.cache.chains[x]
                \/ Referenced(raw[c.opener]) /\ x = key /\ m.map[x] = built
      BY <2>7, MemoTells
    <2> HIDE DEF m
    <2>9. HonestChains(rec, m.map)
      <3> SUFFICES ASSUME NEW l \in Nat \ {0}, NEW g, DOMAIN g = 1 .. l,
                          <<"Reference", g>> \in DOMAIN m.map
                   PROVE  m.map[<<"Reference", g>>] = ChainOf(rec, g, l)
        BY DEF HonestChains
      <3>1. CASE /\ <<"Reference", g>> \in DOMAIN s.cache.chains
                 /\ m.map[<<"Reference", g>>] = s.cache.chains[<<"Reference", g>>]
        BY <3>1 DEF Honest, HonestChains
      <3>2. CASE /\ Referenced(raw[c.opener]) /\ <<"Reference", g>> = key
                 /\ m.map[<<"Reference", g>>] = built
        <4>1. <<"Reference", g>> = <<"Reference", f>>
          BY <2>6, <3>2
        <4>2. g = f
          BY <4>1
        <4>3. 1 .. l = 1 .. n + 1
          BY <2>5, <4>2
        <4>4. l = n + 1
          <5>1. l \in 1 .. n + 1 /\ n + 1 \in 1 .. l
            BY <2>5, <4>3
          <5> QED  BY <2>5, <5>1
        <4> QED  BY <2>4, <3>2, <4>2, <4>4
      <3> QED  BY <2>8, <3>1, <3>2
    <2>10. Assemble(Bare(raw), s.out[c.index], c) = built
      <3>1. SayAlike(Bare(raw), raw, c.opener, c.opener, n)
        <4> SUFFICES ASSUME NEW j \in 1 .. n
                     PROVE  /\ Bare(raw)[c.opener + j].comment = raw[c.opener + j].comment
                            /\ Bare(raw)[c.opener + j].value.content
                                  = raw[c.opener + j].value.content
          BY DEF SayAlike
        <4>1. c.opener + j \in DOMAIN raw
          BY <2>2
        <4>2. IsRecord(raw[c.opener + j])
          BY <4>1 DEF Faithful
        <4> QED  BY <4>1, <4>2, BareReads
      <3>2. Bare(raw)[c.opener].comment = raw[c.opener].comment
        <4>1. c.opener \in DOMAIN raw /\ IsRecord(raw[c.opener])
          BY <2>2 DEF Faithful
        <4> QED  BY <4>1, BareReads
      <3>3. c.last - c.opener = n
        BY DEF n
      <3> HIDE DEF c
      <3> QED  BY <2>2, <3>1, <3>2, <3>3, AssembledAlike DEF built
    <2>11. t = [s EXCEPT !.chain = None, !.out[c.index] = m.value, !.cache.chains = m.map]
      BY <1>3, Zenon DEF CloseChain, m, built, key
    <2>12. t = [res |-> s.res, out |-> [s.out EXCEPT ![c.index] = built], chain |-> None,
                cache |-> [s.cache EXCEPT !.chains = m.map]]
      BY <1>1, <2>8, <2>11
    <2>13. Closed(Bare(raw), Said(s))
             = [res |-> s.res, out |-> [s.out EXCEPT ![c.index] = built], chain |-> None]
      <3>1. Said(s) = [res |-> s.res, out |-> s.out, chain |-> c]
        BY DEF Said
      <3>2. Said(s).chain = c /\ Said(s).out = s.out
        BY <3>1
      <3>3. Said(s).res = s.res
        BY <3>1
      <3> QED  BY <1>3, <2>10, <3>2, <3>3 DEF Closed
    <2> HIDE DEF t, c
    <2>14. Said(t) = Closed(Bare(raw), Said(s))
      BY <2>12, <2>13 DEF Said
    <2>15. /\ t.cache = [keywords |-> s.cache.keywords, chains |-> m.map,
                         properties |-> s.cache.properties, cfa |-> s.cache.cfa,
                         resolution |-> s.cache.resolution,
                         display_function |-> s.cache.display_function]
      BY <1>1, <2>12 DEF IsCache
    <2>16. Honest(rec, t.cache) /\ Beside(s.cache, t.cache) /\ t.cache.keywords = s.cache.keywords
      BY <2>9, <2>15 DEF Honest, IsCache, Beside
    <2>17. \E S : t.out \in Seq(S)
      <3>1. PICK S : s.out \in Seq(S)
        BY DEF IsFold
      <3>2. [s.out EXCEPT ![c.index] = built] \in Seq(S \cup {built})
        BY <2>1, <3>1
      <3> QED  BY <2>12, <3>2
    <2>18. Len(t.out) = Len(s.out)
      <3>1. PICK S : s.out \in Seq(S)
        BY DEF IsFold
      <3> QED  BY <2>12, <3>1
    <2>19. t.res = "ok" /\ t.chain = None /\ IsFold(t)
      <3>1. t = [res |-> t.res, out |-> t.out, chain |-> t.chain, cache |-> t.cache]
        BY <2>12
      <3>2. t.res = "ok" /\ t.chain = None
        BY <2>12
      <3> QED  BY <2>17, <3>1, <3>2 DEF IsFold
    <2> QED  BY <2>14, <2>16, <2>18, <2>19 DEF t
  <1> QED  BY <1>2, <1>3

\* A record is read as it stands, whether the memo knows its element or not.
LEMMA WordReads ==
    ASSUME NEW rec, NEW raw, Faithful(rec, raw), NEW i \in DOMAIN raw,
           NEW words, HonestWords(rec, words)
    PROVE  LET m == Memoized(words, raw[i].node, Referenced(raw[i]), ReadAs(raw[i])) IN
           m.value = ReadAs(raw[i]) /\ HonestWords(rec, m.map)
  <1> DEFINE m == Memoized(words, raw[i].node, Referenced(raw[i]), ReadAs(raw[i]))
  <1>1. Referenced(raw[i]) => ReadAs(rec[raw[i].node]) = ReadAs(raw[i])
    BY ReferencedReads
  <1>2. Referenced(raw[i]) /\ raw[i].node \in DOMAIN words => words[raw[i].node] = ReadAs(raw[i])
    BY <1>1 DEF HonestWords
  <1>3. /\ m.value = ReadAs(raw[i])
        /\ \A x \in DOMAIN m.map :
              \/ x \in DOMAIN words /\ m.map[x] = words[x]
              \/ Referenced(raw[i]) /\ x = raw[i].node /\ m.map[x] = ReadAs(raw[i])
    BY <1>2, MemoTells
  <1> HIDE DEF m
  <1>4. HonestWords(rec, m.map)
    BY <1>1, <1>3 DEF HonestWords
  <1> QED  BY <1>3, <1>4 DEF m

\* A keyword joins those read, and a chain is left open or not, or as it was.
JoinedWord(b, x, words) == [b EXCEPT !.out = Append(@, x), !.cache.keywords = words]
JoinedOpen(b, x, words, chain) ==
    [b EXCEPT !.out = Append(@, x), !.cache.keywords = words, !.chain = chain]

WellJoined(rec, b, x, chain, t) ==
    /\ IsFold(t) /\ Honest(rec, t.cache) /\ Beside(b.cache, t.cache)
    /\ Said(t) = [Said(b) EXCEPT !.out = Append(@, x), !.chain = chain]
    /\ t.res = b.res /\ t.chain = chain
    /\ Len(b.out) \in Nat /\ Len(t.out) = Len(b.out) + 1 /\ t.out[Len(b.out) + 1] = x

\* A keyword joins those read: the memo stays right, and so does what is said.
LEMMA WordJoins ==
    ASSUME NEW rec, NEW b, IsFold(b), Honest(rec, b.cache), NEW x, NEW chain,
           NEW words, HonestWords(rec, words),
           NEW t,
           t = JoinedOpen(b, x, words, chain) \/ (t = JoinedWord(b, x, words) /\ chain = b.chain)
    PROVE  WellJoined(rec, b, x, chain, t)
  <1> DEFINE Parts == {"res", "out", "chain", "cache"}
             one == [b EXCEPT !.out = Append(@, x), !.cache.keywords = words, !.chain = chain]
             two == [b EXCEPT !.out = Append(@, x), !.cache.keywords = words]
  <1>1. /\ b = [res |-> b.res, out |-> b.out, chain |-> b.chain, cache |-> b.cache]
        /\ IsCache(b.cache)
    BY DEF IsFold, Honest
  <1>2. b = [p \in Parts |-> b[p]]
    BY ONLY <1>1
  <1>3. /\ one.res = b.res /\ one.out = Append(b.out, x) /\ one.chain = chain
        /\ one.cache = [b.cache EXCEPT !.keywords = words]
        /\ one = [p \in Parts |-> one[p]]
    <2>1. /\ one.res = b.res /\ one.out = Append(b.out, x) /\ one.chain = chain
          /\ one.cache = [b.cache EXCEPT !.keywords = words]
      BY ONLY <1>2
    <2>2. one = [p \in Parts |-> one[p]]
      BY ONLY <1>2
    <2> QED  BY <2>1, <2>2
  <1>4. /\ two.res = b.res /\ two.out = Append(b.out, x) /\ two.chain = b.chain
        /\ two.cache = [b.cache EXCEPT !.keywords = words]
        /\ two = [p \in Parts |-> two[p]]
    <2>1. /\ two.res = b.res /\ two.out = Append(b.out, x) /\ two.chain = b.chain
          /\ two.cache = [b.cache EXCEPT !.keywords = words]
      BY ONLY <1>2
    <2>2. two = [p \in Parts |-> two[p]]
      BY ONLY <1>2
    <2> QED  BY <2>1, <2>2
  <1>5. t = one \/ (t = two /\ chain = b.chain)
    BY Zenon DEF JoinedWord, JoinedOpen
  <1> HIDE DEF one, two
  <1>6. /\ t.res = b.res /\ t.out = Append(b.out, x) /\ t.chain = chain
        /\ t.cache = [b.cache EXCEPT !.keywords = words]
        /\ t = [p \in Parts |-> t[p]]
    BY ONLY <1>3, <1>4, <1>5
  <1>7. t = [res |-> t.res, out |-> t.out, chain |-> t.chain, cache |-> t.cache]
    BY ONLY <1>6
  <1>8. t.cache = [keywords |-> words, chains |-> b.cache.chains,
                   properties |-> b.cache.properties, cfa |-> b.cache.cfa,
                   resolution |-> b.cache.resolution,
                   display_function |-> b.cache.display_function]
    BY ONLY <1>1, <1>6 DEF IsCache
  <1>9. Honest(rec, t.cache) /\ Beside(b.cache, t.cache)
    BY <1>8 DEF Honest, IsCache, Beside
  <1>10. PICK S : b.out \in Seq(S)
    BY DEF IsFold
  <1>11. /\ t.out \in Seq(S \cup {x}) /\ Len(b.out) \in Nat
         /\ Len(t.out) = Len(b.out) + 1 /\ t.out[Len(b.out) + 1] = x
    BY ONLY <1>6, <1>10
  <1>12. IsFold(t)
    BY ONLY <1>7, <1>11 DEF IsFold
  <1>13. Said(t) = [Said(b) EXCEPT !.out = Append(@, x), !.chain = chain]
    <2> DEFINE w == Said(b)
               v == [w EXCEPT !.out = Append(@, x), !.chain = chain]
    <2>1. w = [res |-> b.res, out |-> b.out, chain |-> b.chain]
      BY DEF Said
    <2>2. w = [p \in {"res", "out", "chain"} |-> w[p]]
      BY ONLY <2>1
    <2>3. v.res = w.res /\ v.out = Append(w.out, x) /\ v.chain = chain
      BY ONLY <2>2
    <2>4. v = [p \in {"res", "out", "chain"} |-> v[p]]
      BY ONLY <2>2
    <2>5. w.res = b.res /\ w.out = b.out
      BY ONLY <2>1
    <2> HIDE DEF v, w
    <2>6. v = Said(t)
      BY ONLY <1>6, <2>3, <2>4, <2>5 DEF Said
    <2> QED  BY <2>6 DEF v, w
  <1> QED  BY <1>6, <1>9, <1>11, <1>12, <1>13 DEF WellJoined

\* A continuation grows its chain by what it says.
LEMMA ContinuationJoins ==
    ASSUME NEW rec, NEW raw, NEW len \in Nat, DOMAIN raw = 1 .. len, NEW i \in 1 .. len,
           NEW s, IsFold(s), s.res = "ok", s.chain # None, Chained(raw, i - 1, s),
           NEW grown, grown = Grow(s.chain, raw[i], i), Honest(rec, s.cache)
    PROVE  LET u == [s EXCEPT !.chain = grown] IN
           /\ IsFold(u) /\ u.res = "ok" /\ Chained(raw, i, u) /\ u.cache = s.cache
           /\ Said(u) = [Said(s) EXCEPT !.chain = grown]
  <1> DEFINE u == [s EXCEPT !.chain = grown]
             c == s.chain
  <1>1. /\ c = [index |-> c.index, opener |-> c.opener, last |-> c.last, comment |-> c.comment,
                len |-> c.len, amps |-> c.amps]
        /\ c.index \in 1 .. Len(s.out) /\ c.opener \in 1 .. i - 1
        /\ s.out[c.index] = ReadRecord(raw[c.opener])
        /\ c.comment = SaidOf(raw, c.opener, i - 1 - c.opener)
    BY DEF Chained
  <1>2. /\ s = [res |-> s.res, out |-> s.out, chain |-> s.chain, cache |-> s.cache]
    BY DEF IsFold
  <1>3. u = [res |-> "ok", out |-> s.out, chain |-> grown, cache |-> s.cache]
    BY <1>2
  <1>4. PICK l, a : grown = [index |-> c.index, opener |-> c.opener, last |-> i,
                             comment |-> IF raw[i].comment = "" THEN c.comment ELSE raw[i].comment,
                             len |-> l, amps |-> a]
    <2> DEFINE shape == UnquotedShape(raw[i].value.content)
               l == c.len - 1 + shape.len
               a == IF shape.len = shape.amps THEN c.amps - 1 + shape.len ELSE shape.amps
               said == IF raw[i].comment = "" THEN c.comment ELSE raw[i].comment
    <2>1. grown = [c EXCEPT !.len = l, !.amps = a, !.last = i, !.comment = said]
      BY Zenon DEF Grow
    <2> HIDE DEF l, a, said, c
    <2>2. grown = [index |-> c.index, opener |-> c.opener, last |-> i, comment |-> said,
                   len |-> l, amps |-> a]
      BY <1>1, <2>1
    <2> QED  BY <2>2 DEF said, c
  <1> DEFINE n == i - 1 - c.opener
  <1>5. n \in Nat /\ i - c.opener = n + 1 /\ c.opener + n + 1 = i /\ c.opener \in Nat
    BY <1>1
  <1> HIDE DEF u, c
  <1>6. grown.comment = SaidOf(raw, c.opener, i - c.opener)
    <2>1. SaidOf(raw, c.opener, n + 1) = SaidStep(raw, SaidOf(raw, c.opener, n), c.opener + n + 1)
      BY <1>5, SaidGrows
    <2>2. SaidOf(raw, c.opener, i - c.opener) = SaidStep(raw, c.comment, i)
      BY <1>1, <1>5, <2>1
    <2>3. grown.comment = IF raw[i].comment = "" THEN c.comment ELSE raw[i].comment
      BY ONLY <1>4
    <2> QED  BY <2>2, <2>3 DEF SaidStep
  <1>7. /\ grown = [index |-> grown.index, opener |-> grown.opener, last |-> grown.last,
                    comment |-> grown.comment, len |-> grown.len, amps |-> grown.amps]
        /\ grown.index = c.index /\ grown.opener = c.opener /\ grown.last = i
    BY ONLY <1>4
  <1>8. u.res = "ok" /\ u.out = s.out /\ u.chain = grown /\ u.cache = s.cache
    BY <1>3
  <1>9. Chained(raw, i, u)
    BY <1>1, <1>6, <1>7, <1>8 DEF Chained
  <1>10. IsFold(u)
    <2>1. \E S : u.out \in Seq(S)
      BY <1>8 DEF IsFold
    <2>2. u = [res |-> u.res, out |-> u.out, chain |-> u.chain, cache |-> u.cache]
      BY <1>3
    <2> QED  BY <2>1, <2>2 DEF IsFold
  <1>11. Said(u) = [Said(s) EXCEPT !.chain = grown]
    <2>1. Said(s) = [res |-> "ok", out |-> s.out, chain |-> s.chain]
      BY DEF Said
    <2> QED  BY <1>8, <2>1 DEF Said
  <1> QED  BY <1>8, <1>9, <1>10, <1>11 DEF u

\* One turn of the fold reads its record as a turn without a memo does, and leaves the memo right.
LEMMA TurnReads ==
    ASSUME NEW rec, NEW raw, NEW len \in Nat, DOMAIN raw = 1 .. len, Faithful(rec, raw),
           NEW i \in 1 .. len, NEW s, IsFold(s), Chained(raw, i - 1, s), Honest(rec, s.cache)
    PROVE  LET t == FoldRecord(raw, ValueBytes, s, i) IN
           /\ IsFold(t) /\ Chained(raw, i, t) /\ Honest(rec, t.cache) /\ Beside(s.cache, t.cache)
           /\ Said(t) = Turn(Bare(raw), Said(s), i)
  <1> DEFINE t == FoldRecord(raw, ValueBytes, s, i)
             bare == Bare(raw)
             r == raw[i]
             b == bare[i]
             grown == Grow(s.chain, r, i)
             broken == CloseChain(raw, s)
             plain == Memoized(s.cache.keywords, r.node, Referenced(r), ReadRecord(r))
             orphan == Memoized(s.cache.keywords, r.node, Referenced(r), Orphan(r))
  <1>1. /\ i \in DOMAIN raw /\ IsRecord(r)
    BY DEF Faithful
  <1>2. /\ b.name = r.name /\ b.value = r.value /\ b.comment = r.comment
        /\ ReadRecord(b) = ReadRecord(r) /\ ReadAs(b) = ReadAs(r)
    BY <1>1, BareReads
  <1>3. Said(s).res = s.res /\ Said(s).out = s.out /\ Said(s).chain = s.chain
    BY DEF Said
  <1>4. Grow(Said(s).chain, b, i) = grown /\ (Continues(Said(s), b) <=> Continues(s, r))
        /\ OpenedBy(Said(s), b, i) = OpenedBy(s, r, i)
    BY <1>2, <1>3, Zenon DEF Grow, Continues, OpenedBy
  <1>5. i - 1 \in 0 .. len
    OBVIOUS
  <1>6. CASE s.res # "ok"
    <2>1. t = s
      BY <1>6, Zenon DEF FoldRecord
    <2>2. Turn(bare, Said(s), i) = Said(s)
      BY <1>3, <1>6, Zenon DEF Turn
    <2> HIDE DEF t
    <2> QED  BY <1>6, <2>1, <2>2 DEF Chained, Beside, t
  <1>7. CASE s.res = "ok" /\ Continues(s, r)
    <2> DEFINE u == [s EXCEPT !.chain = grown]
    <2>1. s.chain # None
      BY <1>7 DEF Continues
    <2>2. /\ IsFold(u) /\ u.res = "ok" /\ Chained(raw, i, u) /\ u.cache = s.cache
          /\ Said(u) = [Said(s) EXCEPT !.chain = grown]
      BY <1>7, <2>1, ContinuationJoins
    <2> HIDE DEF grown
    <2>3. CASE grown.len > ValueBytes
      <3>1. t = [s EXCEPT !.res = "LimitExceeded"]
        BY <1>7, <2>3, Zenon DEF FoldRecord, grown
      <3>2. Turn(bare, Said(s), i) = [Said(s) EXCEPT !.res = "LimitExceeded"]
        BY <1>3, <1>4, <1>7, <2>3, Zenon DEF Turn
      <3>3. s = [res |-> s.res, out |-> s.out, chain |-> s.chain, cache |-> s.cache]
        BY DEF IsFold
      <3> HIDE DEF t
      <3>4. t = [res |-> "LimitExceeded", out |-> s.out, chain |-> s.chain, cache |-> s.cache]
        BY ONLY <3>1, <3>3
      <3>5. /\ t.res = "LimitExceeded" /\ t.out = s.out /\ t.cache = s.cache /\ t.chain = s.chain
            /\ t = [res |-> t.res, out |-> t.out, chain |-> t.chain, cache |-> t.cache]
        BY ONLY <3>4
      <3>6. Said(t) = Turn(bare, Said(s), i)
        <4>1. Said(s) = [res |-> s.res, out |-> s.out, chain |-> s.chain]
          BY DEF Said
        <4> QED  BY ONLY <3>2, <3>5, <4>1 DEF Said
      <3>7. IsFold(t)
        BY <3>5 DEF IsFold
      <3> QED  BY <3>5, <3>6, <3>7 DEF Chained, Beside, t
    <2>4. CASE ~ (grown.len > ValueBytes) /\ grown.amps = 0
      <3>1. t = CloseChain(raw, u)
        BY <1>7, <2>4, Zenon DEF FoldRecord, grown
      <3>2. Turn(bare, Said(s), i) = Closed(bare, Said(u))
        BY <1>3, <1>4, <1>7, <2>2, <2>4, Zenon DEF Turn
      <3>3. i \in 0 .. len
        OBVIOUS
      <3> HIDE DEF u, t
      <3>4. /\ IsFold(t) /\ t.res = "ok" /\ t.chain = None /\ Said(t) = Closed(bare, Said(u))
            /\ Honest(rec, t.cache) /\ Beside(u.cache, t.cache)
        BY <2>2, <3>1, <3>3, CloseReads
      <3> QED  BY <2>2, <3>2, <3>4 DEF Chained, t
    <2>5. CASE ~ (grown.len > ValueBytes) /\ grown.amps # 0
      <3>1. t = u
        BY <1>7, <2>5, Zenon DEF FoldRecord, grown
      <3>2. Turn(bare, Said(s), i) = Said(u)
        BY <1>3, <1>4, <1>7, <2>2, <2>5, Zenon DEF Turn
      <3> HIDE DEF u, t
      <3> QED  BY <2>2, <3>1, <3>2 DEF Beside, t
    <2> QED  BY <2>3, <2>4, <2>5
  <1>8. CASE s.res = "ok" /\ ~ Continues(s, r)
    <2>1. /\ IsFold(broken) /\ broken.res = "ok" /\ broken.chain = None
          /\ Said(broken) = Closed(bare, Said(s)) /\ Len(broken.out) = Len(s.out)
          /\ Honest(rec, broken.cache) /\ Beside(s.cache, broken.cache)
          /\ broken.cache.keywords = s.cache.keywords
      BY <1>5, <1>8, CloseReads
    <2> DEFINE chain == IF r.name.word = "CONTINUE" THEN None ELSE OpenedBy(s, r, i)
               m == Memoized(s.cache.keywords, r.node, Referenced(r), ReadAs(r))
    <2>2. m.value = ReadAs(r) /\ HonestWords(rec, m.map)
      BY <1>1, WordReads DEF Honest
    <2>3. \/ t = JoinedOpen(broken, ReadAs(r), m.map, chain)
          \/ t = JoinedWord(broken, ReadAs(r), m.map) /\ chain = broken.chain
      <3>1. CASE r.name.word = "CONTINUE"
        <4>1. ReadAs(r) = Orphan(r) /\ chain = broken.chain
          BY <2>1, <3>1 DEF ReadAs
        <4>2. t = [broken EXCEPT !.out = Append(@, orphan.value), !.cache.keywords = orphan.map]
          BY <1>8, <3>1, Zenon DEF FoldRecord
        <4> QED  BY <2>2, <4>1, <4>2, Zenon DEF JoinedWord
      <3>2. CASE r.name.word # "CONTINUE"
        <4>1. ReadAs(r) = ReadRecord(r) /\ chain = OpenedBy(s, r, i)
          BY <3>2 DEF ReadAs
        <4>2. plain = m /\ plain.value = ReadRecord(r)
          BY <2>2, <4>1
        <4>3. t = [broken EXCEPT !.out = Append(@, plain.value), !.cache.keywords = plain.map,
                       !.chain = IF ~ (/\ plain.value.kind = "CharacterString"
                                       /\ TrailingAmps(plain.value.value) > 0) THEN None
                                 ELSE [index |-> Len(s.out) + 1, opener |-> i, last |-> i,
                                       comment |-> None, len |-> Len(plain.value.value),
                                       amps |-> TrailingAmps(plain.value.value)]]
          BY <1>8, <3>2, Zenon DEF FoldRecord
        <4>4. t = JoinedOpen(broken, ReadAs(r), m.map, chain)
          <5> HIDE DEF t, plain, broken, m
          <5> QED  BY <4>1, <4>2, <4>3, Zenon DEF OpenedBy, JoinedOpen
        <4> QED  BY <4>4
      <3> QED  BY <3>1, <3>2
    <2> HIDE DEF t, broken, m, chain
    <2>4. /\ IsFold(t) /\ Honest(rec, t.cache) /\ Beside(broken.cache, t.cache)
          /\ Said(t) = [Said(broken) EXCEPT !.out = Append(@, ReadAs(r)), !.chain = chain]
          /\ t.res = "ok" /\ t.chain = chain
          /\ Len(s.out) \in Nat /\ Len(t.out) = Len(s.out) + 1 /\ t.out[Len(s.out) + 1] = ReadAs(r)
      <3>1. WellJoined(rec, broken, ReadAs(r), chain, t)
        BY <2>1, <2>2, <2>3, WordJoins
      <3> QED  BY <2>1, <3>1 DEF WellJoined
    <2>5. Turn(bare, Said(s), i)
             = [Closed(bare, Said(s)) EXCEPT !.out = Append(@, ReadAs(r)), !.chain = chain]
      BY <1>2, <1>3, <1>4, <1>8, Zenon DEF Turn, chain
    <2>6. Said(t) = Turn(bare, Said(s), i)
      BY <2>1, <2>4, <2>5, Zenon
    <2>7. Beside(s.cache, t.cache)
      BY <2>1, <2>4 DEF Beside
    <2>8. Chained(raw, i, t)
      <3> SUFFICES ASSUME t.chain # None PROVE Chained(raw, i, t)
        BY DEF Chained
      <3>1. r.name.word # "CONTINUE" /\ t.chain = OpenedBy(s, r, i)
        BY <2>4 DEF chain
      <3>2. ReadAs(r) = ReadRecord(r)
        BY <3>1 DEF ReadAs
      <3>3. PICK l, a : t.chain = [index |-> Len(s.out) + 1, opener |-> i, last |-> i,
                                   comment |-> None, len |-> l, amps |-> a]
        BY <3>1, Zenon DEF OpenedBy
      <3>4. /\ t.chain = [index |-> t.chain.index, opener |-> t.chain.opener,
                          last |-> t.chain.last, comment |-> t.chain.comment,
                          len |-> t.chain.len, amps |-> t.chain.amps]
            /\ t.chain.index = Len(s.out) + 1 /\ t.chain.opener = i /\ t.chain.last = i
            /\ t.chain.comment = None
        BY ONLY <3>3
      <3>5. t.chain.index \in 1 .. Len(t.out) /\ t.out[t.chain.index] = ReadRecord(r)
        BY <2>4, <3>2, <3>4
      <3>6. SaidOf(raw, i, 0) = None /\ i - i = 0
        BY SaidGrows
      <3> QED  BY <3>4, <3>5, <3>6 DEF Chained
    <2> QED  BY <2>4, <2>6, <2>7, <2>8 DEF t
  <1> QED  BY <1>6, <1>7, <1>8

-----------------------------------------------------------------------------
(* The whole fold.                                                         *)

MemoStep(raw, s, i) == FoldRecord(raw, ValueBytes, s, i)
MemoClaim(e, k, s) ==
    /\ IsFold(s) /\ Chained(e.raw, k, s) /\ Honest(e.rec, s.cache) /\ Beside(e.cache, s.cache)
    /\ Said(s) = After(Bare(e.raw), k)
Memos == INSTANCE Folding WITH Step <- MemoStep, Claim <- MemoClaim

\* The empty memo is right, of anything.
LEMMA NothingIsHonest == \A rec : Honest(rec, EmptyCache)
  <1> SUFFICES ASSUME NEW rec PROVE Honest(rec, EmptyCache)
    OBVIOUS
  <1> DEFINE c == EmptyCache
  <1>1. c = [keywords |-> <<>>, chains |-> <<>>, properties |-> <<>>,
             cfa |-> <<>>, resolution |-> <<>>, display_function |-> <<>>]
    BY DEF EmptyCache
  <1>2. c.keywords = <<>> /\ c.chains = <<>> /\ IsCache(c)
    BY <1>1 DEF IsCache
  <1>3. DOMAIN c.keywords = {} /\ DOMAIN c.chains = {}
    BY <1>2
  <1> HIDE DEF c
  <1> QED  BY <1>2, <1>3 DEF Honest, HonestWords, HonestChains, c

\* The turns over one record more.
LEMMA TurnsGrow ==
    ASSUME NEW raw, NEW len \in Nat, DOMAIN raw = 1 .. len, NEW k \in 1 .. len
    PROVE  After(raw, 0) = Start /\ After(raw, k) = Turn(raw, After(raw, k - 1), k)
  <1> DEFINE all == [i \in DOMAIN raw |-> i]
  <1>1. k \in Nat \ {0} /\ all[k] = k
    OBVIOUS
  <1> HIDE DEF all
  <1>2. Turns!Fold(raw, Start, Turns!Prefix(all, k))
          = Turn(raw, Turns!Fold(raw, Start, Turns!Prefix(all, k - 1)), all[k])
    BY <1>1, Turns!FoldOfFirst
  <1>3. Turns!Fold(raw, Start, Turns!Prefix(all, 0)) = Start
    BY Turns!FoldOfNoneFirst
  <1> QED  BY <1>1, <1>2, <1>3 DEF After, all

\* Folding records with a memo that is right reads them as they read without one, and leaves it
\* right; nothing else that is remembered is touched.
LEMMA FoldReads ==
    ASSUME NEW rec, NEW raw, NEW len \in Nat, DOMAIN raw = 1 .. len, Faithful(rec, raw),
           NEW cache, Honest(rec, cache)
    PROVE  LET f == FoldRecords(raw, ValueBytes, cache) IN
           /\ f.res = ReadWith(Bare(raw), len).res /\ f.out = ReadWith(Bare(raw), len).out
           /\ Honest(rec, f.cache) /\ Beside(cache, f.cache)
  <1> DEFINE e == [raw |-> raw, rec |-> rec, cache |-> cache]
             all == [i \in DOMAIN raw |-> i]
             s == FoldLeft(LAMBDA t, i : FoldRecord(raw, ValueBytes, t, i), FoldStart(cache), all)
             f == FoldRecords(raw, ValueBytes, cache)
             bare == Bare(raw)
  <1>1. e.raw = raw /\ e.rec = rec /\ e.cache = cache
    OBVIOUS
  <1>2. s = Memos!Fold(raw, FoldStart(cache), all)
    BY Zenon DEF MemoStep, FoldLeft, MapThenFoldSet, Max,
       Memos!Fold, Memos!Iterates, Memos!Largest
  <1>3. DOMAIN all = 1 .. len /\ \A i \in 1 .. len : all[i] = i
    OBVIOUS
  <1>4. DOMAIN bare = 1 .. len
    BY DEF Bare
  <1>5. After(bare, 0) = Start
    <2>1. DOMAIN Turns!Prefix([i \in DOMAIN bare |-> i], 0) = {}
      BY DEF Turns!Prefix
    <2> QED  BY <2>1, Turns!FoldOfNone DEF After
  <1> HIDE DEF e, all
  <1>6. MemoClaim(e, 0, FoldStart(cache))
    <2> DEFINE t == FoldStart(cache)
    <2>1. t = [res |-> "ok", out |-> <<>>, chain |-> None, cache |-> cache]
      BY DEF FoldStart
    <2>2. /\ t.res = "ok" /\ t.out = <<>> /\ t.chain = None /\ t.cache = cache
          /\ t = [res |-> t.res, out |-> t.out, chain |-> t.chain, cache |-> t.cache]
      BY ONLY <2>1
    <2> HIDE DEF t
    <2>3. IsFold(t)
      <3>1. t.out \in Seq({})
        BY <2>2
      <3> QED  BY <2>2, <3>1 DEF IsFold
    <2>4. Said(t) = After(bare, 0)
      BY <1>5, <2>2 DEF Said, Start
    <2> QED  BY <1>1, <2>2, <2>3, <2>4 DEF MemoClaim, Chained, Beside, t
  <1>7. ASSUME NEW i \in 1 .. len, NEW t, MemoClaim(e, i - 1, t)
        PROVE  MemoClaim(e, i, MemoStep(raw, t, all[i]))
    <2> DEFINE u == FoldRecord(raw, ValueBytes, t, i)
    <2>1. /\ IsFold(t) /\ Chained(raw, i - 1, t) /\ Honest(rec, t.cache) /\ Beside(cache, t.cache)
          /\ Said(t) = After(bare, i - 1)
      BY <1>1, <1>7 DEF MemoClaim
    <2>2. /\ IsFold(u) /\ Chained(raw, i, u) /\ Honest(rec, u.cache) /\ Beside(t.cache, u.cache)
          /\ Said(u) = Turn(bare, Said(t), i)
      BY <2>1, TurnReads
    <2> HIDE DEF u
    <2>3. After(bare, i) = Turn(bare, After(bare, i - 1), i)
      BY <1>4, TurnsGrow
    <2>4. Beside(cache, u.cache)
      BY <2>1, <2>2 DEF Beside
    <2>5. MemoStep(raw, t, all[i]) = u
      BY <1>3 DEF MemoStep, u
    <2> QED  BY <1>1, <2>1, <2>2, <2>3, <2>4, <2>5 DEF MemoClaim
  <1>8. MemoClaim(e, len, s)
    <2> HIDE DEF s
    <2>1. MemoClaim(e, len, Memos!Fold(raw, FoldStart(cache), all))
      BY <1>3, <1>6, <1>7, Memos!FoldMaintains
    <2> QED  BY <1>2, <2>1
  <1>9. f = FoldEnd(raw, s)
    BY Zenon DEF FoldRecords, all
  <1> HIDE DEF s, f, bare
  <1>10. /\ IsFold(s) /\ Chained(raw, len, s) /\ Honest(rec, s.cache) /\ Beside(cache, s.cache)
         /\ Said(s) = After(bare, len)
    BY <1>1, <1>8 DEF MemoClaim, bare
  <1>11. Said(s).res = s.res /\ Said(s).out = s.out /\ Said(s).chain = s.chain
    BY DEF Said
  <1>12. CASE s.res = "ok" /\ s.chain # None
    <2>1. f = CloseChain(raw, s)
      BY <1>9, <1>12 DEF FoldEnd
    <2>2. len \in 0 .. len
      OBVIOUS
    <2>3. /\ Said(f) = Closed(bare, Said(s)) /\ Honest(rec, f.cache) /\ Beside(s.cache, f.cache)
      BY <1>10, <1>12, <2>1, <2>2, CloseReads DEF bare
    <2>4. ReadWith(bare, len) = Said(f)
      BY <1>10, <1>11, <1>12, <2>3 DEF ReadWith
    <2>5. Said(f).res = f.res /\ Said(f).out = f.out
      BY DEF Said
    <2>6. Beside(cache, f.cache)
      BY <1>10, <2>3 DEF Beside
    <2> QED  BY <2>3, <2>4, <2>5, <2>6 DEF f, bare
  <1>13. CASE ~ (s.res = "ok" /\ s.chain # None)
    <2>1. f = s
      BY <1>9, <1>13 DEF FoldEnd
    <2>2. ReadWith(bare, len) = Said(s)
      BY <1>10, <1>11, <1>13 DEF ReadWith
    <2> QED  BY <1>10, <1>11, <2>1, <2>2 DEF f, bare
  <1> QED  BY <1>12, <1>13

\* A memo that is right is invisible: the same records under keys of their own, read with no
\* memo, fold alike.
LEMMA FoldsAsAlone ==
    ASSUME NEW rec, NEW raw, NEW len \in Nat, DOMAIN raw = 1 .. len, Faithful(rec, raw),
           NEW cache, Honest(rec, cache)
    PROVE  LET f == FoldRecords(raw, ValueBytes, cache)
               g == FoldRecords(Unshared(raw), ValueBytes, EmptyCache) IN
           /\ f.res = g.res /\ f.out = g.out /\ Honest(rec, f.cache) /\ Beside(cache, f.cache)
  <1> DEFINE own == Unshared(raw)
             of == [i \in DOMAIN raw |-> [own[i] EXCEPT !.origin = "Reference"]]
  <1>1. DOMAIN own = 1 .. len
    BY DEF Unshared
  <1>2. ASSUME NEW i \in DOMAIN raw
        PROVE  /\ own[i] = [node |-> i, name |-> raw[i].name, value |-> raw[i].value,
                            comment |-> raw[i].comment, origin |-> raw[i].origin]
               /\ Bare(raw)[i] = [node |-> None, name |-> raw[i].name, value |-> raw[i].value,
                                  comment |-> raw[i].comment, origin |-> raw[i].origin]
    <2>1. raw[i] = [node |-> raw[i].node, name |-> raw[i].name, value |-> raw[i].value,
                    comment |-> raw[i].comment, origin |-> raw[i].origin]
      BY DEF Faithful, IsRecord
    <2>2. own[i] = [raw[i] EXCEPT !.node = i]
      BY DEF Unshared
    <2>3. Bare(raw)[i] = [raw[i] EXCEPT !.node = None]
      BY DEF Bare
    <2> HIDE DEF own
    <2>4. own[i] = [node |-> i, name |-> raw[i].name, value |-> raw[i].value,
                    comment |-> raw[i].comment, origin |-> raw[i].origin]
      BY ONLY <2>1, <2>2, SMTT(30)
    <2>5. Bare(raw)[i] = [node |-> None, name |-> raw[i].name, value |-> raw[i].value,
                          comment |-> raw[i].comment, origin |-> raw[i].origin]
      BY ONLY <2>1, <2>3, SMTT(30)
    <2> QED  BY <2>4, <2>5
  <1> HIDE DEF own
  <1>3. Faithful(of, own)
    <2> SUFFICES ASSUME NEW i \in DOMAIN own
                 PROVE  IsRecord(own[i]) /\ of[own[i].node] = [own[i] EXCEPT !.origin = "Reference"]
      BY DEF Faithful
    <2>1. i \in DOMAIN raw
      BY <1>1
    <2>2. own[i] = [node |-> i, name |-> raw[i].name, value |-> raw[i].value,
                    comment |-> raw[i].comment, origin |-> raw[i].origin]
      BY <1>2, <2>1
    <2>3. own[i].node = i /\ IsRecord(own[i])
      BY ONLY <2>2 DEF IsRecord
    <2> QED  BY <2>1, <2>3
  <1>4. Bare(own) = Bare(raw)
    <2>1. DOMAIN own = DOMAIN raw
      BY <1>1
    <2>2. ASSUME NEW i \in DOMAIN raw
          PROVE  [own[i] EXCEPT !.node = None] = [raw[i] EXCEPT !.node = None]
      <3>1. own[i] = [node |-> i, name |-> raw[i].name, value |-> raw[i].value,
                      comment |-> raw[i].comment, origin |-> raw[i].origin]
        BY <1>2
      <3>2. [own[i] EXCEPT !.node = None]
              = [node |-> None, name |-> raw[i].name, value |-> raw[i].value,
                 comment |-> raw[i].comment, origin |-> raw[i].origin]
        BY ONLY <3>1, SMTT(30)
      <3>3. Bare(raw)[i] = [raw[i] EXCEPT !.node = None]
        BY DEF Bare
      <3> QED  BY <1>2, <3>2, <3>3
    <2> QED  BY <2>1, <2>2 DEF Bare
  <1>5. Honest(of, EmptyCache)
    BY NothingIsHonest
  <1> HIDE DEF of
  <1>6. LET f == FoldRecords(raw, ValueBytes, cache) IN
        /\ f.res = ReadWith(Bare(raw), len).res /\ f.out = ReadWith(Bare(raw), len).out
        /\ Honest(rec, f.cache) /\ Beside(cache, f.cache)
    BY FoldReads
  <1>7. LET g == FoldRecords(own, ValueBytes, EmptyCache) IN
        g.res = ReadWith(Bare(own), len).res /\ g.out = ReadWith(Bare(own), len).out
    BY <1>1, <1>3, <1>5, FoldReads
  <1> QED  BY <1>4, <1>6, <1>7 DEF own

-----------------------------------------------------------------------------
(* What the memo of a document may hold.                                   *)

\* The keywords of a document, as a Reference gives them.
RecordsIn(d) == [n \in DOMAIN d.nodes |-> RawKeyword(d, n, TRUE)]

\* The ancillary elements, of which an image has the first of each.
Kinds == {"cfa", "resolution", "display_function"}
ElementOf(kind) ==
    IF kind = "cfa" THEN "ColorFilterArray"
    ELSE IF kind = "resolution" THEN "Resolution" ELSE "DisplayFunction"
ReadOf(d, kind, n) ==
    IF kind = "cfa" THEN ReadCfa(d, n)
    ELSE IF kind = "resolution" THEN ReadResolution(d, n) ELSE ReadDisplayFunction(d, n)

\* What was read of an element is what the element says.
HonestRest(d, c) ==
    /\ \A key \in DOMAIN c.properties : \A n, scope :
          key = <<n, scope>> => c.properties[key] = ReadProperty(d, n, scope)
    /\ \A kind \in Kinds : \A n \in DOMAIN c[kind] : c[kind][n] = ReadOf(d, kind, n)
HonestOf(d, c) == Honest(RecordsIn(d), c) /\ HonestRest(d, c)

\* Fields, the memo's and those of what an image collects.
CacheFields == {"keywords", "chains", "properties", "cfa", "resolution", "display_function"}
GotFields == {"keywords", "properties", "cfa", "resolution", "display_function"}
IsGot(g) == g = [p \in GotFields |-> g[p]]

\* A memo is a function of its fields.
LEMMA CacheIsFunction ==
    ASSUME NEW c
    PROVE  IsCache(c) <=> c = [p \in CacheFields |-> c[p]]
  <1>1. [p \in CacheFields |-> c[p]]
          = [keywords |-> c.keywords, chains |-> c.chains, properties |-> c.properties,
             cfa |-> c.cfa, resolution |-> c.resolution, display_function |-> c.display_function]
    BY DEF CacheFields
  <1> QED  BY <1>1 DEF IsCache

\* The empty memo is right of any document.
LEMMA NothingIsHonestOf == \A d : HonestOf(d, EmptyCache)
  <1> SUFFICES ASSUME NEW d PROVE HonestOf(d, EmptyCache)
    OBVIOUS
  <1> DEFINE c == EmptyCache
  <1>1. c = [keywords |-> <<>>, chains |-> <<>>, properties |-> <<>>,
             cfa |-> <<>>, resolution |-> <<>>, display_function |-> <<>>]
    BY DEF EmptyCache
  <1>2. DOMAIN c.properties = {} /\ \A kind \in Kinds : DOMAIN c[kind] = {}
    BY <1>1 DEF Kinds
  <1>3. Honest(RecordsIn(d), c)
    BY NothingIsHonest
  <1> HIDE DEF c
  <1> QED  BY <1>2, <1>3 DEF HonestOf, HonestRest, c

\* A memo that differs from a right one in a single field is right when that field is.
LEMMA RememberingProperties ==
    ASSUME NEW d, NEW c, HonestOf(d, c), NEW map,
           \A key \in DOMAIN map : \A n, scope :
              key = <<n, scope>> => map[key] = ReadProperty(d, n, scope)
    PROVE  HonestOf(d, [c EXCEPT !.properties = map])
  <1> DEFINE b == [c EXCEPT !.properties = map]
  <1>1. c = [p \in CacheFields |-> c[p]]
    BY CacheIsFunction DEF HonestOf, Honest
  <1>2. /\ b = [p \in CacheFields |-> b[p]] /\ b.properties = map
        /\ \A p \in CacheFields \ {"properties"} : b[p] = c[p]
    BY ONLY <1>1 DEF CacheFields
  <1> HIDE DEF b
  <1>3. IsCache(b) /\ b.keywords = c.keywords /\ b.chains = c.chains
    BY <1>2, CacheIsFunction DEF CacheFields
  <1>4. Honest(RecordsIn(d), b)
    BY <1>3 DEF HonestOf, Honest
  <1>5. \A kind \in Kinds : b[kind] = c[kind]
    BY <1>2 DEF CacheFields, Kinds
  <1> QED  BY <1>2, <1>4, <1>5 DEF HonestOf, HonestRest, b

\* The same, of a kind of ancillary element.
LEMMA RememberingAncillary ==
    ASSUME NEW d, NEW c, HonestOf(d, c), NEW kind \in Kinds, NEW map,
           \A n \in DOMAIN map : map[n] = ReadOf(d, kind, n)
    PROVE  HonestOf(d, [c EXCEPT ![kind] = map])
  <1> DEFINE b == [c EXCEPT ![kind] = map]
  <1>1. c = [p \in CacheFields |-> c[p]]
    BY CacheIsFunction DEF HonestOf, Honest
  <1>2. /\ b = [p \in CacheFields |-> b[p]] /\ b[kind] = map
        /\ \A p \in CacheFields \ {kind} : b[p] = c[p]
    BY ONLY <1>1, kind \in Kinds DEF CacheFields, Kinds
  <1> HIDE DEF b
  <1>3. IsCache(b) /\ b.keywords = c.keywords /\ b.chains = c.chains /\ b.properties = c.properties
    BY <1>2, CacheIsFunction DEF CacheFields, Kinds
  <1>4. Honest(RecordsIn(d), b)
    BY <1>3 DEF HonestOf, Honest
  <1>5. \A other \in Kinds : other = kind \/ b[other] = c[other]
    BY <1>2 DEF CacheFields, Kinds
  <1> QED  BY <1>2, <1>3, <1>4, <1>5 DEF HonestOf, HonestRest, b

-----------------------------------------------------------------------------
(* The children collected, against the children read.                      *)

\* A child stands for an element of this kind.
Stands(d, c, name) == Target(d, c) # None /\ NameOf(d, Target(d, c)) = name

RecordStep(d, all, c) ==
    IF Stands(d, c, "FITSKeyword") /\ Attr(d, Target(d, c), "name") # None
    THEN Append(all, RawKeyword(d, Target(d, c), IsReferenced(d, c))) ELSE all
WellRecorded(d, r) ==
    /\ IsRecord(r) /\ r.node \in DOMAIN d.nodes
    /\ RecordsIn(d)[r.node] = [r EXCEPT !.origin = "Reference"]
RecordClaim(d, k, all) == \E S : all \in Seq(S) /\ \A r \in S : WellRecorded(d, r)
Recording == INSTANCE Folding WITH Step <- RecordStep, Claim <- RecordClaim

OwnStep(d, all, c) ==
    IF Stands(d, c, "Property") /\ ReadProperty(d, Target(d, c), "Image") # None
    THEN Append(all, <<c, ReadProperty(d, Target(d, c), "Image")>>) ELSE all
\* Properties picked of some children: each beside the child that stands for it, in their order.
PickClaim(e, k, all) ==
    /\ \E S : all \in Seq(S)
    /\ \A x \in DOMAIN all : \E j \in 1 .. k : /\ all[x][1] = e.kids[j]
                                              /\ Stands(e.doc, e.kids[j], "Property")
    /\ \A x, y \in DOMAIN all : x < y => all[x][1] < all[y][1]
Owning == INSTANCE Folding WITH Step <- OwnStep, Claim <- PickClaim

\* What the first child of a kind among the first k reads as, None without one.
FirstAmong(d, kids, k, kind) == {i \in 1 .. k : Stands(d, kids[i], ElementOf(kind))}
FirstIn(d, kids, k, kind) ==
    LET all == FirstAmong(d, kids, k, kind) IN
    IF all = {} THEN None ELSE ReadOf(d, kind, Target(d, kids[Min(all)]))

\* Ancillary elements read as something.
Telling(d) ==
    \A kind \in Kinds : \A n \in DOMAIN d.nodes :
        NameOf(d, n) = ElementOf(kind) => ReadOf(d, kind, n) # None

\* What is first stays first.
LEMMA FirstGrows ==
    ASSUME NEW d, NEW kids \in Seq(DOMAIN d.nodes), ConformingDoc(d), Telling(d),
           NEW kind \in Kinds, NEW k \in 1 .. Len(kids)
    PROVE  /\ FirstIn(d, kids, 0, kind) = None
           /\ FirstIn(d, kids, k, kind) =
                 IF FirstIn(d, kids, k - 1, kind) # None THEN FirstIn(d, kids, k - 1, kind)
                 ELSE IF Stands(d, kids[k], ElementOf(kind))
                      THEN ReadOf(d, kind, Target(d, kids[k])) ELSE None
  <1> DEFINE S(m) == FirstAmong(d, kids, m, kind)
  <1>1. S(0) = {}
    BY DEF FirstAmong
  <1>2. S(k) = S(k - 1) \cup (IF Stands(d, kids[k], ElementOf(kind)) THEN {k} ELSE {})
    BY DEF FirstAmong
  <1>3. /\ S(k - 1) \in SUBSET Nat /\ S(k) \in SUBSET Nat /\ \A i \in S(k - 1) : i < k
        /\ \A i \in S(k) : i \in 1 .. Len(kids) /\ Stands(d, kids[i], ElementOf(kind))
        /\ S(k - 1) \subseteq S(k)
    BY <1>2 DEF FirstAmong
  <1>4. ASSUME NEW i \in S(k)
        PROVE  ReadOf(d, kind, Target(d, kids[i])) # None
    <2>1. i \in 1 .. Len(kids) /\ kids[i] \in DOMAIN d.nodes /\ Stands(d, kids[i], ElementOf(kind))
      BY <1>3
    <2>2. Target(d, kids[i]) \in DOMAIN d.nodes
      BY <2>1, TargetsAreElements DEF Stands
    <2> QED  BY <2>1, <2>2 DEF Telling, Stands
  <1> HIDE DEF S
  <1>5. CASE S(k - 1) # {}
    <2>1. S(k) # {}
      BY <1>3, <1>5
    <2>2. /\ Min(S(k - 1)) \in S(k - 1) /\ \A m \in S(k - 1) : Min(S(k - 1)) <= m
          /\ Min(S(k)) \in S(k) /\ \A m \in S(k) : Min(S(k)) <= m
      BY <1>3, <1>5, <2>1, MinOf
    <2>3. Min(S(k)) = Min(S(k - 1))
      <3> DEFINE a == Min(S(k))
                 b == Min(S(k - 1))
      <3>1. a \in S(k) /\ b \in S(k - 1) /\ a \in Nat /\ b \in Nat /\ a <= b /\ b < k
        BY <1>3, <2>2
      <3>2. a # k
        BY <3>1
      <3>3. a \in S(k - 1)
        BY <1>2, <3>1, <3>2
      <3>4. b <= a
        BY <2>2, <3>3
      <3> HIDE DEF a, b
      <3>5. a = b
        BY <3>1, <3>4
      <3> QED  BY <3>5 DEF a, b
    <2>4. FirstIn(d, kids, k, kind) = FirstIn(d, kids, k - 1, kind)
      BY <1>5, <2>1, <2>3, Zenon DEF FirstIn, S
    <2>5. FirstIn(d, kids, k - 1, kind) # None
      <3>1. FirstIn(d, kids, k - 1, kind) = ReadOf(d, kind, Target(d, kids[Min(S(k - 1))]))
        BY <1>5, Zenon DEF FirstIn, S
      <3> QED  BY <1>3, <1>4, <2>2, <3>1
    <2>6. FirstIn(d, kids, 0, kind) = None
      BY <1>1, Zenon DEF FirstIn, S
    <2> QED  BY <2>4, <2>5, <2>6
  <1>6. CASE S(k - 1) = {}
    <2>1. FirstIn(d, kids, 0, kind) = None /\ FirstIn(d, kids, k - 1, kind) = None
      BY <1>1, <1>6, Zenon DEF FirstIn, S
    <2>2. CASE Stands(d, kids[k], ElementOf(kind))
      <3>1. S(k) = {k}
        BY <1>2, <1>6, <2>2
      <3>2. Min(S(k)) = k /\ S(k) # {}
        BY <1>3, <3>1, MinOf
      <3>3. FirstIn(d, kids, k, kind) = ReadOf(d, kind, Target(d, kids[k]))
        BY <3>2, Zenon DEF FirstIn, S
      <3> QED  BY <2>1, <2>2, <3>3
    <2>3. CASE ~ Stands(d, kids[k], ElementOf(kind))
      <3>1. S(k) = {}
        BY <1>2, <1>6, <2>3
      <3>2. FirstIn(d, kids, k, kind) = None
        BY <3>1, Zenon DEF FirstIn, S
      <3> QED  BY <2>1, <2>3, <3>2
    <2> QED  BY <2>2, <2>3
  <1> QED  BY <1>5, <1>6

\* A turn under way: what was collected, and a memo that is right.
Collecting(d, s) ==
    s = [got |-> s.got, cache |-> s.cache] /\ IsGot(s.got) /\ HonestOf(d, s.cache)

\* The fields of what is collected, one replaced.
LEMMA GotField ==
    ASSUME NEW g, IsGot(g), NEW f \in GotFields, NEW x
    PROVE  LET h == [g EXCEPT ![f] = x] IN
           IsGot(h) /\ h[f] = x /\ \A p \in GotFields \ {f} : h[p] = g[p]
  BY DEF IsGot

\* The first element of a kind is collected, and none after it.
LEMMA AncillaryTurn ==
    ASSUME NEW d, NEW s, Collecting(d, s), NEW kind \in Kinds, NEW node, NEW referenced
    PROVE  LET t == CollectAncillary(kind, s, node, referenced, ReadOf(d, kind, node)) IN
           /\ Collecting(d, t)
           /\ t.got[kind] = IF s.got[kind] # None THEN s.got[kind] ELSE ReadOf(d, kind, node)
           /\ \A p \in GotFields \ {kind} : t.got[p] = s.got[p]
  <1> DEFINE read == ReadOf(d, kind, node)
             m == Memoized(s.cache[kind], node, referenced, read)
             t == CollectAncillary(kind, s, node, referenced, read)
             got == [s.got EXCEPT ![kind] = m.value]
             cache == [s.cache EXCEPT ![kind] = m.map]
  <1>1. CASE s.got[kind] # None
    <2>1. t = s
      BY <1>1, Zenon DEF CollectAncillary
    <2> QED  BY <1>1, <2>1
  <1>2. CASE s.got[kind] = None
    <2>1. \A n \in DOMAIN s.cache[kind] : s.cache[kind][n] = ReadOf(d, kind, n)
      BY DEF Collecting, HonestOf, HonestRest
    <2>2. /\ m.value = read
          /\ \A x \in DOMAIN m.map : \/ x \in DOMAIN s.cache[kind] /\ m.map[x] = s.cache[kind][x]
                                     \/ referenced /\ x = node /\ m.map[x] = read
      <3>1. referenced /\ node \in DOMAIN s.cache[kind] => s.cache[kind][node] = read
        BY <2>1
      <3> HIDE DEF read
      <3> QED  BY <3>1, MemoTells
    <2>3. \A x \in DOMAIN m.map : m.map[x] = ReadOf(d, kind, x)
      BY <2>1, <2>2
    <2>4. t = [s EXCEPT !.got[kind] = m.value, !.cache[kind] = m.map]
      BY <1>2, Zenon DEF CollectAncillary
    <2> HIDE DEF m, t, read
    <2>5. s = [got |-> s.got, cache |-> s.cache]
      BY DEF Collecting
    <2>6. t = [got |-> got, cache |-> cache]
      BY ONLY <2>4, <2>5
    <2>7. HonestOf(d, cache)
      BY <2>3, RememberingAncillary DEF Collecting
    <2>8. IsGot(got) /\ got[kind] = m.value /\ \A p \in GotFields \ {kind} : got[p] = s.got[p]
      BY GotField DEF Collecting, Kinds, GotFields
    <2> HIDE DEF got, cache
    <2>9. t.got = got /\ t.cache = cache
      BY <2>6
    <2>10. Collecting(d, t)
      BY <2>6, <2>7, <2>8, <2>9 DEF Collecting
    <2> QED  BY <1>2, <2>2, <2>8, <2>9, <2>10 DEF t, read
  <1> QED  BY <1>1, <1>2

\* A right memo reads a property, and stays right.
LEMMA PropertyMemo ==
    ASSUME NEW d, NEW c, HonestOf(d, c), NEW node, NEW scope, NEW referenced,
           NEW read, read = ReadProperty(d, node, scope),
           NEW m, m = Memoized(c.properties, PropertyKey(node, scope), referenced, read)
    PROVE  m.value = read /\ HonestOf(d, [c EXCEPT !.properties = m.map])
  <1> DEFINE key == PropertyKey(node, scope)
  <1>1. \A k \in DOMAIN c.properties : \A x, y :
           k = <<x, y>> => c.properties[k] = ReadProperty(d, x, y)
    BY DEF HonestOf, HonestRest
  <1>2. /\ m.value = read
        /\ \A x \in DOMAIN m.map : \/ x \in DOMAIN c.properties /\ m.map[x] = c.properties[x]
                                   \/ referenced /\ x = key /\ m.map[x] = read
    <2>1. referenced /\ key \in DOMAIN c.properties => c.properties[key] = read
      BY <1>1 DEF PropertyKey
    <2> HIDE DEF key
    <2> QED  BY <2>1, MemoTells DEF key
  <1>3. \A k \in DOMAIN m.map : \A x, y : k = <<x, y>> => m.map[k] = ReadProperty(d, x, y)
    <2> SUFFICES ASSUME NEW k \in DOMAIN m.map, NEW x, NEW y, k = <<x, y>>
                 PROVE  m.map[k] = ReadProperty(d, x, y)
      OBVIOUS
    <2>1. CASE k \in DOMAIN c.properties /\ m.map[k] = c.properties[k]
      BY <1>1, <2>1
    <2>2. CASE k = key /\ m.map[k] = read
      <3>1. x = node /\ y = scope
        BY <2>2 DEF PropertyKey
      <3> QED  BY <2>2, <3>1
    <2> QED  BY <1>2, <2>1, <2>2
  <1>4. HonestOf(d, [c EXCEPT !.properties = m.map])
    BY <1>3, RememberingProperties
  <1> QED  BY <1>2, <1>4

\* A property is collected, unless it is none.
LEMMA PropertyTurn ==
    ASSUME NEW d, NEW s, Collecting(d, s), NEW node, NEW referenced, NEW child,
           NEW read, read = ReadProperty(d, node, "Image"),
           NEW t, t = CollectProperty(s, child,
                          Memoized(s.cache.properties, PropertyKey(node, "Image"), referenced, read))
    PROVE  /\ Collecting(d, t)
           /\ t.got.properties = IF read = None THEN s.got.properties
                                 ELSE Append(s.got.properties, <<child, read>>)
           /\ \A p \in GotFields \ {"properties"} : t.got[p] = s.got[p]
  <1> DEFINE m == Memoized(s.cache.properties, PropertyKey(node, "Image"), referenced, read)
             all == IF read = None THEN s.got.properties ELSE Append(s.got.properties, <<child, read>>)
             got == [s.got EXCEPT !.properties = all]
             cache == [s.cache EXCEPT !.properties = m.map]
  <1>1. t = CollectProperty(s, child, m)
    OBVIOUS
  <1>2. m.value = read /\ HonestOf(d, cache)
    BY PropertyMemo DEF Collecting
  <1> HIDE DEF m
  <1>3. s = [got |-> s.got, cache |-> s.cache]
    BY DEF Collecting
  <1>4. t = [s EXCEPT !.cache.properties = m.map,
                      !.got.properties = IF m.value = None THEN @
                                         ELSE Append(@, <<child, m.value>>)]
    BY <1>1 DEF CollectProperty
  <1>5. t = [got |-> got, cache |-> cache]
    BY ONLY <1>2, <1>3, <1>4
  <1> HIDE DEF all
  <1>6. IsGot(got) /\ got.properties = all /\ \A p \in GotFields \ {"properties"} : got[p] = s.got[p]
    <2>1. IsGot(s.got) /\ "properties" \in GotFields
      BY DEF Collecting, GotFields
    <2> QED  BY <2>1, GotField
  <1> HIDE DEF got, cache
  <1>7. t.got = got /\ t.cache = cache
    BY <1>5
  <1>8. Collecting(d, t)
    BY <1>2, <1>5, <1>6, <1>7 DEF Collecting
  <1> QED  BY <1>6, <1>7, <1>8 DEF all

\* A turn of the loop collects what its child stands for.
LEMMA ChildTurn ==
    ASSUME NEW d, NEW s, Collecting(d, s), NEW c
    PROVE  LET t == CollectChild(d, s, c) IN
           /\ Collecting(d, t)
           /\ t.got.keywords = RecordStep(d, s.got.keywords, c)
           /\ t.got.properties = OwnStep(d, s.got.properties, c)
           /\ \A kind \in Kinds :
                 t.got[kind] = IF s.got[kind] # None THEN s.got[kind]
                               ELSE IF Stands(d, c, ElementOf(kind))
                                    THEN ReadOf(d, kind, Target(d, c)) ELSE None
  <1> DEFINE node == Target(d, c)
             referenced == IsReferenced(d, c)
             name == IF node = None THEN None ELSE NameOf(d, node)
             t == CollectChild(d, s, c)
  <1>1. name \in Referenceable => node # None /\ NameOf(d, node) = name
    BY NoNameAssumption
  <1>2. ASSUME NEW word \in Referenceable
        PROVE  Stands(d, c, word) <=> name = word
    BY <1>1, <1>2 DEF Stands
  <1>3. /\ Stands(d, c, "FITSKeyword") <=> name = "FITSKeyword"
        /\ Stands(d, c, "Property") <=> name = "Property"
        /\ Stands(d, c, "ColorFilterArray") <=> name = "ColorFilterArray"
        /\ Stands(d, c, "Resolution") <=> name = "Resolution"
        /\ Stands(d, c, "DisplayFunction") <=> name = "DisplayFunction"
    BY <1>2 DEF Referenceable
  <1>4. /\ IsGot(s.got) /\ s = [got |-> s.got, cache |-> s.cache]
        /\ \A p \in GotFields : p \in DOMAIN s.got
    BY DEF Collecting, IsGot
  <1>5. ASSUME NEW kind \in Kinds, name = ElementOf(kind),
               t = CollectAncillary(kind, s, node, referenced, ReadOf(d, kind, node))
        PROVE  /\ Collecting(d, t) /\ t.got.keywords = s.got.keywords
               /\ t.got.properties = s.got.properties
               /\ \A k \in Kinds :
                     t.got[k] = IF s.got[k] # None THEN s.got[k]
                                ELSE IF name = ElementOf(k) THEN ReadOf(d, k, node) ELSE None
    <2> HIDE DEF t, name, referenced, node
    <2>1. /\ Collecting(d, t)
          /\ t.got[kind] = IF s.got[kind] # None THEN s.got[kind] ELSE ReadOf(d, kind, node)
          /\ \A p \in GotFields \ {kind} : t.got[p] = s.got[p]
      BY <1>5, AncillaryTurn
    <2>2. /\ \A k \in Kinds : k \in GotFields /\ (ElementOf(k) = ElementOf(kind) => k = kind)
          /\ "keywords" \in GotFields \ {kind} /\ "properties" \in GotFields \ {kind}
      BY DEF Kinds, GotFields, ElementOf
    <2> QED  BY <1>5, <2>1, <2>2
  <1> DEFINE Right(k, p) ==
                /\ Collecting(d, t) /\ t.got.keywords = k /\ t.got.properties = p
                /\ \A kind \in Kinds :
                      t.got[kind] = IF s.got[kind] # None THEN s.got[kind]
                                    ELSE IF name = ElementOf(kind) THEN ReadOf(d, kind, node)
                                    ELSE None
  <1>6. /\ ElementOf("cfa") = "ColorFilterArray" /\ ElementOf("resolution") = "Resolution"
        /\ ElementOf("display_function") = "DisplayFunction"
        /\ ReadOf(d, "cfa", node) = ReadCfa(d, node)
        /\ ReadOf(d, "resolution", node) = ReadResolution(d, node)
        /\ ReadOf(d, "display_function", node) = ReadDisplayFunction(d, node)
        /\ {"cfa", "resolution", "display_function"} = Kinds
        /\ \A kind \in Kinds : ElementOf(kind) # "FITSKeyword" /\ ElementOf(kind) # "Property"
    BY DEF ElementOf, ReadOf, Kinds
  <1>7. ASSUME name = "FITSKeyword", Attr(d, node, "name") # None
        PROVE  Right(RecordStep(d, s.got.keywords, c), OwnStep(d, s.got.properties, c))
    <2> DEFINE all == Append(s.got.keywords, RawKeyword(d, node, referenced))
               got == [s.got EXCEPT !.keywords = all]
    <2>1. t = [s EXCEPT !.got.keywords = all]
      BY <1>7, Zenon DEF CollectChild
    <2>2. RecordStep(d, s.got.keywords, c) = all /\ OwnStep(d, s.got.properties, c) = s.got.properties
      BY <1>3, <1>7, Zenon DEF RecordStep, OwnStep
    <2> HIDE DEF all, t
    <2>3. t = [got |-> got, cache |-> s.cache]
      BY ONLY <1>4, <2>1
    <2>4. IsGot(got) /\ got.keywords = all /\ \A p \in GotFields \ {"keywords"} : got[p] = s.got[p]
      <3>1. "keywords" \in GotFields
        BY DEF GotFields
      <3> QED  BY <1>4, <3>1, GotField
    <2> HIDE DEF got
    <2>5. t.got = got /\ t.cache = s.cache
      BY <2>3
    <2>6. Collecting(d, t)
      BY <2>3, <2>4, <2>5 DEF Collecting
    <2>7. \A kind \in Kinds : got[kind] = s.got[kind] /\ kind \in GotFields
      BY <2>4 DEF Kinds, GotFields
    <2>8. got.properties = s.got.properties
      BY <2>4 DEF GotFields
    <2>9. \A kind \in Kinds : t.got[kind] = IF s.got[kind] # None THEN s.got[kind]
                                 ELSE IF name = ElementOf(kind) THEN ReadOf(d, kind, node) ELSE None
      <3> HIDE DEF name, node
      <3> QED  BY <1>6, <1>7, <2>5, <2>7
    <2> QED  BY <2>2, <2>4, <2>5, <2>6, <2>8, <2>9, Zenon DEF t
  <1>8. ASSUME ~ (name = "FITSKeyword" /\ Attr(d, node, "name") # None), name = "Property"
        PROVE  Right(RecordStep(d, s.got.keywords, c), OwnStep(d, s.got.properties, c))
    <2> DEFINE read == ReadProperty(d, node, "Image")
               u == CollectProperty(s, c,
                        Memoized(s.cache.properties, PropertyKey(node, "Image"), referenced, read))
    <2>1. t = u
      BY <1>8, Zenon DEF CollectChild
    <2>2. /\ Collecting(d, u)
          /\ u.got.properties = IF read = None THEN s.got.properties
                                ELSE Append(s.got.properties, <<c, read>>)
          /\ \A p \in GotFields \ {"properties"} : u.got[p] = s.got[p]
      <3>1. /\ read = ReadProperty(d, node, "Image")
            /\ u = CollectProperty(s, c, Memoized(s.cache.properties, PropertyKey(node, "Image"),
                                                  referenced, read))
        OBVIOUS
      <3> HIDE DEF u, read, node, referenced
      <3> QED  BY <3>1, PropertyTurn
    <2>3. /\ RecordStep(d, s.got.keywords, c) = s.got.keywords
          /\ OwnStep(d, s.got.properties, c) = IF read = None THEN s.got.properties
                                               ELSE Append(s.got.properties, <<c, read>>)
      BY <1>3, <1>8, Zenon DEF RecordStep, OwnStep
    <2> HIDE DEF u, t, read
    <2>4. u.got.keywords = s.got.keywords /\ \A kind \in Kinds : u.got[kind] = s.got[kind]
      BY <2>2 DEF GotFields, Kinds
    <2>5. \A kind \in Kinds : u.got[kind] = IF s.got[kind] # None THEN s.got[kind]
                                 ELSE IF name = ElementOf(kind) THEN ReadOf(d, kind, node) ELSE None
      <3> HIDE DEF name, node
      <3> QED  BY <1>6, <1>8, <2>4
    <2> QED  BY <2>1, <2>2, <2>3, <2>4, <2>5, Zenon DEF t
  <1>9. ASSUME NEW kind \in Kinds, name = ElementOf(kind) PROVE
          LET k == s.got.keywords
              p == s.got.properties
          IN  Right(k, p) /\ RecordStep(d, k, c) = k /\ OwnStep(d, p, c) = p
    <2>1. name # "FITSKeyword" /\ name # "Property"
      BY <1>6, <1>9
    <2>2. t = CollectAncillary(kind, s, node, referenced, ReadOf(d, kind, node))
      <3>1. CASE kind = "cfa"
        BY <1>6, <1>9, <2>1, <3>1, Zenon DEF CollectChild
      <3>2. CASE kind = "resolution"
        BY <1>6, <1>9, <2>1, <3>2, Zenon DEF CollectChild
      <3>3. CASE kind = "display_function"
        BY <1>6, <1>9, <2>1, <3>3, Zenon DEF CollectChild
      <3> QED  BY <3>1, <3>2, <3>3 DEF Kinds
    <2>3. /\ RecordStep(d, s.got.keywords, c) = s.got.keywords
          /\ OwnStep(d, s.got.properties, c) = s.got.properties
      BY <1>3, <2>1, Zenon DEF RecordStep, OwnStep
    <2> QED  BY <1>5, <1>9, <2>2, <2>3, Zenon
  <1>10. ASSUME ~ (name = "FITSKeyword" /\ Attr(d, node, "name") # None), name # "Property",
                \A kind \in Kinds : name # ElementOf(kind)
         PROVE  Right(RecordStep(d, s.got.keywords, c), OwnStep(d, s.got.properties, c))
    <2>1. t = s
      BY <1>6, <1>10, Zenon DEF CollectChild
    <2>2. /\ RecordStep(d, s.got.keywords, c) = s.got.keywords
          /\ OwnStep(d, s.got.properties, c) = s.got.properties
      BY <1>3, <1>10, Zenon DEF RecordStep, OwnStep
    <2>3. \A kind \in Kinds : s.got[kind] = IF s.got[kind] # None THEN s.got[kind]
                                 ELSE IF name = ElementOf(kind) THEN ReadOf(d, kind, node) ELSE None
      <3> HIDE DEF name, node
      <3> QED  BY <1>10
    <2> QED  BY <2>1, <2>2, <2>3, Zenon
  <1>11. Right(RecordStep(d, s.got.keywords, c), OwnStep(d, s.got.properties, c))
    <2> HIDE DEF t, name, node, referenced
    <2>1. CASE \E kind \in Kinds : name = ElementOf(kind)
      BY <1>9, <2>1
    <2>2. CASE \A kind \in Kinds : name # ElementOf(kind)
      BY <1>7, <1>8, <1>10, <2>2, Zenon
    <2> QED  BY <2>1, <2>2
  <1>12. \A kind \in Kinds : Stands(d, c, ElementOf(kind)) <=> name = ElementOf(kind)
    BY <1>3, <1>6 DEF Kinds
  <1> QED  BY <1>11, <1>12

-----------------------------------------------------------------------------
(* The loops.                                                              *)

CollectStep(d, s, c) == CollectChild(d, s, c)
CollectClaim(e, k, s) ==
    /\ Collecting(e.doc, s)
    /\ s.got.keywords = Recording!Fold(e.doc, <<>>, Recording!Prefix(e.kids, k))
    /\ s.got.properties = Owning!Fold(e.doc, <<>>, Owning!Prefix(e.kids, k))
    /\ \A kind \in Kinds : s.got[kind] = FirstIn(e.doc, e.kids, k, kind)
Collect == INSTANCE Folding WITH Step <- CollectStep, Claim <- CollectClaim

\* Collecting with a memo that is right collects what the children stand for, each read where it
\* stands, and leaves the memo right.
LEMMA CollectReads ==
    ASSUME NEW d, ConformingDoc(d), Telling(d), NEW image \in DOMAIN d.nodes,
           NEW cache, HonestOf(d, cache)
    PROVE  LET s    == CollectChildren(d, image, cache)
               kids == Children(d, image) IN
           /\ HonestOf(d, s.cache)
           /\ s.got.keywords = Recording!Fold(d, <<>>, kids)
           /\ s.got.properties = Owning!Fold(d, <<>>, kids)
           /\ \A kind \in Kinds : s.got[kind] = FirstIn(d, kids, Len(kids), kind)
  <1> DEFINE kids == Children(d, image)
             n == Len(kids)
             e == [doc |-> d, kids |-> kids]
             base == [got |-> Uncollected, cache |-> cache]
             s == CollectChildren(d, image, cache)
  <1>1. kids \in Seq(DOMAIN d.nodes)
    BY DEF ConformingDoc, Children
  <1>2. n \in Nat /\ DOMAIN kids = 1 .. n
    BY <1>1
  <1>3. s = Collect!Fold(d, base, kids)
    BY Zenon DEF CollectChildren, CollectStep, FoldLeft, MapThenFoldSet, Max,
       Collect!Fold, Collect!Iterates, Collect!Largest
  <1>4. e.doc = d /\ e.kids = kids
    OBVIOUS
  <1> HIDE DEF e, kids, s
  <1>5. CollectClaim(e, 0, base)
    <2>1. /\ Uncollected.keywords = <<>> /\ Uncollected.properties = <<>> /\ IsGot(Uncollected)
          /\ \A kind \in Kinds : Uncollected[kind] = None
      BY DEF Uncollected, IsGot, GotFields, Kinds
    <2>2. base.got = Uncollected /\ base.cache = cache /\ Collecting(d, base)
      BY <2>1 DEF Collecting
    <2>3. \A kind \in Kinds : FirstIn(d, kids, 0, kind) = None
      <3>1. \A kind : FirstAmong(d, kids, 0, kind) = {}
        BY DEF FirstAmong
      <3> QED  BY <3>1, Zenon DEF FirstIn
    <2>4. /\ Recording!Fold(d, <<>>, Recording!Prefix(kids, 0)) = <<>>
          /\ Owning!Fold(d, <<>>, Owning!Prefix(kids, 0)) = <<>>
      BY Recording!FoldOfNoneFirst, Owning!FoldOfNoneFirst
    <2> HIDE DEF base
    <2> QED  BY <1>4, <2>1, <2>2, <2>3, <2>4 DEF CollectClaim
  <1>6. ASSUME NEW i \in 1 .. n, NEW t, CollectClaim(e, i - 1, t)
        PROVE  CollectClaim(e, i, CollectStep(d, t, kids[i]))
    <2> DEFINE u == CollectChild(d, t, kids[i])
    <2>1. /\ Collecting(d, t)
          /\ t.got.keywords = Recording!Fold(d, <<>>, Recording!Prefix(kids, i - 1))
          /\ t.got.properties = Owning!Fold(d, <<>>, Owning!Prefix(kids, i - 1))
          /\ \A kind \in Kinds : t.got[kind] = FirstIn(d, kids, i - 1, kind)
      BY <1>4, <1>6 DEF CollectClaim
    <2>2. /\ Collecting(d, u)
          /\ u.got.keywords = RecordStep(d, t.got.keywords, kids[i])
          /\ u.got.properties = OwnStep(d, t.got.properties, kids[i])
          /\ \A kind \in Kinds :
                u.got[kind] = IF t.got[kind] # None THEN t.got[kind]
                              ELSE IF Stands(d, kids[i], ElementOf(kind))
                                   THEN ReadOf(d, kind, Target(d, kids[i])) ELSE None
      BY <2>1, ChildTurn
    <2>3. i \in Nat \ {0}
      BY <1>2
    <2>4. /\ Recording!Fold(d, <<>>, Recording!Prefix(kids, i))
                = RecordStep(d, Recording!Fold(d, <<>>, Recording!Prefix(kids, i - 1)), kids[i])
          /\ Owning!Fold(d, <<>>, Owning!Prefix(kids, i))
                = OwnStep(d, Owning!Fold(d, <<>>, Owning!Prefix(kids, i - 1)), kids[i])
      BY <2>3, Recording!FoldOfFirst, Owning!FoldOfFirst
    <2>5. ASSUME NEW kind \in Kinds
          PROVE  u.got[kind] = FirstIn(d, kids, i, kind)
      <3>1. FirstIn(d, kids, i, kind) =
                 IF FirstIn(d, kids, i - 1, kind) # None THEN FirstIn(d, kids, i - 1, kind)
                 ELSE IF Stands(d, kids[i], ElementOf(kind))
                      THEN ReadOf(d, kind, Target(d, kids[i])) ELSE None
        BY <1>1, FirstGrows
      <3> HIDE DEF u
      <3> QED  BY <2>1, <2>2, <3>1
    <2>6. CollectStep(d, t, kids[i]) = u
      BY Zenon DEF CollectStep
    <2> HIDE DEF u
    <2> QED  BY <1>4, <2>1, <2>2, <2>4, <2>5, <2>6 DEF CollectClaim
  <1>7. CollectClaim(e, n, s)
    <2> HIDE DEF base, n
    <2> QED  BY <1>2, <1>3, <1>5, <1>6, Collect!FoldMaintains
  <1>8. /\ Recording!Fold(d, <<>>, Recording!Prefix(kids, n)) = Recording!Fold(d, <<>>, kids)
        /\ Owning!Fold(d, <<>>, Owning!Prefix(kids, n)) = Owning!Fold(d, <<>>, kids)
    BY <1>2, Recording!FoldOfAll, Owning!FoldOfAll
  <1> QED  BY <1>4, <1>7, <1>8 DEF CollectClaim, Collecting, kids, s

\* The records of an image are those of elements.
LEMMA RecordedWell ==
    ASSUME NEW d, ConformingDoc(d), NEW kids \in Seq(DOMAIN d.nodes)
    PROVE  LET all == Recording!Fold(d, <<>>, kids) IN
           \E len \in Nat : DOMAIN all = 1 .. len /\ Faithful(RecordsIn(d), all)
  <1> DEFINE all == Recording!Fold(d, <<>>, kids)
             n == Len(kids)
  <1>1. n \in Nat /\ DOMAIN kids = 1 .. n
    OBVIOUS
  <1>2. RecordClaim(d, 0, <<>>)
    <2> DEFINE none == {}
    <2>1. <<>> \in Seq(none) /\ \A r \in none : WellRecorded(d, r)
      OBVIOUS
    <2> HIDE DEF none
    <2> QED  BY <2>1 DEF RecordClaim
  <1>3. ASSUME NEW i \in 1 .. n, NEW s, RecordClaim(d, i - 1, s)
        PROVE  RecordClaim(d, i, RecordStep(d, s, kids[i]))
    <2> DEFINE c == kids[i]
               r == RawKeyword(d, Target(d, c), IsReferenced(d, c))
    <2>1. PICK S : s \in Seq(S) /\ \A x \in S : WellRecorded(d, x)
      BY <1>3 DEF RecordClaim
    <2>2. CASE Stands(d, c, "FITSKeyword") /\ Attr(d, Target(d, c), "name") # None
      <3>1. Target(d, c) \in DOMAIN d.nodes
        BY <1>1, <2>2, TargetsAreElements DEF Stands
      <3>2. WellRecorded(d, r)
        <4>1. IsRecord(r) /\ r.node = Target(d, c)
          BY Zenon DEF IsRecord, RawKeyword
        <4>2. RecordsIn(d)[Target(d, c)] = RawKeyword(d, Target(d, c), TRUE)
          BY <3>1 DEF RecordsIn
        <4>3. [r EXCEPT !.origin = "Reference"] = RawKeyword(d, Target(d, c), TRUE)
          <5> DEFINE node == Target(d, c)
                     name == Attr(d, node, "name")
                     value == AttrOr(d, node, "value",
                                     [form |-> "bare", content |-> <<>>, named |-> None])
                     comment == AttrOr(d, node, "comment", "")
                     Read(origin) == [node |-> node, name |-> name, value |-> value,
                                      comment |-> comment, origin |-> origin]
          <5>1. \E origin : r = Read(origin)
            BY Zenon DEF RawKeyword
          <5>2. RawKeyword(d, node, TRUE) = Read("Reference")
            BY Zenon DEF RawKeyword
          <5> HIDE DEF r, node, name, value, comment
          <5>3. [r EXCEPT !.origin = "Reference"] = Read("Reference")
            BY ONLY <5>1
          <5> QED  BY <5>2, <5>3 DEF node
        <4> QED  BY <3>1, <4>1, <4>2, <4>3 DEF WellRecorded
      <3>3. RecordStep(d, s, c) = Append(s, r)
        BY <2>2, Zenon DEF RecordStep
      <3> HIDE DEF r
      <3>4. Append(s, r) \in Seq(S \cup {r}) /\ \A x \in S \cup {r} : WellRecorded(d, x)
        BY <2>1, <3>2
      <3> QED  BY <3>3, <3>4 DEF RecordClaim
    <2>3. CASE ~ (Stands(d, c, "FITSKeyword") /\ Attr(d, Target(d, c), "name") # None)
      <3>1. RecordStep(d, s, c) = s
        BY <2>3, Zenon DEF RecordStep
      <3> QED  BY <2>1, <3>1 DEF RecordClaim
    <2> QED  BY <2>2, <2>3
  <1>4. RecordClaim(d, n, all)
    <2> HIDE DEF n
    <2> QED  BY <1>1, <1>2, <1>3, Recording!FoldKeeps
  <1> HIDE DEF all
  <1>5. PICK S : all \in Seq(S) /\ \A x \in S : WellRecorded(d, x)
    BY <1>4 DEF RecordClaim
  <1>6. Len(all) \in Nat /\ DOMAIN all = 1 .. Len(all) /\ \A i \in DOMAIN all : WellRecorded(d, all[i])
    BY <1>5
  <1>7. Faithful(RecordsIn(d), all)
    BY <1>6 DEF Faithful, WellRecorded
  <1> QED  BY <1>6, <1>7 DEF all

-----------------------------------------------------------------------------
(* The properties every image shares.                                      *)

GatherStep(d, all, c) == IF NameOf(d, c) = "Metadata" THEN all \o Children(d, c) ELSE all
GatherClaim(d, k, all) == all \in Seq(DOMAIN d.nodes)
Gathering == INSTANCE Folding WITH Step <- GatherStep, Claim <- GatherClaim

SharedStep(d, all, c) ==
    IF Stands(d, c, "Property") /\ ReadProperty(d, Target(d, c), "Metadata") # None
    THEN Append(all, <<c, ReadProperty(d, Target(d, c), "Metadata")>>) ELSE all
Sharing == INSTANCE Folding WITH Step <- SharedStep, Claim <- PickClaim

\* The properties of the document's Metadata.
SharedOf(d) == Sharing!Fold(d, <<>>, MetadataChildren(d))

ShareStep(d, s, c) == MetadataProperty(d, s, c)
ShareClaim(e, k, s) ==
    /\ s = [shared |-> s.shared, cache |-> s.cache] /\ HonestOf(e.doc, s.cache)
    /\ s.shared = Sharing!Fold(e.doc, <<>>, Sharing!Prefix(e.kids, k))
Share == INSTANCE Folding WITH Step <- ShareStep, Claim <- ShareClaim

\* What Metadata holds are elements.
LEMMA MetadataIsElements ==
    ASSUME NEW d, ConformingDoc(d)
    PROVE  MetadataChildren(d) \in Seq(DOMAIN d.nodes)
  <1> DEFINE kids == Children(d, 1)
             n == Len(kids)
             all == MetadataChildren(d)
  <1>1. kids \in Seq(DOMAIN d.nodes)
    BY DEF ConformingDoc, Children
  <1>2. n \in Nat /\ DOMAIN kids = 1 .. n
    BY <1>1
  <1>3. all = Gathering!Fold(d, <<>>, kids)
    BY Zenon DEF MetadataChildren, GatherStep, FoldLeft, MapThenFoldSet, Max,
       Gathering!Fold, Gathering!Iterates, Gathering!Largest
  <1> HIDE DEF all, n, kids
  <1>4. GatherClaim(d, 0, <<>>)
    BY DEF GatherClaim
  <1>5. ASSUME NEW i \in 1 .. n, NEW s, GatherClaim(d, i - 1, s)
        PROVE  GatherClaim(d, i, GatherStep(d, s, kids[i]))
    <2> DEFINE S == DOMAIN d.nodes
    <2>1. kids[i] \in DOMAIN d.nodes
      BY <1>1, <1>2
    <2>2. Children(d, kids[i]) \in Seq(S)
      BY <2>1 DEF ConformingDoc, Children
    <2> HIDE DEF S
    <2>3. s \in Seq(S)
      BY <1>5 DEF GatherClaim, S
    <2>4. s \o Children(d, kids[i]) \in Seq(S)
      BY <2>2, <2>3
    <2>5. GatherStep(d, s, kids[i]) \in Seq(S)
      BY <2>3, <2>4 DEF GatherStep
    <2> QED  BY <2>5 DEF GatherClaim, S
  <1>6. GatherClaim(d, n, all)
    BY <1>2, <1>3, <1>4, <1>5, Gathering!FoldKeeps
  <1> QED  BY <1>6 DEF GatherClaim, all

\* A property of the Metadata is shared, unless it is none.
LEMMA ShareTurn ==
    ASSUME NEW d, NEW s, s = [shared |-> s.shared, cache |-> s.cache], HonestOf(d, s.cache), NEW c
    PROVE  LET t == MetadataProperty(d, s, c) IN
           /\ t = [shared |-> t.shared, cache |-> t.cache] /\ HonestOf(d, t.cache)
           /\ t.shared = SharedStep(d, s.shared, c)
  <1> DEFINE target == Target(d, c)
             t == MetadataProperty(d, s, c)
  <1>1. CASE ~ Stands(d, c, "Property")
    <2>1. t = s /\ SharedStep(d, s.shared, c) = s.shared
      BY <1>1, Zenon DEF Stands, MetadataProperty, SharedStep
    <2> QED  BY <2>1
  <1>2. CASE Stands(d, c, "Property")
    <2> DEFINE read == ReadProperty(d, target, "Metadata")
               m == Memoized(s.cache.properties, PropertyKey(target, "Metadata"),
                             IsReferenced(d, c), read)
               all == IF read = None THEN s.shared ELSE Append(s.shared, <<c, read>>)
               cache == [s.cache EXCEPT !.properties = m.map]
    <2>1. t = ShareProperty(s, c, m)
      BY <1>2, Zenon DEF Stands, MetadataProperty
    <2>2. SharedStep(d, s.shared, c) = all
      BY <1>2, Zenon DEF SharedStep
    <2>3. m.value = read /\ HonestOf(d, cache)
      <3>1. read = ReadProperty(d, target, "Metadata")
        OBVIOUS
      <3> HIDE DEF read, target
      <3> QED  BY <3>1, PropertyMemo
    <2> HIDE DEF m, read, t, target
    <2>4. t = [s EXCEPT !.cache.properties = m.map,
                        !.shared = IF m.value = None THEN @ ELSE Append(@, <<c, m.value>>)]
      BY <2>1 DEF ShareProperty
    <2>5. t = [shared |-> all, cache |-> cache]
      BY ONLY <2>3, <2>4, s = [shared |-> s.shared, cache |-> s.cache]
    <2> HIDE DEF all, cache
    <2>6. t.shared = all /\ t.cache = cache
      BY <2>5
    <2> QED  BY <2>2, <2>3, <2>5, <2>6 DEF t
  <1> QED  BY <1>1, <1>2

\* The shared properties are the Metadata's, and the memo they leave is right.
LEMMA SharedReads ==
    ASSUME NEW d, ConformingDoc(d), NEW cache, HonestOf(d, cache)
    PROVE  LET s == MetadataProperties(d, cache) IN
           s.shared = SharedOf(d) /\ HonestOf(d, s.cache)
  <1> DEFINE kids == MetadataChildren(d)
             n == Len(kids)
             e == [doc |-> d, kids |-> kids]
             base == [shared |-> <<>>, cache |-> cache]
             s == MetadataProperties(d, cache)
  <1>1. kids \in Seq(DOMAIN d.nodes)
    BY MetadataIsElements
  <1>2. n \in Nat /\ DOMAIN kids = 1 .. n
    BY <1>1
  <1>3. s = Share!Fold(d, base, kids)
    BY Zenon DEF MetadataProperties, ShareStep, FoldLeft, MapThenFoldSet, Max,
       Share!Fold, Share!Iterates, Share!Largest
  <1>4. e.doc = d /\ e.kids = kids
    OBVIOUS
  <1> HIDE DEF e, kids, s, n
  <1>5. ShareClaim(e, 0, base)
    <2>1. base.shared = <<>> /\ base.cache = cache
      OBVIOUS
    <2>2. Sharing!Fold(d, <<>>, Sharing!Prefix(kids, 0)) = <<>>
      BY Sharing!FoldOfNoneFirst
    <2> QED  BY <1>4, <2>1, <2>2 DEF ShareClaim
  <1>6. ASSUME NEW i \in 1 .. n, NEW t, ShareClaim(e, i - 1, t)
        PROVE  ShareClaim(e, i, ShareStep(d, t, kids[i]))
    <2> DEFINE u == MetadataProperty(d, t, kids[i])
    <2>1. /\ t = [shared |-> t.shared, cache |-> t.cache] /\ HonestOf(d, t.cache)
          /\ t.shared = Sharing!Fold(d, <<>>, Sharing!Prefix(kids, i - 1))
      BY <1>4, <1>6 DEF ShareClaim
    <2>2. /\ u = [shared |-> u.shared, cache |-> u.cache] /\ HonestOf(d, u.cache)
          /\ u.shared = SharedStep(d, t.shared, kids[i])
      BY <2>1, ShareTurn
    <2>3. i \in Nat \ {0}
      BY <1>2
    <2>4. Sharing!Fold(d, <<>>, Sharing!Prefix(kids, i))
             = SharedStep(d, Sharing!Fold(d, <<>>, Sharing!Prefix(kids, i - 1)), kids[i])
      BY <2>3, Sharing!FoldOfFirst
    <2>5. ShareStep(d, t, kids[i]) = u
      BY Zenon DEF ShareStep
    <2> HIDE DEF u
    <2> QED  BY <1>4, <2>1, <2>2, <2>4, <2>5 DEF ShareClaim
  <1>7. ShareClaim(e, n, s)
    <2> HIDE DEF base
    <2> QED  BY <1>2, <1>3, <1>5, <1>6, Share!FoldMaintains
  <1>8. Sharing!Fold(d, <<>>, Sharing!Prefix(kids, n)) = Sharing!Fold(d, <<>>, kids)
    BY <1>2, Sharing!FoldOfAll
  <1> QED  BY <1>4, <1>7, <1>8 DEF ShareClaim, SharedOf, kids, s

-----------------------------------------------------------------------------
(* An occurrence, against the same image read with no memo.                *)

\* What an image holds, each element read where it stands.
Gathered(d, image) ==
    LET kids == Children(d, image) IN
    [keywords |-> Recording!Fold(d, <<>>, kids), properties |-> Owning!Fold(d, <<>>, kids),
     cfa |-> FirstIn(d, kids, Len(kids), "cfa"),
     resolution |-> FirstIn(d, kids, Len(kids), "resolution"),
     display_function |-> FirstIn(d, kids, Len(kids), "display_function")]

\* The occurrence of an image read alone.
Fresh(d, image) ==
    OccurrenceWith(d, image, SharedOf(d), Gathered(d, image),
                   FoldRecords(Unshared(Gathered(d, image).keywords), ValueBytes, EmptyCache))

\* An occurrence is made of what was collected and of what the keywords folded into.
LEMMA OccurrencesAlike ==
    ASSUME NEW d, NEW image, NEW shared, NEW one, NEW two, NEW f, NEW g,
           one.properties = two.properties, \A kind \in Kinds : one[kind] = two[kind],
           f.res = g.res, f.out = g.out
    PROVE  LET a == OccurrenceWith(d, image, shared, one, f)
               b == OccurrenceWith(d, image, shared, two, g)
           IN  a.res = b.res /\ a.occurrence = b.occurrence /\ a.cache = f.cache
  <1>1. one.cfa = two.cfa /\ one.resolution = two.resolution
        /\ one.display_function = two.display_function
    BY DEF Kinds
  <1> DEFINE a == OccurrenceWith(d, image, shared, one, f)
             b == OccurrenceWith(d, image, shared, two, g)
  <1>2. /\ a = [res |-> f.res, cache |-> f.cache, occurrence |-> a.occurrence]
        /\ b = [res |-> g.res, cache |-> g.cache, occurrence |-> b.occurrence]
    BY DEF OccurrenceWith
  <1>3. a.occurrence = b.occurrence
    <2> DEFINE O(x, y, z, out, own) ==
                 LET cfa        == ValueOr(x, None)
                     resolution == ValueOr(y, <<72, 72>>)
                     display    == ValueOr(z, IdentityDisplay)
                     o          == BuildOccurrence(d, image, Reading,
                                       <<cfa.fault, resolution.fault, display.fault>>)
                 IN  [header |-> [geometry |-> o.header.geometry, bytes |-> o.header.bytes,
                                  decline |-> o.header.decline, bounds |-> o.header.bounds,
                                  granularity |-> o.header.granularity,
                                  keywords |-> out, own |-> own,
                                  split |-> SplitOf(shared, image), cfa |-> cfa.value,
                                  resolution |-> resolution.value,
                                  display_function |-> display.value],
                      plan   |-> o.plan]
    <2>1. a = [res |-> f.res, cache |-> f.cache,
               occurrence |-> O(one.cfa, one.resolution, one.display_function, f.out, one.properties)]
      BY Zenon DEF OccurrenceWith
    <2>2. b = [res |-> g.res, cache |-> g.cache,
               occurrence |-> O(two.cfa, two.resolution, two.display_function, g.out, two.properties)]
      BY Zenon DEF OccurrenceWith
    <2> HIDE DEF O, a, b
    <2>3. /\ a.occurrence = O(one.cfa, one.resolution, one.display_function, f.out, one.properties)
          /\ b.occurrence = O(two.cfa, two.resolution, two.display_function, g.out, two.properties)
      BY <2>1, <2>2
    <2> QED  BY <1>1, <2>3, Zenon
  <1> HIDE DEF a, b
  <1>4. a.res = f.res /\ a.cache = f.cache /\ b.res = g.res
    BY <1>2
  <1> QED  BY <1>3, <1>4 DEF a, b

\* Built with a memo that is right, an occurrence is the one its image read alone gives, and the
\* memo is right still.
LEMMA BuildsFresh ==
    ASSUME NEW d, ConformingDoc(d), Telling(d), NEW image \in DOMAIN d.nodes,
           NEW cache, HonestOf(d, cache)
    PROVE  LET b == BuildAt(d, image, SharedOf(d), cache) IN
           /\ b.res = Fresh(d, image).res /\ b.occurrence = Fresh(d, image).occurrence
           /\ HonestOf(d, b.cache)
  <1> DEFINE c == CollectChildren(d, image, cache)
             kids == Children(d, image)
             raw == Recording!Fold(d, <<>>, kids)
             alone == Gathered(d, image)
             f == FoldRecords(c.got.keywords, ValueBytes, c.cache)
             g == FoldRecords(Unshared(alone.keywords), ValueBytes, EmptyCache)
             b == BuildAt(d, image, SharedOf(d), cache)
  <1>1. kids \in Seq(DOMAIN d.nodes)
    BY DEF ConformingDoc, Children
  <1>2. /\ HonestOf(d, c.cache) /\ c.got.keywords = raw
        /\ c.got.properties = Owning!Fold(d, <<>>, kids)
        /\ \A kind \in Kinds : c.got[kind] = FirstIn(d, kids, Len(kids), kind)
    BY CollectReads
  <1>3. PICK len \in Nat : DOMAIN raw = 1 .. len /\ Faithful(RecordsIn(d), raw)
    BY <1>1, RecordedWell
  <1>4. b = OccurrenceWith(d, image, SharedOf(d), c.got, f)
    BY Zenon DEF BuildAt, BuildFrom
  <1>5. Fresh(d, image) = OccurrenceWith(d, image, SharedOf(d), alone, g)
    BY Zenon DEF Fresh
  <1>6. /\ alone.keywords = raw /\ alone.properties = c.got.properties
        /\ \A kind \in Kinds : alone[kind] = c.got[kind]
    <2> HIDE DEF c, raw
    <2>1. alone = [keywords |-> raw, properties |-> Owning!Fold(d, <<>>, kids),
                   cfa |-> FirstIn(d, kids, Len(kids), "cfa"),
                   resolution |-> FirstIn(d, kids, Len(kids), "resolution"),
                   display_function |-> FirstIn(d, kids, Len(kids), "display_function")]
      BY Zenon DEF Gathered, raw
    <2> HIDE DEF alone, kids
    <2> QED  BY <1>2, <2>1 DEF Kinds
  <1> HIDE DEF c, raw, alone
  <1>7. f.res = g.res /\ f.out = g.out /\ Honest(RecordsIn(d), f.cache) /\ Beside(c.cache, f.cache)
    <2>1. Honest(RecordsIn(d), c.cache)
      BY <1>2 DEF HonestOf
    <2>2. LET u == FoldRecords(raw, ValueBytes, c.cache)
              v == FoldRecords(Unshared(raw), ValueBytes, EmptyCache) IN
          u.res = v.res /\ u.out = v.out /\ Honest(RecordsIn(d), u.cache) /\ Beside(c.cache, u.cache)
      BY <1>3, <2>1, FoldsAsAlone
    <2> QED  BY <1>2, <1>6, <2>2
  <1> HIDE DEF f, g, b
  <1>8. HonestOf(d, f.cache)
    <2>1. \A kind \in Kinds : f.cache[kind] = c.cache[kind]
      BY <1>7 DEF Beside, Kinds
    <2>2. f.cache.properties = c.cache.properties
      BY <1>7 DEF Beside
    <2> QED  BY <1>2, <1>7, <2>1, <2>2 DEF HonestOf, HonestRest
  <1>9. b.res = Fresh(d, image).res /\ b.occurrence = Fresh(d, image).occurrence /\ b.cache = f.cache
    BY <1>4, <1>5, <1>6, <1>7, OccurrencesAlike
  <1> QED  BY <1>8, <1>9 DEF b

-----------------------------------------------------------------------------
(* The walk, against its images read alone.                                *)

\* The image of the kth occurrence found.
ImageOf(d, found, k) == ImageAt(d, found[k])

\* An image whose keywords are within their cap, and what it reads as.
ReadsAs(d, image, o) == Fresh(d, image).res = "ok" /\ o = Fresh(d, image).occurrence

\* A walk over images found so far: what it has of each, made now or remembered, is what that
\* image reads as alone, and one that is past its cap is why the walk was refused.
Recalls(d, found, s) ==
    /\ HonestOf(d, s.cache) /\ s.shared = SharedOf(d)
    /\ \A image \in DOMAIN s.built : ReadsAs(d, image, s.built[image])
    /\ \A k \in DOMAIN s.out : k \in DOMAIN found /\ ReadsAs(d, ImageOf(d, found, k), s.out[k])
    /\ s.res # "ok" =>
          \E k \in DOMAIN found : /\ k <= ImagesPerSource + 1
                                  /\ Fresh(d, ImageOf(d, found, k)).res # "ok"

\* Before the first child, nothing.
LEMMA RecallsNothing ==
    ASSUME NEW d, ConformingDoc(d)
    PROVE  Recalls(d, <<>>, WalkStart(d))
  <1> DEFINE s == WalkStart(d)
             m == MetadataProperties(d, EmptyCache)
  <1>1. s = [res |-> "ok", out |-> <<>>, built |-> <<>>, shared |-> m.shared, cache |-> m.cache]
    BY DEF WalkStart, WalkFrom
  <1>2. m.shared = SharedOf(d) /\ HonestOf(d, m.cache)
    BY NothingIsHonestOf, SharedReads
  <1> HIDE DEF s, m
  <1>3. /\ s.res = "ok" /\ DOMAIN s.out = {} /\ DOMAIN s.built = {} /\ s.shared = m.shared
        /\ s.cache = m.cache
    BY <1>1
  <1> QED  BY <1>2, <1>3 DEF Recalls, s

\* A walk recalls as much when more is found.
LEMMA RecallsMore ==
    ASSUME NEW d, NEW s, NEW found, NEW more, Recalls(d, found, s),
           \A k \in DOMAIN found : k \in DOMAIN more /\ more[k] = found[k]
    PROVE  Recalls(d, more, s)
  BY DEF Recalls, ImageOf

\* A walk that takes in what the image found next reads as recalls it.
LEMMA RecallsNext ==
    ASSUME NEW d, NEW S, NEW found \in Seq(S), NEW c \in S,
           NEW s, Recalls(d, found, s), s.res = "ok",
           NEW T, s.out \in Seq(T), Len(s.out) = Len(found),
           NEW o, ReadsAs(d, ImageAt(d, c), o),
           NEW t, t.res = "ok", t.out = Append(s.out, o), t.shared = s.shared, HonestOf(d, t.cache),
           \A image \in DOMAIN t.built : ReadsAs(d, image, t.built[image])
    PROVE  Recalls(d, Append(found, c), t)
  <1> DEFINE more == Append(found, c)
             n == Len(found) + 1
  <1>1. /\ Len(found) \in Nat /\ DOMAIN found = 1 .. Len(found) /\ DOMAIN more = 1 .. n
        /\ more[n] = c /\ \A k \in 1 .. Len(found) : more[k] = found[k]
    OBVIOUS
  <1>2. /\ DOMAIN s.out = 1 .. Len(found)
        /\ s.out \in Seq(T \cup {o}) /\ o \in T \cup {o}
    OBVIOUS
  <1>3. /\ DOMAIN t.out = 1 .. n /\ t.out[n] = o
        /\ \A k \in 1 .. Len(found) : t.out[k] = s.out[k]
    <2> DEFINE U0 == T \cup {o}
    <2> HIDE DEF U0
    <2>1. s.out \in Seq(U0) /\ o \in U0 /\ Len(s.out) = Len(found) /\ t.out = Append(s.out, o)
      BY <1>2 DEF U0
    <2> QED  BY ONLY <2>1, <1>1
  <1>4. ASSUME NEW k \in DOMAIN t.out
        PROVE  k \in DOMAIN more /\ ReadsAs(d, ImageOf(d, more, k), t.out[k])
    <2> HIDE DEF more
    <2>1. CASE k = n
      BY <1>1, <1>3, <2>1 DEF ImageOf
    <2>2. CASE k # n
      <3>1. k \in 1 .. Len(found)
        BY <1>1, <1>3, <2>2
      <3>2. ReadsAs(d, ImageOf(d, found, k), s.out[k])
        BY <1>2, <3>1 DEF Recalls
      <3> QED  BY <1>1, <1>3, <3>1, <3>2 DEF ImageOf
    <2> QED  BY <2>1, <2>2
  <1> HIDE DEF more
  <1> QED  BY <1>4 DEF Recalls, more

\* A turn of the walk recalls the image it found, if it found one.
LEMMA RecallsTurn ==
    ASSUME NEW d, ConformingDoc(d), Telling(d), NEW c \in DOMAIN d.nodes, NEW s, Walked(s),
           NEW found \in Seq(DOMAIN d.nodes), Recalls(d, found, s),
           s.res = "ok" => Len(s.out) = Least(Len(found), ImagesPerSource + 1)
    PROVE  Recalls(d, FindStep(d, found, c), WalkChild(d, s, c))
  <1> DEFINE image == ImageAt(d, c)
             b == BuildAt(d, image, s.shared, s.cache)
             t == WalkChild(d, s, c)
             S == DOMAIN d.nodes
  <1>1. /\ s = [res |-> s.res, out |-> s.out, built |-> s.built, shared |-> s.shared,
                cache |-> s.cache]
        /\ Len(s.out) \in Nat /\ \E T : s.out \in Seq(T)
    BY ImagesPerSourceAssumption DEF Walked
  <1>2. CASE s.res # "ok" \/ PastTheCap(s.out) \/ image = None
    <2>1. t = s
      BY <1>2, Zenon DEF WalkChild
    <2>2. \A k \in DOMAIN found : k \in DOMAIN FindStep(d, found, c) /\ FindStep(d, found, c)[k] = found[k]
      <3> HIDE DEF S
      <3>1. found \in Seq(S) /\ c \in S
        BY DEF S
      <3>2. \A k \in DOMAIN found : k \in DOMAIN Append(found, c) /\ Append(found, c)[k] = found[k]
        BY <3>1
      <3> QED  BY <3>2 DEF FindStep
    <2> QED  BY <2>1, <2>2, RecallsMore
  <1>3. CASE ~ (s.res # "ok" \/ PastTheCap(s.out) \/ image = None)
    <2>1. s.res = "ok" /\ ~ PastTheCap(s.out) /\ image # None
      BY <1>3
    <2>2. Len(s.out) = Len(found) /\ Len(found) + 1 <= ImagesPerSource + 1 /\ Len(found) \in Nat
      BY <1>1, <2>1, ImagesPerSourceAssumption DEF PastTheCap, Least
    <2>3. FindStep(d, found, c) = Append(found, c)
      BY <2>1 DEF FindStep
    <2>4. HonestOf(d, s.cache) /\ s.shared = SharedOf(d)
          /\ \A x \in DOMAIN s.built : ReadsAs(d, x, s.built[x])
      BY DEF Recalls
    <2>5. PICK T : s.out \in Seq(T)
      BY <1>1
    <2>6. CASE image \in DOMAIN s.built
      <3> DEFINE out == Append(s.out, s.built[image])
      <3>1. t = [s EXCEPT !.out = out]
        BY <1>1, <2>1, <2>6 DEF WalkChild
      <3> HIDE DEF t, out
      <3>2. /\ t.out = out /\ t.res = s.res /\ t.built = s.built /\ t.shared = s.shared
            /\ t.cache = s.cache
        BY ONLY <1>1, <3>1
      <3>3. ReadsAs(d, image, s.built[image])
        BY <2>4, <2>6
      <3>4. Recalls(d, Append(found, c), t)
        BY <2>1, <2>2, <2>4, <2>5, <3>2, <3>3, RecallsNext DEF out
      <3> QED  BY <2>3, <3>4 DEF t
    <2>7. CASE image \notin DOMAIN s.built
      <3>1. t = Enter(s, image, IsReferenced(d, c), b)
        BY <2>1, <2>7, Zenon DEF WalkChild
      <3>2. image \in DOMAIN d.nodes
        BY <2>1, ImagesAreElements
      <3>3. b.res = Fresh(d, image).res /\ b.occurrence = Fresh(d, image).occurrence
            /\ HonestOf(d, b.cache)
        BY <2>4, <3>2, BuildsFresh
      <3> HIDE DEF b, t
      <3>4. CASE b.res # "ok"
        <4>1. t = [s EXCEPT !.res = b.res]
          BY <3>1, <3>4 DEF Enter
        <4>2. /\ t.out = s.out /\ t.res = b.res /\ t.built = s.built /\ t.shared = s.shared
              /\ t.cache = s.cache
          BY ONLY <1>1, <4>1
        <4> DEFINE more == Append(found, c)
                   n == Len(found) + 1
        <4>3. n \in DOMAIN more /\ more[n] = c /\ n <= ImagesPerSource + 1
              /\ \A k \in DOMAIN found : k \in DOMAIN more /\ more[k] = found[k]
          BY <2>2
        <4> HIDE DEF more, n
        <4>4. Fresh(d, ImageOf(d, more, n)).res # "ok"
          BY <3>3, <3>4, <4>3 DEF ImageOf
        <4>5. Recalls(d, more, s)
          BY <4>3, RecallsMore
        <4> QED  BY <2>3, <4>2, <4>3, <4>4, <4>5 DEF Recalls, more, t
      <3>5. CASE b.res = "ok"
        <4> DEFINE o == b.occurrence
                   out == Append(s.out, o)
                   built == IF IsReferenced(d, c) THEN Remembering(s.built, image, o) ELSE s.built
        <4>1. t = [s EXCEPT !.out = out, !.cache = b.cache, !.built = built]
          BY <1>1, <3>1, <3>5 DEF Enter
        <4>2. ReadsAs(d, image, o)
          BY <3>3, <3>5 DEF ReadsAs
        <4> HIDE DEF o
        <4>3. \A x \in DOMAIN built : ReadsAs(d, x, built[x])
          BY <2>4, <4>2 DEF Remembering
        <4> HIDE DEF out, built
        <4>4. /\ t.out = out /\ t.res = s.res /\ t.built = built /\ t.shared = s.shared
              /\ t.cache = b.cache
          BY ONLY <1>1, <4>1
        <4>5. Recalls(d, Append(found, c), t)
          BY <2>1, <2>2, <2>5, <3>3, <4>2, <4>3, <4>4, RecallsNext DEF out
        <4> QED  BY <2>3, <4>5 DEF t
      <3> QED  BY <3>4, <3>5
    <2> QED  BY <2>6, <2>7
  <1> QED  BY <1>2, <1>3

\* The images found stay found.
LEMMA FoundStays ==
    ASSUME NEW d, ConformingDoc(d), NEW n \in 0 .. Len(Children(d, 1)),
           NEW m \in n .. Len(Children(d, 1))
    PROVE  \A k \in DOMAIN Found(d, n) : k \in DOMAIN Found(d, m) /\ Found(d, m)[k] = Found(d, n)[k]
  <1> DEFINE Stays(x) == \A k \in DOMAIN Found(d, n) :
                            k \in DOMAIN Found(d, x) /\ Found(d, x)[k] = Found(d, n)[k]
             top == Len(Children(d, 1))
             Wrong == {x \in n .. top : ~ Stays(x)}
  <1>1. Children(d, 1) \in Seq(DOMAIN d.nodes)
    BY DEF ConformingDoc, Children
  <1>2. top \in Nat
    BY <1>1
  <1> HIDE DEF top
  <1> SUFFICES ASSUME Wrong # {} PROVE FALSE
    BY DEF top
  <1>3. PICK x \in Wrong : \A y \in Wrong : x <= y
    <2>1. Wrong \in SUBSET Nat
      BY <1>2 DEF top
    <2> HIDE DEF Wrong
    <2> QED  BY <2>1, Contents!LeastOf
  <1>4. x # n /\ x \in n .. top /\ ~ Stays(x)
    BY <1>3
  <1>5. x - 1 \in 0 .. top /\ x - 1 \in n .. top /\ Stays(x - 1) /\ x \in 1 .. top
    BY <1>2, <1>3, <1>4 DEF top
  <1>6. Found(d, x) = FindStep(d, Found(d, x - 1), Children(d, 1)[x])
    <2>1. x - 1 \in Nat /\ (x - 1) + 1 = x
      BY <1>5
    <2> QED  BY <2>1, FoundNext
  <1> DEFINE S == DOMAIN d.nodes
             old == Found(d, x - 1)
             c == Children(d, 1)[x]
  <1>7. old \in Seq(S) /\ c \in S
    BY <1>1, <1>2, <1>5, FoundSoFar DEF top
  <1> HIDE DEF S, old, c
  <1>8. \A k \in DOMAIN old : k \in DOMAIN Append(old, c) /\ Append(old, c)[k] = old[k]
    BY <1>7
  <1>9. \A k \in DOMAIN old : k \in DOMAIN Found(d, x) /\ Found(d, x)[k] = old[k]
    BY <1>6, <1>8 DEF FindStep, old, c
  <1> QED  BY <1>4, <1>5, <1>9 DEF old

\* What is found stands for an image.
LEMMA FoundAreImages ==
    ASSUME NEW d, ConformingDoc(d), NEW n \in 0 .. Len(Children(d, 1)), NEW k \in DOMAIN Found(d, n)
    PROVE  ImageAt(d, Found(d, n)[k]) # None /\ ImageAt(d, Found(d, n)[k]) \in DOMAIN d.nodes
  <1> DEFINE AllImages(x) == \A i \in DOMAIN Found(d, x) : ImageAt(d, Found(d, x)[i]) # None
             top == Len(Children(d, 1))
             Wrong == {x \in 0 .. top : ~ AllImages(x)}
  <1>1. Children(d, 1) \in Seq(DOMAIN d.nodes)
    BY DEF ConformingDoc, Children
  <1>2. top \in Nat
    BY <1>1
  <1>3. \A x \in 0 .. top : AllImages(x)
    <2> HIDE DEF top
    <2> SUFFICES ASSUME Wrong # {} PROVE FALSE
      OBVIOUS
    <2>1. PICK x \in Wrong : \A y \in Wrong : x <= y
      <3>1. Wrong \in SUBSET Nat
        OBVIOUS
      <3> HIDE DEF Wrong
      <3> QED  BY <3>1, Contents!LeastOf
    <2>2. x # 0
      <3>1. Found(d, 0) = <<>>
        BY FoundNext
      <3> QED  BY <2>1, <3>1
    <2>3. x - 1 \in 0 .. top /\ AllImages(x - 1) /\ x \in 1 .. top /\ ~ AllImages(x)
      BY <1>2, <2>1, <2>2
    <2> DEFINE S == DOMAIN d.nodes
               old == Found(d, x - 1)
               c == Children(d, 1)[x]
    <2>4. Found(d, x) = FindStep(d, old, c)
      <3>1. x - 1 \in Nat /\ (x - 1) + 1 = x
        BY <2>3
      <3> QED  BY <3>1, FoundNext
    <2>5. old \in Seq(S) /\ c \in S
      BY <1>1, <1>2, <2>3, FoundSoFar DEF top
    <2> HIDE DEF S
    <2>6. ASSUME ImageAt(d, c) # None PROVE \A i \in DOMAIN Append(old, c) : ImageAt(d, Append(old, c)[i]) # None
      <3>1. \A i \in DOMAIN old : ImageAt(d, old[i]) # None
        BY <2>3
      <3> HIDE DEF old, c
      <3>2. \A i \in DOMAIN Append(old, c) : \/ i \in DOMAIN old /\ Append(old, c)[i] = old[i]
                                             \/ Append(old, c)[i] = c
        BY <2>5
      <3> QED  BY <2>6, <3>1, <3>2
    <2>7. AllImages(x)
      BY <2>3, <2>4, <2>6 DEF FindStep
    <2> QED  BY <2>3, <2>7
  <1>4. ImageAt(d, Found(d, n)[k]) # None
    BY <1>3
  <1>5. Found(d, n)[k] \in DOMAIN d.nodes
    <2> DEFINE S == DOMAIN d.nodes
    <2>1. Found(d, n) \in Seq(S)
      BY FoundSoFar
    <2> QED  BY <2>1
  <1> QED  BY <1>4, <1>5, ImagesAreElements

\* An image's first element of a kind is the first of that kind it gathers.
LEMMA FirstIsGathered ==
    ASSUME ConformingDoc(doc), Telling(doc), NEW image \in DOMAIN doc.nodes
    PROVE  LET kids == Children(doc, image)
               got(kind) == FirstIn(doc, kids, Len(kids), kind) IN
           /\ FirstOf(image, "ColorFilterArray", ReadCfa, None) = ValueOr(got("cfa"), None)
           /\ FirstOf(image, "Resolution", ReadResolution, <<72, 72>>)
                 = ValueOr(got("resolution"), <<72, 72>>)
           /\ FirstOf(image, "DisplayFunction", ReadDisplayFunction, IdentityDisplay)
                 = ValueOr(got("display_function"), IdentityDisplay)
  <1> DEFINE kids == Children(doc, image)
             n == Len(kids)
             all(kind) == FirstAmong(doc, kids, n, kind)
             got(kind) == FirstIn(doc, kids, n, kind)
  <1>1. kids \in Seq(DOMAIN doc.nodes)
    BY DEF ConformingDoc, Children
  <1>2. n \in Nat /\ DOMAIN kids = 1 .. n
    BY <1>1
  <1>3. ASSUME NEW kind \in Kinds
        PROVE  /\ all(kind) = {k \in DOMAIN kids : StandsFor(kids[k], ElementOf(kind))}
               /\ IF all(kind) = {} THEN got(kind) = None
                  ELSE /\ got(kind) = ReadOf(doc, kind, Target(doc, kids[Min(all(kind))]))
                       /\ got(kind) # None
    <2>1. all(kind) = {k \in DOMAIN kids : StandsFor(kids[k], ElementOf(kind))}
      BY <1>2, Zenon DEF FirstAmong, Stands, StandsFor
    <2>2. CASE all(kind) = {}
      BY <2>1, <2>2, Zenon DEF FirstIn
    <2>3. CASE all(kind) # {}
      <3> DEFINE i == Min(all(kind))
      <3>1. all(kind) \in SUBSET Nat
        BY <1>2, <2>1
      <3>2. i \in all(kind)
        <4> HIDE DEF all
        <4> QED  BY <2>3, <3>1, MinOf
      <3>3. i \in DOMAIN kids /\ Stands(doc, kids[i], ElementOf(kind))
        BY <1>2, <3>2 DEF FirstAmong
      <3> HIDE DEF i
      <3>4. kids[i] \in DOMAIN doc.nodes
        BY <1>1, <3>3
      <3>5. Target(doc, kids[i]) \in DOMAIN doc.nodes
        BY <3>3, <3>4, TargetsAreElements DEF Stands
      <3>6. ReadOf(doc, kind, Target(doc, kids[i])) # None
        BY <3>3, <3>5 DEF Telling, Stands
      <3>7. got(kind) = ReadOf(doc, kind, Target(doc, kids[i]))
        BY <2>3, Zenon DEF FirstIn, i
      <3> QED  BY <2>1, <2>3, <3>6, <3>7, Zenon DEF i
    <2> QED  BY <2>2, <2>3, Zenon
  <1>4. "cfa" \in Kinds /\ "resolution" \in Kinds /\ "display_function" \in Kinds
    BY DEF Kinds
  <1>5. /\ ElementOf("cfa") = "ColorFilterArray" /\ ElementOf("resolution") = "Resolution"
        /\ ElementOf("display_function") = "DisplayFunction"
        /\ \A x : ReadOf(doc, "cfa", x) = ReadCfa(doc, x)
        /\ \A x : ReadOf(doc, "resolution", x) = ReadResolution(doc, x)
        /\ \A x : ReadOf(doc, "display_function", x) = ReadDisplayFunction(doc, x)
    BY DEF ElementOf, ReadOf
  <1> HIDE DEF all, got, n
  <1>6. FirstOf(image, "ColorFilterArray", ReadCfa, None) = ValueOr(got("cfa"), None)
    BY <1>3, <1>4, <1>5, Zenon DEF FirstOf, ValueOr
  <1>7. FirstOf(image, "Resolution", ReadResolution, <<72, 72>>)
           = ValueOr(got("resolution"), <<72, 72>>)
    BY <1>3, <1>4, <1>5, Zenon DEF FirstOf, ValueOr
  <1>8. FirstOf(image, "DisplayFunction", ReadDisplayFunction, IdentityDisplay)
           = ValueOr(got("display_function"), IdentityDisplay)
    BY <1>3, <1>4, <1>5, Zenon DEF FirstOf, ValueOr
  <1> QED  BY <1>6, <1>7, <1>8, Zenon DEF got, n

\* The occurrence of an image read alone, in the terms of the header read without a memo.
LEMMA FreshSays ==
    ASSUME ConformingDoc(doc), Telling(doc), NEW image \in DOMAIN doc.nodes
    PROVE  LET folded == FoldRecords(Unshared(RecordsOf(image)), ValueBytes, EmptyCache)
               o      == Fresh(doc, image).occurrence
               cfa    == FirstOf(image, "ColorFilterArray", ReadCfa, None)
               resolution == FirstOf(image, "Resolution", ReadResolution, <<72, 72>>)
               display    == FirstOf(image, "DisplayFunction", ReadDisplayFunction, IdentityDisplay)
           IN  /\ Fresh(doc, image).res = folded.res
               /\ o.header.keywords = folded.out
               /\ o.header.own = PropertiesOf(Children(doc, image), "Image")
               /\ o.header.cfa = cfa.value /\ o.header.resolution = resolution.value
               /\ o.header.display_function = display.value
               /\ o.header.split = SplitOf(SharedOf(doc), image)
               /\ o.plan = BuildOccurrence(doc, image, Reading,
                               <<cfa.fault, resolution.fault, display.fault>>).plan
  <1> DEFINE kids == Children(doc, image)
             got == Gathered(doc, image)
             g == FoldRecords(Unshared(got.keywords), ValueBytes, EmptyCache)
             cfa == ValueOr(got.cfa, None)
             resolution == ValueOr(got.resolution, <<72, 72>>)
             display == ValueOr(got.display_function, IdentityDisplay)
             b == BuildOccurrence(doc, image, Reading,
                                  <<cfa.fault, resolution.fault, display.fault>>)
             o == Fresh(doc, image).occurrence
  <1>1. /\ got.keywords = Recording!Fold(doc, <<>>, kids)
        /\ got.properties = Owning!Fold(doc, <<>>, kids)
        /\ got.cfa = FirstIn(doc, kids, Len(kids), "cfa")
        /\ got.resolution = FirstIn(doc, kids, Len(kids), "resolution")
        /\ got.display_function = FirstIn(doc, kids, Len(kids), "display_function")
    <2> DEFINE u == Recording!Fold(doc, <<>>, kids)
               v == Owning!Fold(doc, <<>>, kids)
               F(kind) == FirstIn(doc, kids, Len(kids), kind)
    <2>1. got = [keywords |-> u, properties |-> v, cfa |-> F("cfa"),
                 resolution |-> F("resolution"), display_function |-> F("display_function")]
      BY Zenon DEF Gathered
    <2> HIDE DEF got, u, v, F
    <2>2. /\ got.keywords = u /\ got.properties = v /\ got.cfa = F("cfa")
          /\ got.resolution = F("resolution") /\ got.display_function = F("display_function")
      BY ONLY <2>1
    <2> QED  BY <2>2, Zenon DEF u, v, F
  <1>2. RecordsOf(image) = Recording!Fold(doc, <<>>, kids)
    BY Zenon DEF RecordsOf, RecordStep, Stands, StandsFor, FoldLeft, MapThenFoldSet, Max,
       Recording!Fold, Recording!Iterates, Recording!Largest
  <1>3. PropertiesOf(kids, "Image") = Owning!Fold(doc, <<>>, kids)
    BY Zenon DEF PropertiesOf, OwnStep, Stands, StandsFor, FoldLeft, MapThenFoldSet, Max,
       Owning!Fold, Owning!Iterates, Owning!Largest
  <1>4. /\ FirstOf(image, "ColorFilterArray", ReadCfa, None) = cfa
        /\ FirstOf(image, "Resolution", ReadResolution, <<72, 72>>) = resolution
        /\ FirstOf(image, "DisplayFunction", ReadDisplayFunction, IdentityDisplay) = display
    BY <1>1, FirstIsGathered, Zenon
  <1>5. /\ Fresh(doc, image).res = g.res
        /\ o = [header |-> [geometry |-> b.header.geometry, bytes |-> b.header.bytes,
                            decline |-> b.header.decline, bounds |-> b.header.bounds,
                            granularity |-> b.header.granularity,
                            keywords |-> g.out, own |-> got.properties,
                            split |-> SplitOf(SharedOf(doc), image), cfa |-> cfa.value,
                            resolution |-> resolution.value, display_function |-> display.value],
                plan |-> b.plan]
    <2> DEFINE h == [header |-> [geometry |-> b.header.geometry, bytes |-> b.header.bytes,
                            decline |-> b.header.decline, bounds |-> b.header.bounds,
                            granularity |-> b.header.granularity,
                            keywords |-> g.out, own |-> got.properties,
                            split |-> SplitOf(SharedOf(doc), image), cfa |-> cfa.value,
                            resolution |-> resolution.value, display_function |-> display.value],
                     plan |-> b.plan]
               f == Fresh(doc, image)
    <2>1. f = [res |-> g.res, cache |-> g.cache, occurrence |-> h]
      BY Zenon DEF Fresh, OccurrenceWith
    <2> HIDE DEF f, h, g
    <2>2. f.res = g.res /\ f.occurrence = h
      BY ONLY <2>1
    <2> QED  BY <2>2 DEF f, h
  <1> HIDE DEF g, b, o, got, cfa, resolution, display
  <1>6. /\ o.header.keywords = g.out /\ o.header.own = got.properties /\ o.plan = b.plan
        /\ o.header.cfa = cfa.value /\ o.header.resolution = resolution.value
        /\ o.header.display_function = display.value
        /\ o.header.split = SplitOf(SharedOf(doc), image)
    BY ONLY <1>5
  <1>7. g = FoldRecords(Unshared(RecordsOf(image)), ValueBytes, EmptyCache)
    BY <1>1, <1>2, Zenon DEF g
  <1>8. b.plan = BuildOccurrence(doc, image, Reading,
                                 <<cfa.fault, resolution.fault, display.fault>>).plan
    BY DEF b
  <1> QED  BY <1>1, <1>3, <1>4, <1>5, <1>6, <1>7, <1>8, Zenon DEF o

\* What the walk recalls, at every root child it stopped at.
MemoInv == WalkInv /\ Recalls(doc, Found(doc, at), walk)

\* Documents tell their ancillary elements from none.
LEMMA DocsTell ==
    ASSUME NEW d \in Docs
    PROVE  ConformingDoc(d) /\ Telling(d)
  <1>1. ConformingDoc(d)
    BY DocsAssumption
  <1>2. Telling(d)
    <2> SUFFICES ASSUME NEW kind \in Kinds, NEW n \in DOMAIN d.nodes, NameOf(d, n) = ElementOf(kind)
                 PROVE  ReadOf(d, kind, n) # None
      BY DEF Telling
    <2>1. CASE kind = "cfa"
      BY <2>1, NoReadingAssumption DEF ElementOf, ReadOf
    <2>2. CASE kind = "resolution"
      BY <2>2, NoReadingAssumption DEF ElementOf, ReadOf
    <2>3. CASE kind = "display_function"
      BY <2>3, NoReadingAssumption DEF ElementOf, ReadOf
    <2> QED  BY <2>1, <2>2, <2>3 DEF Kinds
  <1> QED  BY <1>1, <1>2

\* It holds before the first child.
LEMMA MemoInitInv == Init => MemoInv
  <1> SUFFICES ASSUME Init PROVE MemoInv
    OBVIOUS
  <1>1. doc \in Docs /\ at = 0 /\ walk = WalkStart(doc)
    BY DEF Init
  <1>2. Found(doc, 0) = <<>>
    BY FoundNext
  <1>3. Recalls(doc, <<>>, WalkStart(doc))
    BY <1>1, DocsTell, RecallsNothing
  <1> QED  BY <1>1, <1>2, <1>3, WalkInitInv DEF MemoInv

\* Every child keeps it.
LEMMA MemoNextInv == MemoInv /\ [Next]_vars => MemoInv'
  <1> SUFFICES ASSUME MemoInv, [Next]_vars PROVE MemoInv'
    OBVIOUS
  <1>1. WalkInv'
    BY WalkNextInv DEF MemoInv
  <1>2. doc \in Docs /\ at \in 0 .. Len(RootChildren) /\ Walked(walk) /\ Counts
    BY DEF MemoInv, WalkInv
  <1>3. ConformingDoc(doc) /\ Telling(doc)
    BY <1>2, DocsTell
  <1>4. CASE Visit
    <2> DEFINE c == RootChildren[at + 1]
               found == Found(doc, at)
    <2>1. RootChildren \in Seq(DOMAIN doc.nodes)
      BY <1>3 DEF RootChildren, Children, ConformingDoc
    <2>2. /\ at \in Nat /\ at + 1 \in 1 .. Len(RootChildren) /\ doc' = doc /\ at' = at + 1
          /\ walk' = WalkChild(doc, walk, c)
      BY <1>2, <1>4, <2>1 DEF Visit
    <2>3. c \in DOMAIN doc.nodes
      BY <2>1, <2>2
    <2>4. found \in Seq(DOMAIN doc.nodes)
      BY <1>2, <1>3, FoundSoFar DEF RootChildren
    <2>5. Recalls(doc, FindStep(doc, found, c), WalkChild(doc, walk, c))
      BY <1>2, <1>3, <2>3, <2>4, RecallsTurn DEF MemoInv, Counts
    <2>6. Found(doc, at + 1) = FindStep(doc, found, c)
      BY <2>2, FoundNext DEF RootChildren
    <2> QED  BY <1>1, <2>2, <2>5, <2>6 DEF MemoInv
  <1>5. CASE UNCHANGED vars
    BY <1>1, <1>5 DEF MemoInv, vars
  <1> QED  BY <1>4, <1>5 DEF Next, Done

\* What the walk recalls is right, at every root child.
THEOREM MemoInvariance == Spec => []MemoInv
  <1> QED  BY MemoInitInv, MemoNextInv, PTL DEF Spec

\* Every occurrence is that of the image found there, read alone.
LEMMA Recalled ==
    ASSUME MemoInv
    PROVE  /\ Images \in Seq(DOMAIN doc.nodes)
           /\ \A k \in DOMAIN Images :
                 /\ ImageAt(doc, Images[k]) # None /\ ImageAt(doc, Images[k]) \in DOMAIN doc.nodes
           /\ \A k \in DOMAIN walk.out :
                 k \in DOMAIN Images /\ ReadsAs(doc, ImageAt(doc, Images[k]), walk.out[k])
  <1> DEFINE found == Found(doc, at)
             top == Len(RootChildren)
  <1>1. /\ doc \in Docs /\ at \in 0 .. top /\ Recalls(doc, found, walk)
    BY DEF MemoInv, WalkInv
  <1>2. ConformingDoc(doc)
    BY <1>1, DocsTell
  <1>3. top \in 0 .. top
    <2>1. RootChildren \in Seq(DOMAIN doc.nodes)
      BY <1>2 DEF RootChildren, Children, ConformingDoc
    <2> QED  BY <2>1
  <1>4. Images = Found(doc, top)
    BY <1>2, FoundAll
  <1>5. Images \in Seq(DOMAIN doc.nodes)
    BY <1>2, <1>3, <1>4, FoundSoFar DEF RootChildren
  <1>6. \A k \in DOMAIN found : k \in DOMAIN Images /\ Images[k] = found[k]
    <2>1. top \in at .. top
      BY <1>1, <1>3
    <2> QED  BY <1>1, <1>2, <1>4, <2>1, FoundStays DEF RootChildren
  <1>7. \A k \in DOMAIN Images :
           ImageAt(doc, Images[k]) # None /\ ImageAt(doc, Images[k]) \in DOMAIN doc.nodes
    BY <1>2, <1>3, <1>4, FoundAreImages DEF RootChildren
  <1>8. ASSUME NEW k \in DOMAIN walk.out
        PROVE  k \in DOMAIN Images /\ ReadsAs(doc, ImageAt(doc, Images[k]), walk.out[k])
    <2>1. k \in DOMAIN found /\ ReadsAs(doc, ImageOf(doc, found, k), walk.out[k])
      BY <1>1 DEF Recalls
    <2> QED  BY <1>6, <2>1 DEF ImageOf
  <1> QED  BY <1>5, <1>7, <1>8

\* A walk over every root child was refused exactly when an image within the cap is past its own.
LEMMA RefusalIsAnImages ==
    ASSUME MemoInv, at = Len(RootChildren)
    PROVE  walk.res = "ok" <=>
              \A k \in DOMAIN Images :
                 k <= ImagesPerSource + 1 => Fresh(doc, ImageAt(doc, Images[k])).res = "ok"
  <1>1. doc \in Docs /\ Walked(walk) /\ Counts /\ Recalls(doc, Found(doc, at), walk)
    BY DEF MemoInv, WalkInv
  <1>2. Images = Found(doc, at)
    BY <1>1, DocsTell, FoundAll
  <1>3. ASSUME walk.res # "ok"
        PROVE  \E k \in DOMAIN Images : /\ k <= ImagesPerSource + 1
                                        /\ Fresh(doc, ImageAt(doc, Images[k])).res # "ok"
    BY <1>1, <1>2, <1>3 DEF Recalls, ImageOf
  <1>4. ASSUME walk.res = "ok", NEW k \in DOMAIN Images, k <= ImagesPerSource + 1
        PROVE  Fresh(doc, ImageAt(doc, Images[k])).res = "ok"
    <2>1. Len(walk.out) = Least(Len(Images), ImagesPerSource + 1)
      BY <1>1, <1>2, <1>4 DEF Counts
    <2>2. k \in 1 .. Len(Images) /\ Len(Images) \in Nat
      <3>1. Images \in Seq(DOMAIN doc.nodes)
        BY Recalled
      <3> HIDE DEF Images
      <3> QED  BY <3>1
    <2>3. \E T : walk.out \in Seq(T)
      BY <1>1 DEF Walked
    <2>4. k \in DOMAIN walk.out
      BY <1>4, <2>1, <2>2, <2>3, ImagesPerSourceAssumption DEF Least
    <2> QED  BY <2>4, Recalled DEF ReadsAs
  <1> QED  BY <1>3, <1>4

\* What the walk recalls says what the header read without a memo says.
LEMMA RecallsInvisibly == MemoInv => MemoIsInvisible
  <1> SUFFICES ASSUME MemoInv PROVE MemoIsInvisible
    OBVIOUS
  <1>1. ConformingDoc(doc) /\ Telling(doc)
    BY DocsTell DEF MemoInv, WalkInv
  <1>2. ASSUME NEW k \in DOMAIN Images
        PROVE  LET image == ImageAt(doc, Images[k]) IN
               Fresh(doc, image).res
                  = FoldRecords(Unshared(RecordsOf(image)), ValueBytes, EmptyCache).res
    <2>1. ImageAt(doc, Images[k]) \in DOMAIN doc.nodes
      BY Recalled
    <2> QED  BY <1>1, <2>1, FreshSays
  <1> DEFINE Alone(k) == FoldRecords(Unshared(RecordsOf(ImageAt(doc, Images[k]))), ValueBytes,
                                     EmptyCache)
  <1>3. ASSUME at = Len(RootChildren)
        PROVE  walk.res = "ok" <=>
                  \A k \in DOMAIN Images : k <= ImagesPerSource + 1 => Alone(k).res = "ok"
    <2>1. \A k \in DOMAIN Images : Alone(k).res = Fresh(doc, ImageAt(doc, Images[k])).res
      BY <1>2
    <2> HIDE DEF Alone
    <2> QED  BY <1>3, <2>1, RefusalIsAnImages
  <1>4. ASSUME NEW k \in DOMAIN walk.out
        PROVE  LET image == ImageAt(doc, Images[k])
                   says  == walk.out[k].header
                   cfa   == FirstOf(image, "ColorFilterArray", ReadCfa, None)
                   resolution == FirstOf(image, "Resolution", ReadResolution, <<72, 72>>)
                   display    == FirstOf(image, "DisplayFunction", ReadDisplayFunction,
                                         IdentityDisplay) IN
               /\ says.keywords = FoldRecords(Unshared(RecordsOf(image)), ValueBytes, EmptyCache).out
               /\ says.own = PropertiesOf(Children(doc, image), "Image")
               /\ <<says.cfa, says.resolution, says.display_function>>
                     = <<cfa.value, resolution.value, display.value>>
               /\ walk.out[k].plan = BuildOccurrence(doc, image, Reading,
                                          <<cfa.fault, resolution.fault, display.fault>>).plan
    <2> DEFINE image == ImageAt(doc, Images[k])
    <2>1. image \in DOMAIN doc.nodes /\ walk.out[k] = Fresh(doc, image).occurrence
      BY Recalled DEF ReadsAs
    <2> HIDE DEF image
    <2> QED  BY <1>1, <2>1, FreshSays, Zenon DEF image
  <1> QED  BY <1>3, <1>4, Zenon DEF MemoIsInvisible, Alone

\* The memo is invisible: every occurrence of every header reads as though nothing had been read
\* before it, and a header is refused exactly for a chain past the cap in an image within it
\* (memoized of cache.rs, fold_records of keywords.rs, walk_occurrences of image.rs).
THEOREM MemoIsNeverSeen == Spec => []MemoIsInvisible
  <1> QED  BY MemoInvariance, RecallsInvisibly, PTL

-----------------------------------------------------------------------------
(* Document order.                                                         *)

\* Positions that go up.
Ascends(list) == \A i, j \in DOMAIN list : i < j => list[i] < list[j]

\* A list of some things is one of more.
LEMMA Widened ==
    ASSUME NEW T, NEW S \in SUBSET T, NEW list \in Seq(S)
    PROVE  list \in Seq(T)
  <1>1. list \in Seq(S \cup T)
    OBVIOUS
  <1>2. S \cup T = T
    OBVIOUS
  <1> QED  BY <1>1, <1>2, Zenon

\* A list of positions one higher than all of it is put at the end of ascends.
LEMMA AscendsOneMore ==
    ASSUME NEW list \in Seq(Nat), Ascends(list), NEW x \in Nat, \A i \in DOMAIN list : list[i] < x
    PROVE  Ascends(Append(list, x))
  BY DEF Ascends

\* Ascending lists joined ascend, when all of the one is below all of the other.
LEMMA AscendsJoined ==
    ASSUME NEW one \in Seq(Nat), Ascends(one), NEW two \in Seq(Nat), Ascends(two),
           \A i \in DOMAIN one : \A j \in DOMAIN two : one[i] < two[j]
    PROVE  one \o two \in Seq(Nat) /\ Ascends(one \o two)
  <1> DEFINE l == Len(one)
             both == one \o two
  <1>1. /\ l \in Nat /\ Len(two) \in Nat /\ DOMAIN one = 1 .. l /\ DOMAIN two = 1 .. Len(two)
        /\ both \in Seq(Nat) /\ DOMAIN both = 1 .. l + Len(two)
        /\ \A i \in DOMAIN both : both[i] = IF i <= l THEN one[i] ELSE two[i - l]
    OBVIOUS
  <1> HIDE DEF both, l
  <1>2. \A i, j \in DOMAIN both : i < j => both[i] < both[j]
    <2> SUFFICES ASSUME NEW i \in DOMAIN both, NEW j \in DOMAIN both, i < j PROVE both[i] < both[j]
      OBVIOUS
    <2>1. CASE j <= l
      BY <1>1, <2>1 DEF Ascends
    <2>2. CASE i <= l /\ ~ j <= l
      <3>1. i \in DOMAIN one /\ j - l \in DOMAIN two
        BY <1>1, <2>2
      <3> QED  BY <1>1, <2>2, <3>1
    <2>3. CASE ~ i <= l
      <3>1. i - l \in DOMAIN two /\ j - l \in DOMAIN two /\ i - l < j - l /\ ~ j <= l
        BY <1>1, <2>3
      <3>2. both[i] = two[i - l] /\ both[j] = two[j - l]
        BY <1>1, <2>3, <3>1
      <3> QED  BY <3>1, <3>2 DEF Ascends
    <2> QED  BY <2>1, <2>2, <2>3
  <1> QED  BY <1>1, <1>2 DEF Ascends, both

\* The elements of a document stand in order: what stands between an element and its child is
\* nobody's before that element.
LEMMA InOrder ==
    ASSUME NEW d, ConformingDoc(d), NEW n \in DOMAIN d.nodes, NEW i \in DOMAIN Children(d, n)
    PROVE  LET c == Children(d, n)[i] IN
           /\ c \in DOMAIN d.nodes /\ c \in Nat /\ n \in Nat /\ 0 < n /\ n < c
           /\ \A j \in DOMAIN Children(d, n) : j < i => Children(d, n)[j] < c
           /\ \A m \in DOMAIN d.nodes : \A j \in DOMAIN Children(d, m) :
                 LET b == Children(d, m)[j] IN (b = c => m = n) /\ (n < b /\ b < c => n <= m)
  <1>1. Children(d, n) \in Seq(DOMAIN d.nodes)
    BY DEF ConformingDoc, Children
  <1>2. Children(d, n)[i] \in DOMAIN d.nodes /\ DOMAIN d.nodes \subseteq Nat \ {0}
    BY <1>1 DEF ConformingDoc
  <1>3. /\ n < Children(d, n)[i]
        /\ \A j \in DOMAIN Children(d, n) : j < i => Children(d, n)[j] < Children(d, n)[i]
        /\ \A m \in DOMAIN d.nodes : \A j \in DOMAIN Children(d, m) :
              /\ Children(d, m)[j] = Children(d, n)[i] => m = n
              /\ n < Children(d, m)[j] /\ Children(d, m)[j] < Children(d, n)[i] => n <= m
    BY DEF ConformingDoc, InDocumentOrder, Children
  <1> QED  BY <1>2, <1>3

\* A Metadata element at the top of a document holds a child.
HeldAt(d, j, c) ==
    /\ NameOf(d, Children(d, 1)[j]) = "Metadata"
    /\ \E i \in DOMAIN Children(d, Children(d, 1)[j]) : c = Children(d, Children(d, 1)[j])[i]
Held(d, c) == \E j \in DOMAIN Children(d, 1) : HeldAt(d, j, c)

SortClaim(d, k, all) ==
    /\ all \in Seq(Nat) /\ Ascends(all)
    /\ \A x \in DOMAIN all : \E j \in 1 .. k : HeldAt(d, j, all[x])
Sorting == INSTANCE Folding WITH Step <- GatherStep, Claim <- SortClaim

\* What an earlier Metadata element holds stands before what a later one does.
LEMMA HeldInOrder ==
    ASSUME NEW d, ConformingDoc(d), NEW j \in DOMAIN Children(d, 1), NEW k \in DOMAIN Children(d, 1),
           j < k, NEW b, HeldAt(d, j, b), NEW c, HeldAt(d, k, c)
    PROVE  b < c
  <1> DEFINE M == Children(d, 1)[j]
             N == Children(d, 1)[k]
  <1>1. 1 \in DOMAIN d.nodes
    BY DEF ConformingDoc
  <1>2. /\ M \in DOMAIN d.nodes /\ N \in DOMAIN d.nodes /\ M \in Nat /\ N \in Nat /\ 1 < M /\ M < N
    BY <1>1, InOrder
  <1>3. PICK x \in DOMAIN Children(d, M) : b = Children(d, M)[x]
    BY DEF HeldAt
  <1>4. PICK y \in DOMAIN Children(d, N) : c = Children(d, N)[y]
    BY DEF HeldAt
  <1>5. /\ b \in Nat /\ M < b
        /\ \A m \in DOMAIN d.nodes : \A i \in DOMAIN Children(d, m) :
              LET a == Children(d, m)[i] IN (a = b => m = M) /\ (M < a /\ a < b => M <= m)
    BY <1>2, <1>3, InOrder
  <1>6. c \in Nat /\ N < c
    BY <1>2, <1>4, InOrder
  <1>7. c # b
    BY <1>2, <1>4, <1>5
  <1>8. N < b => M <= 1
    BY <1>1, <1>2, <1>5
  <1> HIDE DEF M, N
  <1> QED  BY <1>2, <1>5, <1>6, <1>7, <1>8

\* What Metadata elements hold stands in document order.
LEMMA MetadataAscends ==
    ASSUME NEW d, ConformingDoc(d)
    PROVE  LET all == MetadataChildren(d) IN
           /\ all \in Seq(Nat) /\ Ascends(all)
           /\ \A x \in DOMAIN all : Held(d, all[x])
  <1> DEFINE kids == Children(d, 1)
             n == Len(kids)
             all == MetadataChildren(d)
  <1>1. kids \in Seq(DOMAIN d.nodes) /\ 1 \in DOMAIN d.nodes
    BY DEF ConformingDoc, Children
  <1>2. n \in Nat /\ DOMAIN kids = 1 .. n
    BY <1>1
  <1>3. all = Sorting!Fold(d, <<>>, kids)
    BY Zenon DEF MetadataChildren, GatherStep, FoldLeft, MapThenFoldSet, Max,
       Sorting!Fold, Sorting!Iterates, Sorting!Largest
  <1> HIDE DEF all, n
  <1>4. SortClaim(d, 0, <<>>)
    BY DEF SortClaim, Ascends
  <1>5. ASSUME NEW k \in 1 .. n, NEW s, SortClaim(d, k - 1, s)
        PROVE  SortClaim(d, k, GatherStep(d, s, kids[k]))
    <2> DEFINE M == kids[k]
               held == Children(d, M)
    <2>1. s \in Seq(Nat) /\ Ascends(s) /\ \A x \in DOMAIN s : \E j \in 1 .. k - 1 : HeldAt(d, j, s[x])
      BY <1>5 DEF SortClaim
    <2>2. CASE NameOf(d, M) # "Metadata"
      <3>1. GatherStep(d, s, M) = s
        BY <2>2 DEF GatherStep
      <3>2. \A x \in DOMAIN s : \E j \in 1 .. k : HeldAt(d, j, s[x])
        BY <1>2, <2>1
      <3> QED  BY <2>1, <3>1, <3>2 DEF SortClaim
    <2>3. CASE NameOf(d, M) = "Metadata"
      <3>1. GatherStep(d, s, M) = s \o held
        BY <2>3 DEF GatherStep
      <3>2. M \in DOMAIN d.nodes
        BY <1>1, <1>2
      <3>3. held \in Seq(Nat)
        <4> DEFINE S == DOMAIN d.nodes
        <4>1. held \in Seq(S) /\ S \subseteq Nat
          BY <3>2 DEF ConformingDoc, Children
        <4> HIDE DEF S, held
        <4> QED  BY <4>1, Widened
      <3>4. Ascends(held)
        BY <3>2, InOrder DEF Ascends
      <3>5. \A y \in DOMAIN held : HeldAt(d, k, held[y])
        BY <2>3 DEF HeldAt
      <3> HIDE DEF held, M, kids
      <3>6. ASSUME NEW x \in DOMAIN s, NEW y \in DOMAIN held PROVE s[x] < held[y]
        <4>1. PICK j \in 1 .. k - 1 : HeldAt(d, j, s[x])
          BY <2>1
        <4>2. j \in DOMAIN kids /\ k \in DOMAIN kids /\ j < k
          BY <1>2
        <4> QED  BY <3>5, <4>1, <4>2, HeldInOrder DEF kids
      <3>7. s \o held \in Seq(Nat) /\ Ascends(s \o held)
        BY <2>1, <3>3, <3>4, <3>6, AscendsJoined
      <3>8. ASSUME NEW x \in DOMAIN (s \o held)
            PROVE  \E j \in 1 .. k : HeldAt(d, j, (s \o held)[x])
        <4>1. \/ x \in DOMAIN s /\ (s \o held)[x] = s[x]
              \/ x - Len(s) \in DOMAIN held /\ (s \o held)[x] = held[x - Len(s)]
          BY <2>1, <3>3
        <4>2. CASE x \in DOMAIN s /\ (s \o held)[x] = s[x]
          <5>1. PICK j \in 1 .. k - 1 : HeldAt(d, j, s[x])
            BY <2>1, <4>2
          <5>2. j \in 1 .. k
            BY <1>2
          <5> QED  BY <4>2, <5>1, <5>2
        <4>3. CASE x - Len(s) \in DOMAIN held /\ (s \o held)[x] = held[x - Len(s)]
          <5>1. k \in 1 .. k
            BY <1>2
          <5> QED  BY <3>5, <4>3, <5>1
        <4> QED  BY <4>1, <4>2, <4>3
      <3> QED  BY <3>1, <3>7, <3>8 DEF SortClaim, M
    <2> QED  BY <2>2, <2>3
  <1>6. SortClaim(d, n, all)
    <2> HIDE DEF kids
    <2> QED  BY <1>2, <1>3, <1>4, <1>5, Sorting!FoldKeeps
  <1>7. \A x \in DOMAIN all : Held(d, all[x])
    BY <1>2, <1>6 DEF SortClaim, Held
  <1> QED  BY <1>6, <1>7 DEF SortClaim, all

\* Picking one child more keeps the order.
LEMMA PickTurn ==
    ASSUME NEW e, e.kids \in Seq(Nat), Ascends(e.kids), NEW k \in DOMAIN e.kids, NEW s,
           PickClaim(e, k - 1, s)
    PROVE  /\ PickClaim(e, k, s)
           /\ \A v : Stands(e.doc, e.kids[k], "Property")
                        => PickClaim(e, k, Append(s, <<e.kids[k], v>>))
  <1>1. k \in Nat \ {0} /\ \A j \in 1 .. k - 1 : j \in DOMAIN e.kids /\ e.kids[j] < e.kids[k]
    BY DEF Ascends
  <1>2. /\ \A x \in DOMAIN s : \E j \in 1 .. k - 1 : /\ s[x][1] = e.kids[j]
                                                     /\ Stands(e.doc, e.kids[j], "Property")
        /\ \A x, y \in DOMAIN s : x < y => s[x][1] < s[y][1]
    BY DEF PickClaim
  <1>3. PICK S : s \in Seq(S)
    BY DEF PickClaim
  <1>4. \A j \in 1 .. k - 1 : j \in 1 .. k
    BY <1>1
  <1>5. \A x \in DOMAIN s : \E j \in 1 .. k : /\ s[x][1] = e.kids[j]
                                              /\ Stands(e.doc, e.kids[j], "Property")
    BY <1>2, <1>4
  <1>6. PickClaim(e, k, s)
    BY <1>2, <1>3, <1>5 DEF PickClaim
  <1>7. ASSUME NEW v, Stands(e.doc, e.kids[k], "Property")
        PROVE  PickClaim(e, k, Append(s, <<e.kids[k], v>>))
    <2> DEFINE new == <<e.kids[k], v>>
               more == Append(s, new)
               n == Len(s) + 1
               T == S \cup {new}
    <2>1. new[1] = e.kids[k]
      OBVIOUS
    <2> HIDE DEF new
    <2>2. s \in Seq(T) /\ new \in T
      BY <1>3
    <2> HIDE DEF T
    <2>3. /\ more \in Seq(T) /\ DOMAIN more = 1 .. n /\ DOMAIN s = 1 .. n - 1 /\ n \in Nat \ {0}
          /\ more[n] = new /\ \A x \in 1 .. n - 1 : more[x] = s[x]
      BY <2>2
    <2> HIDE DEF more, n
    <2>4. \A x \in DOMAIN more : \E j \in 1 .. k : /\ more[x][1] = e.kids[j]
                                                   /\ Stands(e.doc, e.kids[j], "Property")
      <3> SUFFICES ASSUME NEW x \in DOMAIN more
                   PROVE  \E j \in 1 .. k : /\ more[x][1] = e.kids[j]
                                            /\ Stands(e.doc, e.kids[j], "Property")
        OBVIOUS
      <3>1. CASE x = n
        <4>1. k \in 1 .. k
          BY <1>1
        <4> QED  BY <1>7, <2>1, <2>3, <3>1, <4>1
      <3>2. CASE x # n
        <4>1. x \in DOMAIN s /\ more[x] = s[x]
          BY <2>3, <3>2
        <4> QED  BY <1>5, <4>1
      <3> QED  BY <3>1, <3>2
    <2>5. ASSUME NEW x \in DOMAIN more, NEW y \in DOMAIN more, x < y PROVE more[x][1] < more[y][1]
      <3>1. x \in DOMAIN s /\ more[x] = s[x]
        BY <2>3, <2>5
      <3>2. CASE y = n
        <4>1. PICK j \in 1 .. k - 1 : s[x][1] = e.kids[j]
          BY <1>2, <3>1
        <4>2. e.kids[j] < e.kids[k]
          BY <1>1, <4>1
        <4>3. more[y][1] = e.kids[k]
          BY <2>1, <2>3, <3>2
        <4> QED  BY <3>1, <4>1, <4>2, <4>3
      <3>3. CASE y # n
        <4>1. y \in DOMAIN s /\ more[y] = s[y]
          BY <2>3, <3>3
        <4> QED  BY <1>2, <2>5, <3>1, <4>1
      <3> QED  BY <3>2, <3>3
    <2>6. PickClaim(e, k, more)
      BY <2>3, <2>4, <2>5 DEF PickClaim
    <2> QED  BY <2>6 DEF more, new
  <1> QED  BY <1>6, <1>7

\* Nothing picked is in order.
LEMMA PickNone == \A e : PickClaim(e, 0, <<>>)
  <1> DEFINE none == {}
  <1>1. <<>> \in Seq(none) /\ DOMAIN <<>> = {}
    OBVIOUS
  <1> HIDE DEF none
  <1> QED  BY <1>1 DEF PickClaim

\* The properties of an image's children, and of Metadata's, stand in their order.
LEMMA PropertiesPicked ==
    ASSUME NEW d, NEW kids \in Seq(Nat), Ascends(kids)
    PROVE  LET e == [doc |-> d, kids |-> kids] IN
           /\ PickClaim(e, Len(kids), Owning!Fold(d, <<>>, kids))
           /\ PickClaim(e, Len(kids), Sharing!Fold(d, <<>>, kids))
  <1> DEFINE e == [doc |-> d, kids |-> kids]
             n == Len(kids)
  <1>1. n \in Nat /\ DOMAIN kids = 1 .. n /\ e.doc = d /\ e.kids = kids
    OBVIOUS
  <1> HIDE DEF e, n
  <1>2. PickClaim(e, 0, <<>>)
    BY PickNone
  <1>3. ASSUME NEW i \in 1 .. n, NEW s, PickClaim(e, i - 1, s)
        PROVE  /\ PickClaim(e, i, OwnStep(d, s, kids[i]))
               /\ PickClaim(e, i, SharedStep(d, s, kids[i]))
    <2>1. /\ PickClaim(e, i, s)
          /\ \A v : Stands(d, kids[i], "Property") => PickClaim(e, i, Append(s, <<kids[i], v>>))
      BY <1>1, <1>3, PickTurn
    <2>2. PickClaim(e, i, OwnStep(d, s, kids[i]))
      BY <2>1, Zenon DEF OwnStep
    <2>3. PickClaim(e, i, SharedStep(d, s, kids[i]))
      BY <2>1, Zenon DEF SharedStep
    <2> QED  BY <2>2, <2>3
  <1>4. PickClaim(e, n, Owning!Fold(d, <<>>, kids))
    BY <1>1, <1>2, <1>3, Owning!FoldMaintains
  <1>5. PickClaim(e, n, Sharing!Fold(d, <<>>, kids))
    BY <1>1, <1>2, <1>3, Sharing!FoldMaintains
  <1> QED  BY <1>4, <1>5 DEF e, n

\* Where a list of ascending positions is cut to let one in.
LEMMA SplitCounts ==
    ASSUME NEW S, NEW shared \in Seq(S), NEW x \in Nat,
           \A k \in DOMAIN shared : shared[k][1] \in Nat,
           \A i, j \in DOMAIN shared : i < j => shared[i][1] < shared[j][1]
    PROVE  /\ SplitOf(shared, x) \in 0 .. Len(shared)
           /\ \A k \in DOMAIN shared : shared[k][1] < x <=> k <= SplitOf(shared, x)
  <1> DEFINE n == Len(shared)
             before == {k \in DOMAIN shared : shared[k][1] < x}
             rest == (DOMAIN shared \ before) \cup {n + 1}
  <1>1. n \in Nat /\ DOMAIN shared = 1 .. n
    OBVIOUS
  <1>2. PICK k \in rest : \A j \in rest : k <= j
    <2>1. rest \in SUBSET Nat /\ rest # {}
      BY <1>1
    <2> HIDE DEF rest
    <2> QED  BY <2>1, Contents!LeastOf
  <1>3. k \in 1 .. n + 1
    BY <1>1, <1>2
  <1>4. ASSUME NEW i \in 1 .. n
        PROVE  shared[i][1] < x <=> i <= k - 1
    <2>1. CASE i < k
      <3>1. i \notin rest
        BY <1>1, <1>2, <1>3, <2>1
      <3>2. i \in before
        BY <1>1, <3>1
      <3> QED  BY <1>3, <2>1, <3>2
    <2>2. CASE i = k
      <3>1. i \in DOMAIN shared /\ i # n + 1
        BY <1>1
      <3>2. i \notin before
        BY <1>2, <2>2, <3>1
      <3> QED  BY <1>3, <2>2, <3>1, <3>2
    <2>3. CASE i > k
      <3>1. k \in DOMAIN shared /\ k # n + 1
        BY <1>1, <1>3, <2>3
      <3>2. k \notin before
        BY <1>2, <3>1
      <3>3. ~ shared[k][1] < x /\ shared[k][1] < shared[i][1] /\ shared[k][1] \in Nat
            /\ shared[i][1] \in Nat
        BY <1>1, <2>3, <3>1, <3>2
      <3> QED  BY <1>3, <2>3, <3>3
    <2> QED  BY <1>3, <2>1, <2>2, <2>3
  <1>5. before = 1 .. k - 1
    BY <1>1, <1>3, <1>4
  <1>6. SplitOf(shared, x) = k - 1
    <2>1. SplitOf(shared, x) = Cardinality(1 .. k - 1)
      BY <1>5, Zenon DEF SplitOf
    <2> QED  BY <1>3, <2>1, FS_Interval
  <1> QED  BY <1>1, <1>3, <1>4, <1>6

\* One list after another.
LEMMA Concatenated ==
    ASSUME NEW S, NEW a \in Seq(S), NEW b \in Seq(S)
    PROVE  /\ a \o b \in Seq(S) /\ DOMAIN (a \o b) = 1 .. Len(a) + Len(b)
           /\ Len(a \o b) = Len(a) + Len(b)
           /\ \A i \in 1 .. Len(a) : (a \o b)[i] = a[i]
           /\ \A i \in Len(a) + 1 .. Len(a) + Len(b) : (a \o b)[i] = b[i - Len(a)]
  OBVIOUS

\* Interleaved where the one is cut, two ascending lists ascend, and nothing is lost.
LEMMA Interleaved ==
    ASSUME NEW S, NEW shared \in Seq(S), NEW own \in Seq(S), NEW t \in 0 .. Len(shared),
           \A k \in DOMAIN shared : shared[k][1] \in Nat,
           \A k \in DOMAIN own : own[k][1] \in Nat,
           \A i, j \in DOMAIN shared : i < j => shared[i][1] < shared[j][1],
           \A i, j \in DOMAIN own : i < j => own[i][1] < own[j][1],
           \A k \in DOMAIN shared : \A j \in DOMAIN own :
              IF k <= t THEN shared[k][1] < own[j][1] ELSE own[j][1] < shared[k][1]
    PROVE  LET merged == SubSeq(shared, 1, t) \o own \o SubSeq(shared, t + 1, Len(shared)) IN
           /\ \A i, j \in DOMAIN merged : i < j => merged[i][1] < merged[j][1]
           /\ Range(merged) = Range(shared) \cup Range(own)
  <1> DEFINE n == Len(shared)
             m == Len(own)
             head == SubSeq(shared, 1, t)
             tail == SubSeq(shared, t + 1, n)
             merged == head \o own \o tail
  <1>1. n \in Nat /\ m \in Nat /\ DOMAIN shared = 1 .. n /\ DOMAIN own = 1 .. m /\ t \in 0 .. n
    OBVIOUS
  <1>2. /\ head \in Seq(S) /\ Len(head) = t /\ \A i \in 1 .. t : head[i] = shared[i]
        /\ tail \in Seq(S) /\ Len(tail) = n - t /\ \A i \in 1 .. n - t : tail[i] = shared[t + i]
    <2>1. /\ head \in Seq(S) /\ Len(head) = (IF 1 <= t THEN t - 1 + 1 ELSE 0)
          /\ \A i \in 1 .. t - 1 + 1 : head[i] = shared[1 + i - 1]
      <3>1. 1 \in 1 .. n + 1 /\ t \in Int /\ t <= n /\ \A i \in 1 .. t : i \in 1 .. n
        BY <1>1
      <3> QED  BY <1>1, <3>1, SubSeqProperties
    <2>2. /\ tail \in Seq(S) /\ Len(tail) = (IF t + 1 <= n THEN n - (t + 1) + 1 ELSE 0)
          /\ \A i \in 1 .. n - (t + 1) + 1 : tail[i] = shared[(t + 1) + i - 1]
      BY <1>1, SubSeqProperties
    <2> HIDE DEF head, tail, n
    <2>3. /\ t - 1 + 1 = t /\ \A i \in 1 .. t : 1 + i - 1 = i
          /\ n - (t + 1) + 1 = n - t /\ \A i \in 1 .. n - t : (t + 1) + i - 1 = t + i
      BY <1>1
    <2> QED  BY <1>1, <2>1, <2>2, <2>3
  <1> HIDE DEF head, tail, n, m
  <1>3. /\ DOMAIN merged = 1 .. n + m
        /\ \A i \in 1 .. t : merged[i] = shared[i]
        /\ \A i \in t + 1 .. t + m : merged[i] = own[i - t]
        /\ \A i \in t + m + 1 .. n + m : merged[i] = shared[i - m]
    <2> DEFINE front == head \o own
    <2>1. /\ front \in Seq(S) /\ Len(front) = t + m
          /\ \A i \in 1 .. t : front[i] = shared[i]
          /\ \A i \in t + 1 .. t + m : front[i] = own[i - t]
      <3>1. /\ front \in Seq(S) /\ Len(front) = Len(head) + Len(own)
            /\ \A i \in 1 .. Len(head) : front[i] = head[i]
            /\ \A i \in Len(head) + 1 .. Len(head) + Len(own) : front[i] = own[i - Len(head)]
        BY <1>2, Concatenated
      <3> HIDE DEF front
      <3> QED  BY <1>2, <3>1 DEF m
    <2>2. /\ DOMAIN merged = 1 .. Len(front) + Len(tail)
          /\ \A i \in 1 .. Len(front) : merged[i] = front[i]
          /\ \A i \in Len(front) + 1 .. Len(front) + Len(tail) : merged[i] = tail[i - Len(front)]
      <3> HIDE DEF front
      <3>1. merged = front \o tail
        BY DEF front
      <3>2. front \in Seq(S) /\ tail \in Seq(S)
        BY <1>2, <2>1
      <3> HIDE DEF merged
      <3> DEFINE both == front \o tail
      <3>3. /\ DOMAIN both = 1 .. Len(front) + Len(tail)
            /\ \A i \in 1 .. Len(front) : both[i] = front[i]
            /\ \A i \in Len(front) + 1 .. Len(front) + Len(tail) : both[i] = tail[i - Len(front)]
        BY ONLY <3>2, Concatenated
      <3> HIDE DEF both
      <3>4. merged = both
        BY <3>1 DEF both
      <3> QED  BY ONLY <3>3, <3>4
    <2> HIDE DEF front, merged
    <2>3. /\ DOMAIN merged = 1 .. (t + m) + (n - t)
          /\ \A i \in 1 .. t + m : merged[i] = front[i]
          /\ \A i \in (t + m) + 1 .. (t + m) + (n - t) : merged[i] = tail[i - (t + m)]
      BY <1>2, <2>1, <2>2
    <2>4. /\ (t + m) + (n - t) = n + m
          /\ \A i \in t + m + 1 .. n + m : i - (t + m) \in 1 .. n - t /\ t + (i - (t + m)) = i - m
      BY <1>1
    <2> QED  BY <1>1, <1>2, <2>1, <2>3, <2>4
  <1> HIDE DEF merged
  <1>4. ASSUME NEW i \in DOMAIN merged, NEW j \in DOMAIN merged, i < j
        PROVE  merged[i][1] < merged[j][1]
    <2>1. \/ i \in 1 .. t \/ i \in t + 1 .. t + m \/ i \in t + m + 1 .. n + m
      BY <1>1, <1>3
    <2>2. CASE i \in 1 .. t /\ j \in 1 .. t
      BY <1>1, <1>3, <1>4, <2>2
    <2>3. CASE i \in 1 .. t /\ j \in t + 1 .. t + m
      <3>1. i \in DOMAIN shared /\ i <= t /\ j - t \in DOMAIN own
        BY <1>1, <2>3
      <3> QED  BY <1>3, <2>3, <3>1
    <2>4. CASE i \in 1 .. t /\ j \in t + m + 1 .. n + m
      <3>1. i \in DOMAIN shared /\ j - m \in DOMAIN shared /\ i < j - m
        BY <1>1, <2>4
      <3> QED  BY <1>3, <2>4, <3>1
    <2>5. CASE i \in t + 1 .. t + m /\ j \in t + 1 .. t + m
      <3>1. i - t \in DOMAIN own /\ j - t \in DOMAIN own /\ i - t < j - t
        BY <1>1, <1>4, <2>5
      <3> QED  BY <1>3, <2>5, <3>1
    <2>6. CASE i \in t + 1 .. t + m /\ j \in t + m + 1 .. n + m
      <3>1. i - t \in DOMAIN own /\ j - m \in DOMAIN shared /\ ~ j - m <= t
        BY <1>1, <2>6
      <3> QED  BY <1>3, <2>6, <3>1
    <2>7. CASE i \in t + m + 1 .. n + m /\ j \in t + m + 1 .. n + m
      <3>1. i - m \in DOMAIN shared /\ j - m \in DOMAIN shared /\ i - m < j - m
        BY <1>1, <1>4, <2>7
      <3> QED  BY <1>3, <2>7, <3>1
    <2> QED  BY <1>1, <1>3, <1>4, <2>1, <2>2, <2>3, <2>4, <2>5, <2>6, <2>7
  <1>5. ASSUME NEW i \in DOMAIN merged
        PROVE  \/ \E k \in DOMAIN shared : merged[i] = shared[k]
               \/ \E k \in DOMAIN own : merged[i] = own[k]
    <2>1. CASE i \in 1 .. t
      <3>1. i \in DOMAIN shared
        BY <1>1, <2>1
      <3> QED  BY <1>3, <2>1, <3>1
    <2>2. CASE i \in t + 1 .. t + m
      <3>1. i - t \in DOMAIN own
        BY <1>1, <2>2
      <3> QED  BY <1>3, <2>2, <3>1
    <2>3. CASE i \in t + m + 1 .. n + m
      <3>1. i - m \in DOMAIN shared
        BY <1>1, <2>3
      <3> QED  BY <1>3, <2>3, <3>1
    <2> QED  BY <1>1, <1>3, <2>1, <2>2, <2>3
  <1>6. ASSUME NEW k \in DOMAIN shared
        PROVE  \E i \in DOMAIN merged : merged[i] = shared[k]
    <2>1. CASE k <= t
      <3>1. k \in DOMAIN merged /\ k \in 1 .. t
        BY <1>1, <1>3, <2>1
      <3> QED  BY <1>3, <3>1
    <2>2. CASE ~ k <= t
      <3>1. k + m \in DOMAIN merged /\ k + m \in t + m + 1 .. n + m /\ (k + m) - m = k
        BY <1>1, <1>3, <2>2
      <3> QED  BY <1>3, <3>1
    <2> QED  BY <2>1, <2>2
  <1>7. ASSUME NEW k \in DOMAIN own
        PROVE  \E i \in DOMAIN merged : merged[i] = own[k]
    <2>1. k + t \in DOMAIN merged /\ k + t \in t + 1 .. t + m /\ (k + t) - t = k
      BY <1>1, <1>3
    <2> QED  BY <1>3, <2>1
  <1>8. Range(merged) = Range(shared) \cup Range(own)
    BY <1>5, <1>6, <1>7 DEF Range
  <1> QED  BY <1>4, <1>8 DEF merged, head, tail, n

\* A property of Metadata stands before the image or after all it holds.
LEMMA OwnAmongShared ==
    ASSUME NEW d, ConformingDoc(d), NEW image \in DOMAIN d.nodes, NameOf(d, image) = "Image",
           NEW i \in DOMAIN Children(d, image), NEW n, Held(d, n), Stands(d, n, "Property")
    PROVE  LET c == Children(d, image)[i] IN
           /\ n \in Nat /\ c \in Nat /\ image \in Nat
           /\ IF n < image THEN n < c ELSE c < n
  <1> DEFINE c == Children(d, image)[i]
  <1>1. /\ c \in Nat /\ image \in Nat /\ 0 < image /\ image < c
        /\ \A m \in DOMAIN d.nodes : \A j \in DOMAIN Children(d, m) :
              LET b == Children(d, m)[j] IN (b = c => m = image) /\ (image < b /\ b < c => image <= m)
    BY InOrder
  <1>2. PICK j \in DOMAIN Children(d, 1) : HeldAt(d, j, n)
    BY DEF Held
  <1> DEFINE M == Children(d, 1)[j]
  <1>3. 1 \in DOMAIN d.nodes /\ NameOf(d, 1) = "xisf"
    BY DEF ConformingDoc
  <1>4. M \in DOMAIN d.nodes /\ M \in Nat /\ 1 < M /\ NameOf(d, M) = "Metadata"
    BY <1>2, <1>3, InOrder DEF HeldAt
  <1>5. PICK y \in DOMAIN Children(d, M) : n = Children(d, M)[y]
    BY <1>2 DEF HeldAt
  <1>6. n \in Nat /\ M < n
    BY <1>4, <1>5, InOrder
  <1>7. n # image
    <2> SUFFICES ASSUME n = image PROVE FALSE
      OBVIOUS
    <2>1. Target(d, n) = n
      BY DEF Target
    <2> QED  BY <2>1 DEF Stands
  <1>8. n # c
    BY <1>1, <1>4, <1>5
  <1>9. ~ (image < n /\ n < c)
    <2> SUFFICES ASSUME image < n, n < c PROVE FALSE
      OBVIOUS
    <2>1. image <= M
      BY <1>1, <1>4, <1>5
    <2>2. image < M
      BY <1>1, <1>4, <2>1
    <2>3. M < c
      BY <1>1, <1>4, <1>6
    <2>4. image <= 1
      BY <1>1, <1>2, <1>3, <2>2, <2>3
    <2>5. image = 1
      BY <1>1, <2>4
    <2> QED  BY <1>3, <2>5
  <1> HIDE DEF c, M
  <1>10. IF n < image THEN n < c ELSE c < n
    BY <1>1, <1>6, <1>7, <1>8, <1>9
  <1> QED  BY <1>1, <1>6, <1>10 DEF c

\* What the walk recalls interleaves in document order.
LEMMA RecallsInOrder == MemoInv => PropertiesInDocumentOrder
  <1> SUFFICES ASSUME MemoInv, NEW k \in DOMAIN walk.out
               PROVE  LET h      == walk.out[k].header
                          merged == SubSeq(walk.shared, 1, h.split) \o h.own
                                       \o SubSeq(walk.shared, h.split + 1, Len(walk.shared)) IN
                      /\ \A i, j \in DOMAIN merged : i < j => merged[i][1] < merged[j][1]
                      /\ Range(merged) = Range(PropertiesOf(MetadataChildren(doc), "Metadata"))
                            \cup Range(PropertiesOf(Children(doc, ImageAt(doc, Images[k])), "Image"))
    BY DEF PropertiesInDocumentOrder
  <1> DEFINE image == ImageAt(doc, Images[k])
             kids == Children(doc, image)
             meta == MetadataChildren(doc)
             shared == SharedOf(doc)
             own == Owning!Fold(doc, <<>>, kids)
             split == SplitOf(shared, image)
             h == walk.out[k].header
  <1>1. ConformingDoc(doc) /\ Telling(doc) /\ walk.shared = shared
    BY DocsTell DEF MemoInv, WalkInv, Recalls
  <1>2. /\ image # None /\ image \in DOMAIN doc.nodes
        /\ walk.out[k] = Fresh(doc, image).occurrence
    BY Recalled DEF ReadsAs
  <1>3. NameOf(doc, image) = "Image"
    BY <1>2 DEF ImageAt
  <1>4. PropertiesOf(kids, "Image") = own
    BY Zenon DEF PropertiesOf, OwnStep, Stands, StandsFor, FoldLeft, MapThenFoldSet, Max,
       Owning!Fold, Owning!Iterates, Owning!Largest
  <1>5. PropertiesOf(meta, "Metadata") = shared
    BY Zenon DEF SharedOf, PropertiesOf, SharedStep, Stands, StandsFor, FoldLeft, MapThenFoldSet,
       Max, Sharing!Fold, Sharing!Iterates, Sharing!Largest
  <1>6. h.own = own /\ h.split = split
    <2> HIDE DEF image, own, shared, kids
    <2>1. LET o == Fresh(doc, image).occurrence IN
          o.header.own = PropertiesOf(Children(doc, image), "Image")
          /\ o.header.split = SplitOf(SharedOf(doc), image)
      BY <1>1, <1>2, FreshSays, Zenon
    <2> QED  BY <1>2, <1>4, <2>1, Zenon DEF kids, shared
  <1>7. meta \in Seq(Nat) /\ Ascends(meta) /\ \A x \in DOMAIN meta : Held(doc, meta[x])
    BY <1>1, MetadataAscends
  <1>8. kids \in Seq(Nat) /\ Ascends(kids) /\ \A x \in DOMAIN kids : kids[x] \in Nat
    <2> DEFINE S == DOMAIN doc.nodes
    <2> HIDE DEF image
    <2>1. kids \in Seq(S) /\ S \subseteq Nat
      BY <1>1, <1>2 DEF ConformingDoc, Children
    <2>2. Ascends(kids)
      BY <1>1, <1>2, InOrder DEF Ascends
    <2> HIDE DEF S, kids
    <2>3. kids \in Seq(Nat)
      BY <2>1, Widened
    <2> QED  BY <2>2, <2>3
  <1> HIDE DEF kids, meta, shared, own, image, split, h
  <1>9. /\ \E S : own \in Seq(S)
        /\ \A x \in DOMAIN own : \E j \in DOMAIN kids : own[x][1] = kids[j]
        /\ \A x, y \in DOMAIN own : x < y => own[x][1] < own[y][1]
    <2>1. DOMAIN kids = 1 .. Len(kids)
      BY <1>8
    <2>2. PickClaim([doc |-> doc, kids |-> kids], Len(kids), own)
      BY <1>8, PropertiesPicked DEF own
    <2> QED  BY <2>1, <2>2 DEF PickClaim
  <1>10. /\ \E S : shared \in Seq(S)
         /\ \A x \in DOMAIN shared : \E j \in DOMAIN meta : /\ shared[x][1] = meta[j]
                                                            /\ Stands(doc, meta[j], "Property")
         /\ \A x, y \in DOMAIN shared : x < y => shared[x][1] < shared[y][1]
    <2>1. DOMAIN meta = 1 .. Len(meta)
      BY <1>7
    <2>2. PickClaim([doc |-> doc, kids |-> meta], Len(meta), shared)
      BY <1>7, PropertiesPicked DEF shared, SharedOf, meta
    <2> QED  BY <2>1, <2>2 DEF PickClaim
  <1>11. ASSUME NEW x \in DOMAIN shared
         PROVE  /\ shared[x][1] \in Nat /\ Held(doc, shared[x][1])
                /\ Stands(doc, shared[x][1], "Property")
    BY <1>7, <1>10
  <1>12. \A x \in DOMAIN own : own[x][1] \in Nat
    BY <1>8, <1>9
  <1>13. image \in Nat
    BY <1>1, <1>2 DEF ConformingDoc
  <1>14. PICK A : shared \in Seq(A)
    BY <1>10
  <1>15. PICK B : own \in Seq(B)
    BY <1>9
  <1>16. /\ split \in 0 .. Len(shared)
         /\ \A x \in DOMAIN shared : shared[x][1] < image <=> x <= split
    BY <1>10, <1>11, <1>13, <1>14, SplitCounts DEF split
  <1>17. ASSUME NEW x \in DOMAIN shared, NEW y \in DOMAIN own
         PROVE  IF x <= split THEN shared[x][1] < own[y][1] ELSE own[y][1] < shared[x][1]
    <2>1. PICK j \in DOMAIN kids : own[y][1] = kids[j]
      BY <1>9
    <2>2. j \in DOMAIN Children(doc, image) /\ kids[j] = Children(doc, image)[j]
      BY DEF kids
    <2>3. IF shared[x][1] < image THEN shared[x][1] < kids[j] ELSE kids[j] < shared[x][1]
      BY <1>1, <1>2, <1>3, <1>11, <2>2, OwnAmongShared
    <2> QED  BY <1>16, <2>1, <2>3
  <1>18. LET merged == SubSeq(shared, 1, split) \o own \o SubSeq(shared, split + 1, Len(shared)) IN
         /\ \A i, j \in DOMAIN merged : i < j => merged[i][1] < merged[j][1]
         /\ Range(merged) = Range(shared) \cup Range(own)
    <2>1. shared \in Seq(A \cup B) /\ own \in Seq(A \cup B)
      BY <1>14, <1>15
    <2>2. /\ \A x \in DOMAIN shared : shared[x][1] \in Nat
          /\ \A x, y \in DOMAIN shared : x < y => shared[x][1] < shared[y][1]
          /\ \A x, y \in DOMAIN own : x < y => own[x][1] < own[y][1]
          /\ \A x \in DOMAIN shared : \A y \in DOMAIN own :
                IF x <= split THEN shared[x][1] < own[y][1] ELSE own[y][1] < shared[x][1]
      BY <1>9, <1>10, <1>11, <1>17
    <2> DEFINE U0 == A \cup B
    <2> HIDE DEF U0
    <2>3. shared \in Seq(U0) /\ own \in Seq(U0) /\ split \in 0 .. Len(shared)
      BY <1>16, <2>1 DEF U0
    <2> QED  BY ONLY <1>12, <2>2, <2>3, Interleaved
  <1> QED  BY <1>1, <1>4, <1>5, <1>6, <1>18, Zenon DEF kids, meta, image, h

\* Interleaved at its split, every image's properties stand in document order, none missing
\* (PropertySet of metadata.rs, the split of build_occurrence in image.rs).
THEOREM PropertiesAreInOrder == Spec => []PropertiesInDocumentOrder
  <1> QED  BY MemoInvariance, RecallsInOrder, PTL
=============================================================================
