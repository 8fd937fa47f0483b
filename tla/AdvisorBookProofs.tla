------------------------- MODULE AdvisorBookProofs -------------------------
(***************************************************************************)
(* Proofs about AdvisorBook.                                               *)
(***************************************************************************)
EXTENDS AdvisorBookProperties, FiniteSetTheorems, TLAPS

(* Nothing is read before the members are known, and what is read is less  *)
(* than all the pages that may be.                                         *)
BeginInv ==
  /\ stage = "members" => actions = "none"
  /\ actions \in {"none", "pending"} /\ count = 0 =>
       cursor = 0 /\ seen = {} /\ total = NotStated /\ ~mixed /\ ~faulty /\ ~silent
  /\ actions = "none" => count = 0
  /\ count = 0 => changes = 0
  /\ actions = "pending" => count < MaxPages

(* The totals are sizes of the feed; a read whose pages all stated theirs  *)
(* is mixed as soon as the feed has changed once between two of them.      *)
TotalInv ==
  /\ count > 0 => Cardinality(feed) \in sizes
  /\ total # NotStated => total \in sizes
  /\ count > 0 /\ ~silent => total # NotStated
  /\ count > 0 /\ changes = 0 => feed = first
  /\ count > 0 /\ changes = 1 => Cardinality(feed) # Cardinality(first)
  /\ count > 0 /\ (changes = 0 \/ (changes = 1 /\ ~silent /\ ~mixed)) =>
       seen \subseteq first /\ total \in {NotStated, Cardinality(first)}

(* Of a feed that stands still at a source without fault, what was read is *)
(* what lies before the cursor.                                            *)
StillInv ==
  actions = "pending" /\ changes = 0 /\ ~faulty =>
    /\ ~mixed
    /\ seen = feed \ Behind
    /\ ~keyed => cursor = Cardinality(seen)
    /\ total \in {NotStated, Cardinality(feed)}

BookInv == BookTypeOK /\ BeginInv /\ TotalInv /\ StillInv /\ CoverageIsEarned

-----------------------------------------------------------------------------
(* Sets of actions.                                                        *)

LEMMA Finite ==
  ASSUME NEW S \in SUBSET Actions
  PROVE  /\ IsFiniteSet(S) /\ Cardinality(S) \in Nat /\ Cardinality(S) <= LastAction
         /\ \A T \in SUBSET S :
              /\ Cardinality(T) <= Cardinality(S)
              /\ Cardinality(T) = Cardinality(S) => T = S
<1>1. IsFiniteSet(Actions) /\ Cardinality(Actions) = LastAction
  BY FS_Interval, BookAssumption DEF Actions, BookAssumption
<1> QED  BY <1>1, FS_Subset, FS_CardinalityType

LEMMA NothingIsNoNumber == NotStated \notin Nat
  BY BookAssumption DEF BookAssumption

(* A change of the feed changes its size.                                  *)
LEMMA ChangeCounts ==
  ASSUME NEW S \in SUBSET Actions, NEW a \in Actions
  PROVE  LET T == IF a \in S THEN S \ {a} ELSE S \cup {a}
         IN T \in SUBSET Actions /\ Cardinality(T) \in Nat /\ Cardinality(T) # Cardinality(S)
<1>1. CASE a \in S
  <2>1. S \ {a} \in SUBSET S /\ S \ {a} # S
    BY <1>1
  <2> QED  BY <1>1, <2>1, Finite
<1>2. CASE a \notin S
  <2>1. S \in SUBSET (S \cup {a}) /\ S \cup {a} # S /\ S \cup {a} \in SUBSET Actions
    BY <1>2
  <2> QED  BY <1>2, <2>1, Finite
<1> QED  BY <1>1, <1>2

LEMMA Unions ==
  ASSUME NEW S \in SUBSET Actions, NEW T \in SUBSET Actions, S \cap T = {}
  PROVE  Cardinality(S \cup T) = Cardinality(S) + Cardinality(T)
<1>1. IsFiniteSet(S) /\ IsFiniteSet(T) /\ Cardinality(S \cap T) = 0
  BY Finite, FS_EmptySet
<1> QED  BY <1>1, FS_Union, Finite

(* The feed behind a cursor loses exactly the page that comes first, when  *)
(* the cursor moves behind the page.                                       *)
LEMMA CursorMoves ==
  ASSUME BookTypeOK, seen = feed \ Behind, ~keyed => cursor = Cardinality(seen),
         NEW page \in SUBSET Behind, Firsts(page), page # {},
         NEW next \in Nat, IsBehind(next, page)
  PROVE  /\ \A a \in feed : a \in seen \cup page <=> ~(IF keyed THEN a > next ELSE Place(a) >= next)
         /\ ~keyed => next = Cardinality(seen \cup page)
<1>1. feed \subseteq Actions /\ seen \subseteq Actions /\ cursor \in Nat
  BY DEF BookTypeOK
<1>2. \A a \in Actions : a \in Nat
  BY BookAssumption DEF Actions, BookAssumption
<1>3. \A a \in feed : a \in Nat
  BY <1>1, <1>2
<1>4. \A a \in feed : a \in Behind <=> IF keyed THEN a > cursor ELSE Place(a) >= cursor
  BY DEF Behind
<1>5. \A a \in page, b \in Behind : b \in page \/ a < b
  BY DEF Firsts
<1>6. page \subseteq feed /\ Behind \subseteq feed
  BY DEF Behind
<1>7. CASE keyed
  <2>1. next \in page /\ \A a \in page : a <= next
    BY <1>7 DEF IsBehind
  <2> QED  BY <1>1, <1>3, <1>4, <1>5, <1>6, <1>7, <2>1
<1>8. CASE ~keyed
  <2> DEFINE Before(a) == {b \in feed : b < a}
  <2>1. \A a \in feed : Before(a) \in SUBSET Actions /\ Place(a) = Cardinality(Before(a))
    BY <1>1 DEF Place
  <2>2. \A a \in feed : Place(a) \in Nat
    BY <2>1, Finite
  <2>3. \A a \in feed : a \in seen <=> Place(a) < cursor
    BY <1>1, <1>4, <1>8, <2>2
  <2>4. next = cursor + Cardinality(page) /\ next = Cardinality(seen \cup page)
    <3>1. page \in SUBSET Actions /\ seen \in SUBSET Actions /\ seen \cap page = {}
      BY <1>1, <1>6
    <3>2. next = cursor + Cardinality(page)
      BY <1>8 DEF IsBehind
    <3> QED  BY <1>8, <3>1, <3>2, Unions
  <2>5. \A a, b \in feed : b <= a => Place(b) <= Place(a)
    <3>1. TAKE a, b \in feed
    <3>2. HAVE b <= a
    <3>3. Before(b) \in SUBSET Before(a)
      BY <1>3, <3>2
    <3> QED  BY <2>1, <3>3, Finite
  <2>6. ASSUME NEW a \in seen \cup page PROVE Place(a) < next
    <3>1. a \in feed
      BY <1>6
    <3>2. ASSUME NEW b \in feed, b < a PROVE b \in seen \cup page
      <4>1. CASE a \in page
        BY <1>3, <1>5, <3>1, <3>2, <4>1
      <4>2. CASE a \in seen
        <5>1. b <= a
          BY <1>3, <3>1, <3>2
        <5>2. Place(b) <= Place(a)
          BY <2>5, <3>1, <5>1
        <5> QED  BY <1>1, <2>2, <2>3, <3>1, <4>2, <5>2
      <4> QED  BY <4>1, <4>2
    <3>3. Before(a) \in SUBSET (seen \cup page) /\ a \notin Before(a)
      BY <1>3, <3>1, <3>2
    <3>4. Before(a) # seen \cup page /\ seen \cup page \in SUBSET Actions
      BY <1>1, <1>6, <3>3
    <3>5. Cardinality(Before(a)) < Cardinality(seen \cup page)
      BY <3>3, <3>4, Finite
    <3> QED  BY <2>1, <2>4, <3>1, <3>5
  <2>7. ASSUME NEW a \in Behind, a \notin page PROVE Place(a) >= next
    <3>1. a \in feed
      BY <1>6
    <3>2. ASSUME NEW b \in seen PROVE b < a
      <4>1. b \in feed /\ Place(b) < cursor /\ ~(Place(a) < cursor)
        BY <2>3, <3>1
      <4>2. ~(a <= b)
        BY <1>1, <2>2, <2>5, <3>1, <4>1
      <4> QED  BY <1>3, <3>1, <4>1, <4>2
    <3>3. seen \cup page \in SUBSET Before(a)
      BY <1>5, <1>6, <2>7, <3>2
    <3>4. Cardinality(seen \cup page) <= Cardinality(Before(a))
      BY <2>1, <3>1, <3>3, Finite
    <3> QED  BY <2>1, <2>4, <3>1, <3>4
  <2>8. \A a \in feed : a \in seen \cup page <=> ~(Place(a) >= next)
    <3>1. TAKE a \in feed
    <3>2. CASE a \in seen \cup page
      BY <2>4, <2>6, <2>2, <3>2
    <3>3. CASE a \notin seen \cup page
      BY <2>4, <2>7, <2>2, <3>3
    <3> QED  BY <3>2, <3>3
  <2> QED  BY <1>8, <2>4, <2>8
<1> QED  BY <1>7, <1>8

-----------------------------------------------------------------------------
(* The types.                                                              *)

LEMMA InitEstablishes == BookInit => BookInv
<1> SUFFICES ASSUME BookInit PROVE BookInv
  OBVIOUS
<1>1. BookTypeOK
  <2>1. budget \in 0 .. Deadline /\ count \in 0 .. MaxPages /\ changes \in 0 .. MaxChanges
    BY BookAssumption DEF BookInit, BookAssumption
  <2> QED  BY <2>1 DEF BookInit, BookTypeOK, Values, Coverages
<1>2. BeginInv
  BY BookAssumption DEF BookInit, BeginInv, BookAssumption
<1>3. TotalInv /\ StillInv /\ CoverageIsEarned
  BY DEF BookInit, TotalInv, StillInv, CoverageIsEarned
<1> QED  BY <1>1, <1>2, <1>3 DEF BookInv

LEMMA PageKeepsTypes ==
  ASSUME BookInv, PageAnswered
  PROVE  BookTypeOK'
<1>1. PICK page \in SUBSET Behind, stated \in {NotStated, Cardinality(feed)} :
        /\ Absorbs(page, stated)
        /\ count' = count + 1
        /\ first' = IF count = 0 THEN feed ELSE first
        /\ sizes' = sizes \cup {Cardinality(feed)}
        /\ silent' = (silent \/ stated = NotStated)
        /\ \E next \in 0 .. LastAction :
             /\ faulty' = (faulty \/ (next = cursor /\ next # 0) \/ (next = 0 /\ page # Behind))
             /\ actions' = AfterPage(next)
             /\ cursor' = next
  BY DEF PageAnswered
<1>2. Behind \subseteq Actions /\ feed \subseteq Actions /\ Cardinality(feed) \in Nat
  BY Finite DEF BookInv, BookTypeOK, Behind
<1>3. /\ seen' \subseteq Actions /\ mixed' \in BOOLEAN /\ total' \in Nat \cup {NotStated}
      /\ first' \subseteq Actions /\ sizes' \subseteq Nat /\ silent' \in BOOLEAN
  BY <1>1, <1>2 DEF BookInv, BookTypeOK, Absorbs
<1>4. cursor' \in Nat /\ faulty' \in BOOLEAN
  BY <1>1, BookAssumption DEF BookAssumption
<1>5. actions' \in Coverages
  BY <1>1 DEF AfterPage, Final, Coverages, Partial
<1>6. count' \in 0 .. MaxPages
  BY <1>1, BookAssumption DEF BookAssumption, BookInv, BookTypeOK, BeginInv, PageAnswered, ReadsFeed
<1> QED  BY <1>3, <1>4, <1>5, <1>6 DEF PageAnswered, BookInv, BookTypeOK

LEMMA NextKeepsTypes ==
  ASSUME BookInv, [BookNext]_bookVars
  PROVE  BookTypeOK'
<1> USE DEF BookInv, Turns, readState
<1>1. CASE PageAnswered
  BY <1>1, PageKeepsTypes
<1>2. CASE MembersFail \/ MembersLate \/ BookAnswered
  BY <1>2 DEF BookTypeOK, MembersFail, MembersLate, BookAnswered
<1>3. CASE BookIsEmpty \/ BookHasMembers
  BY <1>3 DEF BookTypeOK, BookIsEmpty, BookHasMembers, Values, Coverages, Partial
<1>4. CASE ValueAnswered \/ ValueFails \/ ValueLate
  BY <1>4 DEF BookTypeOK, ValueAnswered, ValueFails, ValueLate, ValueComes, Values
<1>5. CASE FeedFails \/ FeedLate
  BY <1>5 DEF BookTypeOK, FeedFails, FeedLate, Coverages, Partial
<1>6. CASE FeedChanges
  <2>1. feed' \subseteq Actions /\ Cardinality(feed') \in Nat
    BY <1>6, Finite DEF FeedChanges, BookTypeOK
  <2>2. changes \in 0 .. MaxChanges /\ changes < MaxChanges /\ changes' = changes + 1
    BY <1>6 DEF FeedChanges, BookTypeOK
  <2>3. changes' \in 0 .. MaxChanges
    BY <2>2, BookAssumption DEF BookAssumption
  <2> QED  BY <1>6, <2>1, <2>3 DEF FeedChanges, BookTypeOK
<1>7. CASE BookTick
  <2>1. budget \in 0 .. Deadline /\ budget > 0 /\ budget' = budget - 1
    BY <1>7 DEF BookTick, BookTypeOK
  <2>2. budget' \in 0 .. Deadline
    BY <2>1, BookAssumption DEF BookAssumption
  <2> QED  BY <1>7, <2>2 DEF BookTick, BookTypeOK
<1>8. CASE UNCHANGED bookVars
  BY <1>8 DEF bookVars, BookTypeOK
<1> QED  BY <1>1, <1>2, <1>3, <1>4, <1>5, <1>6, <1>7, <1>8 DEF BookNext

-----------------------------------------------------------------------------
(* A step that reads nothing, and leaves the feed alone.                   *)
LEMMA Quiet ==
  ASSUME BookInv, UNCHANGED <<feed, keyed, changes, cursor, count, seen, total, mixed, first, sizes, silent, faulty>>,
         budget = 0 => budget' = 0,
         stage' = "members" => stage = "members" /\ actions' = "none",
         \/ actions' = actions
         \/ actions' \in {"unavailable", "not read", "not presented"}
         \/ actions' = "deadline" /\ budget = 0
  PROVE  BeginInv' /\ TotalInv' /\ StillInv' /\ CoverageIsEarned'
<1> USE DEF BookInv
<1>1. BeginInv'
  BY DEF BeginInv
<1>2. TotalInv'
  BY DEF TotalInv
<1>3. StillInv'
  <2>1. Behind' = Behind
    BY DEF Behind, Place
  <2> QED  BY <2>1 DEF StillInv
<1>4. CoverageIsEarned'
  <2>1. CASE actions' = actions
    BY <2>1 DEF CoverageIsEarned
  <2>2. CASE actions' # actions
    BY <2>2 DEF CoverageIsEarned
  <2> QED  BY <2>1, <2>2
<1> QED  BY <1>1, <1>2, <1>3, <1>4

(* The read of the actions begins.                                         *)
LEMMA BeginningIsStill ==
  ASSUME BookInv, BookHasMembers, actions' = "pending"
  PROVE  BeginInv' /\ TotalInv' /\ StillInv' /\ CoverageIsEarned'
<1> USE DEF BookHasMembers, Turns, readState
<1>1. /\ actions = "none" /\ count = 0 /\ changes = 0 /\ cursor = 0 /\ seen = {}
      /\ total = NotStated /\ ~mixed /\ ~faulty /\ ~silent
  BY DEF BookInv, BeginInv
<1>2. BeginInv'
  BY <1>1, BookAssumption DEF BeginInv, BookAssumption
<1>3. TotalInv'
  BY <1>1 DEF TotalInv
<1>4. StillInv'
  <2>1. feed \subseteq Actions /\ \A a \in feed : a > 0
    BY BookAssumption DEF BookInv, BookTypeOK, Actions, BookAssumption
  <2>2. \A a \in feed : Place(a) \in Nat
    <3>1. \A a \in feed : {b \in feed : b < a} \in SUBSET Actions
      BY <2>1
    <3> QED  BY <3>1, Finite DEF Place
  <2>3. Behind' = feed /\ Cardinality({}) = 0
    <3>1. Behind' = {a \in feed : IF keyed THEN a > 0 ELSE Place(a) >= 0}
      BY <1>1 DEF Behind, Place
    <3> QED  BY <3>1, <2>1, <2>2, FS_EmptySet
  <2> QED  BY <1>1, <2>3 DEF StillInv
<1>5. CoverageIsEarned'
  BY DEF CoverageIsEarned
<1> QED  BY <1>2, <1>3, <1>4, <1>5

(* The feed changes between two pages.                                     *)
LEMMA ChangeIsCounted ==
  ASSUME BookInv, FeedChanges
  PROVE  BeginInv' /\ TotalInv' /\ StillInv' /\ CoverageIsEarned'
<1> USE DEF FeedChanges, ReadsFeed
<1>1. changes \in Nat /\ changes' = changes + 1 /\ actions' = "pending" /\ count' > 0
  BY BookAssumption DEF BookInv, BookTypeOK, BookAssumption
<1>2. BeginInv'
  BY <1>1 DEF BookInv, BeginInv
<1>3. StillInv' /\ CoverageIsEarned'
  BY <1>1 DEF StillInv, CoverageIsEarned
<1>4. TotalInv'
  <2>1. feed \in SUBSET Actions /\ count > 0
    BY DEF BookInv, BookTypeOK
  <2>2. Cardinality(feed') # Cardinality(feed)
    BY <2>1, ChangeCounts
  <2>3. changes' = 1 => changes = 0 /\ feed = first
    BY <1>1, <2>1 DEF BookInv, TotalInv
  <2>4. /\ Cardinality(feed') \in sizes'
        /\ total' # NotStated => total' \in sizes'
        /\ ~silent' => total' # NotStated
    BY <2>1 DEF BookInv, TotalInv
  <2>5. changes' = 1 =>
          /\ Cardinality(feed') # Cardinality(first')
          /\ seen' \subseteq first' /\ total' \in {NotStated, Cardinality(first')}
    BY <2>1, <2>2, <2>3 DEF BookInv, TotalInv
  <2> QED  BY <1>1, <2>4, <2>5 DEF TotalInv
<1> QED  BY <1>2, <1>3, <1>4

-----------------------------------------------------------------------------
(* A page is answered.  While the source is without fault and the feed     *)
(* stands still, a page adds what is behind the cursor and nothing else.   *)
LEMMA PageIsAbsorbed ==
  ASSUME BookInv, PageAnswered
  PROVE  BeginInv' /\ TotalInv' /\ StillInv' /\ CoverageIsEarned'
<1> USE DEF PageAnswered, ReadsFeed
<1>1. PICK page \in SUBSET Behind, stated \in {NotStated, Cardinality(feed)}, next \in 0 .. LastAction :
        /\ Firsts(page)
        /\ Absorbs(page, stated)
        /\ count' = count + 1
        /\ first' = IF count = 0 THEN feed ELSE first
        /\ sizes' = sizes \cup {Cardinality(feed)}
        /\ silent' = (silent \/ stated = NotStated)
        /\ next \in {0, cursor} \/ IsBehind(next, page)
        /\ faulty' = (faulty \/ (next = cursor /\ next # 0) \/ (next = 0 /\ page # Behind))
        /\ actions' = AfterPage(next)
        /\ cursor' = next
  OBVIOUS
<1> HIDE DEF PageAnswered
<1>2. /\ feed' = feed /\ keyed' = keyed /\ stage' = stage /\ changes' = changes /\ budget' = budget
      /\ stage = "facts" /\ actions = "pending"
  BY DEF PageAnswered
<1>3. /\ feed \subseteq Actions /\ Behind \subseteq feed /\ page \subseteq feed /\ seen \subseteq Actions
      /\ Cardinality(feed) \in Nat /\ Cardinality(feed) # NotStated
  BY Finite, NothingIsNoNumber DEF BookInv, BookTypeOK, Behind
<1>4. count \in Nat /\ count < MaxPages /\ MaxPages \in Nat /\ changes \in Nat /\ next \in Nat
  BY <1>2, BookAssumption DEF BookInv, BookTypeOK, BeginInv, BookAssumption
<1>5. count = 0 => changes = 0 /\ seen = {} /\ total = NotStated /\ ~silent
  BY <1>2, <1>4 DEF BookInv, BeginInv
<1>6. BeginInv'
  <2>1. count' > 0 /\ count' = count + 1 /\ count' <= MaxPages
    BY <1>1, <1>4
  <2>2. actions' # "none" /\ (actions' = "pending" => count' # MaxPages)
    BY <1>1 DEF AfterPage, Final
  <2> QED  BY <1>2, <1>4, <2>1, <2>2 DEF BeginInv
<1>7. TotalInv'
  <2>1. count' > 0 /\ Cardinality(feed)' \in sizes' /\ (total' # NotStated => total' \in sizes')
    BY <1>1, <1>2, <1>4 DEF Absorbs, BookInv, TotalInv
  <2>2. ~silent' => total' # NotStated
    BY <1>1, <1>3 DEF Absorbs
  <2>3. changes = 0 => feed = first' /\ seen' \subseteq first' /\ total' \in {NotStated, Cardinality(first')}
    <3>1. CASE count = 0
      BY <1>1, <1>3, <1>5, <3>1 DEF Absorbs
    <3>2. CASE count # 0
      BY <1>1, <1>3, <1>4, <3>2 DEF Absorbs, BookInv, TotalInv
    <3> QED  BY <3>1, <3>2
  <2>4. changes = 1 => count > 0 /\ first' = first /\ Cardinality(feed) # Cardinality(first)
    BY <1>1, <1>4, <1>5 DEF BookInv, TotalInv
  <2>5. changes = 1 /\ ~silent' /\ ~mixed' => FALSE
    <3>1. HAVE changes = 1 /\ ~silent' /\ ~mixed'
    <3>2. stated = Cardinality(feed) /\ ~silent /\ ~mixed
      BY <1>1, <3>1 DEF Absorbs
    <3>3. total = Cardinality(first) /\ total # NotStated
      BY <2>4, <3>1, <3>2 DEF BookInv, TotalInv
    <3>4. Drifts(stated)
      BY <1>3, <2>4, <3>1, <3>2, <3>3 DEF Drifts
    <3> QED  BY <1>1, <3>1, <3>4 DEF Absorbs
  <2> QED  BY <1>2, <2>1, <2>2, <2>3, <2>4, <2>5 DEF TotalInv
<1>8. ASSUME changes = 0, ~faulty'
      PROVE  /\ ~mixed' /\ seen = feed \ Behind /\ (~keyed => cursor = Cardinality(seen))
             /\ total' \in {NotStated, Cardinality(feed)}
  <2>1. ~faulty
    BY <1>1, <1>8
  <2>2. /\ ~mixed /\ seen = feed \ Behind /\ (~keyed => cursor = Cardinality(seen))
        /\ total \in {NotStated, Cardinality(feed)}
    BY <1>2, <1>8, <2>1 DEF BookInv, StillInv
  <2> QED  BY <1>1, <2>2 DEF Absorbs, Drifts
<1>9. StillInv'
  <2> SUFFICES ASSUME actions' = "pending", changes = 0, ~faulty'
               PROVE  /\ ~mixed' /\ seen' = feed \ Behind' /\ (~keyed => next = Cardinality(seen'))
                      /\ total' \in {NotStated, Cardinality(feed)}
    BY <1>1, <1>2 DEF StillInv
  <2>1. next # cursor /\ IsBehind(next, page) /\ page # {}
    BY <1>1 DEF AfterPage, Final, IsBehind
  <2>2. /\ \A a \in feed : a \in seen \cup page <=> ~(IF keyed THEN a > next ELSE Place(a) >= next)
        /\ ~keyed => next = Cardinality(seen \cup page)
    BY <1>1, <1>4, <1>8, <2>1, CursorMoves DEF BookInv
  <2>3. Behind' = {a \in feed : IF keyed THEN a > next ELSE Place(a) >= next}
    BY <1>1, <1>2 DEF Behind, Place
  <2>4. seen' = seen \cup page /\ seen' \subseteq feed
    BY <1>1, <1>3, <1>8 DEF Absorbs
  <2>5. seen' = feed \ Behind'
    BY <2>2, <2>3, <2>4
  <2> QED  BY <1>8, <2>2, <2>4, <2>5
<1>10. CoverageIsEarned'
  <2>1. CASE actions' = "complete"
    <3>1. ~mixed' /\ total' # NotStated /\ total' = Cardinality(seen')
      BY <1>1, <2>1 DEF AfterPage, Final
    <3>2. changes = 0 \/ (changes = 1 /\ ~silent') => seen' \subseteq first' /\ total' = Cardinality(first')
      BY <1>1, <1>2, <1>4, <1>7, <3>1 DEF TotalInv
    <3>3. first' \in SUBSET Actions
      BY PageKeepsTypes DEF BookTypeOK
    <3>4. changes = 0 \/ (changes = 1 /\ ~silent') => seen' = first'
      BY <3>1, <3>2, <3>3, Finite
    <3> QED  BY <1>2, <1>7, <2>1, <3>1, <3>4 DEF CoverageIsEarned, TotalInv
  <2>2. CASE actions' \in {"mismatch", "inconsistent"}
    <3>1. CASE changes = 0 /\ ~faulty'
      <4>1. ~mixed' /\ seen = feed \ Behind /\ total' \in {NotStated, Cardinality(feed)}
        BY <1>8, <3>1
      <4>2. next = 0 /\ page = Behind
        BY <1>1, <4>1, <2>2, <3>1 DEF AfterPage, Final
      <4>3. seen' = feed
        BY <1>1, <1>3, <4>1, <4>2 DEF Absorbs
      <4>4. actions' = Final
        BY <1>1, <4>2 DEF AfterPage
      <4>5. actions' \in {"total not stated", "complete"}
        <5>1. total' = NotStated \/ total' = Cardinality(seen')
          BY <4>1, <4>3
        <5> QED  BY <4>1, <4>4, <5>1 DEF Final
      <4> QED  BY <2>2, <4>5
    <3>2. CASE changes > 0 \/ faulty'
      BY <1>2, <2>2, <3>2 DEF CoverageIsEarned
    <3> QED  BY <1>4, <3>1, <3>2
  <2>3. CASE actions' \notin {"complete", "mismatch", "inconsistent"}
    BY <1>1, <1>2, <2>3 DEF AfterPage, Final, UsedUp, CoverageIsEarned
  <2> QED  BY <2>1, <2>2, <2>3
<1> QED  BY <1>6, <1>7, <1>9, <1>10

LEMMA NextPreserves == BookInv /\ [BookNext]_bookVars => BookInv'
<1> SUFFICES ASSUME BookInv, [BookNext]_bookVars PROVE BeginInv' /\ TotalInv' /\ StillInv' /\ CoverageIsEarned'
  BY NextKeepsTypes DEF BookInv
<1>1. stage = "members" => actions = "none"
  BY DEF BookInv, BeginInv
<1>2. CASE MembersFail \/ MembersLate \/ BookIsEmpty
  BY <1>1, <1>2, Quiet DEF MembersFail, MembersLate, BookIsEmpty, Turns, readState
<1>3. CASE BookHasMembers
  <2>1. CASE actions' = "pending"
    BY <1>3, <2>1, BeginningIsStill
  <2>2. CASE actions' # "pending"
    BY <1>1, <1>3, <2>2, Quiet DEF BookHasMembers, UsedUp, Turns, readState
  <2> QED  BY <2>1, <2>2
<1>4. CASE ValueAnswered \/ ValueFails \/ ValueLate \/ BookAnswered
  BY <1>4, Quiet DEF ValueAnswered, ValueFails, ValueLate, ValueComes, BookAnswered, Turns, readState
<1>5. CASE PageAnswered
  BY <1>5, PageIsAbsorbed
<1>6. CASE FeedFails \/ FeedLate
  BY <1>6, Quiet DEF FeedFails, FeedLate, UsedUp, Turns, readState
<1>7. CASE FeedChanges
  BY <1>7, ChangeIsCounted
<1>8. CASE BookTick
  <2>1. (budget = 0 => budget' = 0) /\ (stage' = "members" => stage = "members" /\ actions' = "none")
    BY <1>1, <1>8 DEF BookTick
  <2> QED  BY <1>8, <2>1, Quiet DEF BookTick, readState
<1>9. CASE UNCHANGED bookVars
  BY <1>1, <1>9, Quiet DEF bookVars, readState
<1> QED  BY <1>2, <1>3, <1>4, <1>5, <1>6, <1>7, <1>8, <1>9 DEF BookNext

-----------------------------------------------------------------------------
(* The invariant: what the read has counted, its totals, and what both say *)
(* of the feed, at every page of the read (read_action_feed).              *)
THEOREM BookInvariance == BookSpec => []BookInv
<1>1. BookInv /\ [BookNext]_bookVars => BookInv'
  BY NextPreserves
<1> QED  BY <1>1, InitEstablishes, PTL DEF BookSpec

(* The request for a book keeps its types; no read is of more than         *)
(* MAX_ACTION_PAGES pages (advisor_book_action_items_read.py).             *)
THEOREM BookTypesHold == BookSpec => []BookTypeOK
<1>1. BookInv => BookTypeOK
  BY DEF BookInv
<1> QED  BY <1>1, BookInvariance, PTL

(* What the answer says of the coverage of its counts is earned            *)
(* (_final_coverage), for every feed, page size, number of pages and       *)
(* budget, and for every number of changes of the feed.                    *)
THEOREM CoverageEarned == BookSpec => []CoverageIsEarned
<1>1. BookInv => CoverageIsEarned
  BY DEF BookInv
<1> QED  BY <1>1, BookInvariance, PTL

-----------------------------------------------------------------------------
(* A workspace whose members are known is neither refused nor timed out,   *)
(* whatever becomes of its values and of its actions                       *)
(* (advisor_book_workspace_service.py:99).                                 *)
OpeningInv == (stage = "members" => cohort = "unknown") /\ EnrichmentsDegrade

THEOREM EnrichmentsOnlyDegrade == BookSpec => []EnrichmentsDegrade
<1>1. BookInit => OpeningInv
  BY DEF BookInit, OpeningInv, EnrichmentsDegrade
<1>2. OpeningInv /\ [BookNext]_bookVars => OpeningInv'
  <2> SUFFICES ASSUME OpeningInv, [BookNext]_bookVars PROVE OpeningInv'
    OBVIOUS
  <2> USE DEF OpeningInv, EnrichmentsDegrade, Turns
  <2>1. CASE MembersFail \/ MembersLate \/ BookIsEmpty \/ BookHasMembers
    BY <2>1 DEF MembersFail, MembersLate, BookIsEmpty, BookHasMembers
  <2>2. CASE ValueAnswered \/ ValueFails \/ ValueLate
    BY <2>2 DEF ValueAnswered, ValueFails, ValueLate, ValueComes
  <2>3. CASE FeedFails \/ FeedLate \/ BookAnswered
    BY <2>3 DEF FeedFails, FeedLate, BookAnswered, ReadsFeed
  <2>4. CASE PageAnswered \/ FeedChanges \/ BookTick \/ UNCHANGED bookVars
    BY <2>4 DEF PageAnswered, FeedChanges, BookTick, bookVars
  <2> QED  BY <2>1, <2>2, <2>3, <2>4 DEF BookNext
<1>3. OpeningInv => EnrichmentsDegrade
  BY DEF OpeningInv
<1> QED  BY <1>1, <1>2, <1>3, PTL DEF BookSpec

(* Every turn of a request for the book takes one of finitely many: the    *)
(* ticks of the budget, the pages (MAX_ACTION_PAGES) and the blocks.       *)
THEOREM BookRunsOutHolds == BookSpec => BookRunsOut
<1>1. BookInv /\ BookInv' /\ [BookNext]_bookVars => [~FeedChanges => BookLeft' >= 0 /\ BookLeft' < BookLeft]_bookVars
  <2> SUFFICES ASSUME BookInv, BookInv', BookNext, ~FeedChanges PROVE BookLeft' >= 0 /\ BookLeft' < BookLeft
    OBVIOUS
  <2>1. /\ budget \in Nat /\ budget' \in Nat
        /\ MaxPages - count \in Nat /\ MaxPages - count' \in Nat
        /\ count \in Nat
    <3>1. Deadline \in Nat /\ MaxPages \in Nat
      BY BookAssumption DEF BookAssumption
    <3>2. budget \in 0 .. Deadline /\ count \in 0 .. MaxPages
      BY DEF BookInv, BookTypeOK
    <3>3. budget' \in 0 .. Deadline /\ count' \in 0 .. MaxPages
      BY DEF BookInv, BookTypeOK
    <3>4. \A n \in Nat : \A k \in 0 .. n : k \in Nat /\ n - k \in Nat
      OBVIOUS
    <3> QED  BY <3>1, <3>2, <3>3, <3>4
  <2>2. \A b : BlockLeft(b) \in {0, 1} /\ (b # "pending" => BlockLeft(b) = 0) /\ (b = "pending" => BlockLeft(b) = 1)
    BY DEF BlockLeft
  <2>3. stage = "members" => actions = "none" /\ count = 0
    BY DEF BookInv, BeginInv
  <2> HIDE DEF BlockLeft
  <2>4. CASE MembersFail \/ MembersLate \/ BookIsEmpty \/ BookHasMembers
    <3>1. stage = "members" /\ stage' \in {"facts", "answered", "refused", "timed out"} /\ budget' = budget /\ count' = count
      BY <2>4 DEF MembersFail, MembersLate, BookIsEmpty, BookHasMembers, Turns, readState
    <3>2. BookLeft = budget + (MaxPages - count) + 4
      BY <3>1 DEF BookLeft
    <3>3. CASE stage' = "facts"
      <4>1. BookLeft' = budget + (MaxPages - count) + (1 + BlockLeft(value') + BlockLeft(actions'))
        BY <3>1, <3>3 DEF BookLeft, BlockLeft
      <4>2. BlockLeft(value') \in {0, 1} /\ BlockLeft(actions') \in {0, 1}
        BY <2>2
      <4> QED  BY <3>2, <4>1, <4>2, <2>1
    <3>4. CASE stage' # "facts"
      <4>1. BookLeft' = budget + (MaxPages - count) + 0
        BY <3>1, <3>4 DEF BookLeft
      <4> QED  BY <3>2, <4>1, <2>1
    <3> QED  BY <3>3, <3>4
  <2>5. CASE ValueAnswered \/ ValueFails \/ ValueLate
    <3>1. /\ stage = "facts" /\ value = "pending" /\ value' # "pending" /\ actions' = actions
          /\ stage' \in {"facts", "refused"} /\ budget' = budget /\ count' = count
      BY <2>5 DEF ValueAnswered, ValueFails, ValueLate, ValueComes, Turns, readState
    <3>2. BookLeft = budget + (MaxPages - count) + (1 + 1 + BlockLeft(actions))
      BY <3>1, <2>2 DEF BookLeft
    <3>3. \/ BookLeft' = budget + (MaxPages - count) + (1 + 0 + BlockLeft(actions))
          \/ BookLeft' = budget + (MaxPages - count) + 0
      BY <3>1, <2>2 DEF BookLeft, BlockLeft
    <3> QED  BY <3>2, <3>3, <2>1, <2>2
  <2>6. CASE FeedFails \/ FeedLate
    <3>1. /\ stage = "facts" /\ actions = "pending" /\ actions' # "pending" /\ value' = value
          /\ stage' \in {"facts", "refused"} /\ budget' = budget /\ count' = count
      BY <2>6 DEF FeedFails, FeedLate, ReadsFeed, Turns, readState
    <3>2. BookLeft = budget + (MaxPages - count) + (1 + BlockLeft(value) + 1)
      BY <3>1, <2>2 DEF BookLeft
    <3>3. \/ BookLeft' = budget + (MaxPages - count) + (1 + BlockLeft(value) + 0)
          \/ BookLeft' = budget + (MaxPages - count) + 0
      BY <3>1, <2>2 DEF BookLeft, BlockLeft
    <3> QED  BY <3>2, <3>3, <2>1, <2>2
  <2>7. CASE PageAnswered
    <3>1. /\ stage = "facts" /\ stage' = stage /\ actions = "pending" /\ value' = value
          /\ budget' = budget /\ count' = count + 1
      BY <2>7 DEF PageAnswered, ReadsFeed
    <3>2. BookLeft = budget + (MaxPages - count) + (1 + BlockLeft(value) + 1)
      BY <3>1, <2>2 DEF BookLeft
    <3>3. \/ BookLeft' = budget + (MaxPages - (count + 1)) + (1 + BlockLeft(value) + 1)
          \/ BookLeft' = budget + (MaxPages - (count + 1)) + (1 + BlockLeft(value) + 0)
      BY <3>1, <2>2 DEF BookLeft, BlockLeft
    <3>4. MaxPages - (count + 1) \in Nat /\ MaxPages \in Nat
      BY <3>1, <2>1, BookAssumption DEF BookAssumption
    <3> QED  BY <3>2, <3>3, <3>4, <2>1, <2>2
  <2>8. CASE BookAnswered
    <3>1. /\ stage = "facts" /\ stage' = "answered" /\ value # "pending" /\ actions # "pending"
          /\ budget' = budget /\ count' = count
      BY <2>8 DEF BookAnswered, Turns, readState
    <3>2. BookLeft = budget + (MaxPages - count) + (1 + 0 + 0) /\ BookLeft' = budget + (MaxPages - count) + 0
      BY <3>1, <2>2 DEF BookLeft, BlockLeft
    <3> QED  BY <3>2, <2>1
  <2>9. CASE BookTick
    <3> DEFINE rest == CASE stage = "members" -> 4
                         [] stage = "facts"   -> 1 + BlockLeft(value) + BlockLeft(actions)
                         [] OTHER             -> 0
    <3>1. budget' = budget - 1 /\ budget > 0 /\ count' = count /\ stage' = stage /\ value' = value /\ actions' = actions
      BY <2>9 DEF BookTick, readState
    <3>2. rest \in Nat
      BY <2>2
    <3>3. BookLeft = budget + (MaxPages - count) + rest /\ BookLeft' = (budget - 1) + (MaxPages - count) + rest
      BY <3>1 DEF BookLeft, BlockLeft
    <3> HIDE DEF rest
    <3> QED  BY <3>1, <3>2, <3>3, <2>1
  <2> QED  BY <2>4, <2>5, <2>6, <2>7, <2>8, <2>9 DEF BookNext
<1> QED  BY <1>1, BookInvariance, PTL DEF BookSpec, BookRunsOut
=============================================================================
