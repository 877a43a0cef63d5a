---------------------------- MODULE StreamsProofs ----------------------------
(***************************************************************************)
(* What a client reads, for every translator, any set of calls or items    *)
(* and an upstream of any length: BlocksAreBracketed and EndIsEarned.      *)
(*                                                                         *)
(*   1. sequences of frames: which blocks are open after some of them      *)
(*      (Book), and which frame may come next (InPlace);                   *)
(*   2. the operations of each translator, which keep its own record of    *)
(*      the open blocks equal to the book, and what its upstream may send; *)
(*   3. the footer writer: what it has delivered trails what was written   *)
(*      to it by a held stop, or differs from it by a footer;              *)
(*   4. the inductive invariant, one predicate for each translator.        *)
(*                                                                         *)
(* "strict" stands for Bracketed, E for the frames at the start of a step. *)
(***************************************************************************)
EXTENDS Streams, FiniteSetTheorems, SequenceTheorems, WellFoundedInduction, TLAPS

-----------------------------------------------------------------------------
(* 1. Frames.                                                              *)

FrameNames == {"start", "open", "delta", "stop", "finish", "end", "error"}

Kinds == {"message", "marker", "text", "thinking", "tool", "nudge", "footer",
          "tool_use", "max_tokens", "end_turn"}

Frame == [frame : FrameNames, block : Nat, kind : Kinds, data : Seq(Nat)]

Opened(F) == {m \in DOMAIN F : F[m].frame = "open"}

Stopped(F, b) == \E l \in DOMAIN F : F[l].frame = "stop" /\ F[l].block = b

\* How many blocks were opened, and those still open with what they hold.
Count(F) == Cardinality(Opened(F))

Book(F) == {<<F[m].block, F[m].kind>> : m \in {i \in Opened(F) : ~Stopped(F, F[i].block)}}

IsOpen(F, b, k) == <<b, k>> \in Book(F)

\* Whether a call, or a nudge in its place, was opened, and the finish reasons.
Called(F) == \E m \in DOMAIN F : F[m].frame = "open" /\ F[m].kind \in {"tool", "nudge"}

Told(F) == {F[m].kind : m \in {i \in DOMAIN F : F[i].frame = "finish"}}

Earlier(n) == 1..(n - 1)

Holds(kind) == IF kind = "footer" THEN {"text", "marker"} ELSE {kind}

\* The n-th frame is in its place; strict, when every block is opened and stopped.
InPlace(strict, F, n) ==
  /\ n = 1 <=> F[n].frame = "start"
  /\ F[n].frame \in {"end", "error"} => n = Len(F)
  /\ F[n].frame = "open" => F[n].block = Cardinality({m \in Earlier(n) : F[m].frame = "open"})
  /\ F[n].frame = "stop" => F[n].kind # "footer"
  /\ F[n].frame = "stop" \/ (F[n].frame = "delta" /\ (strict \/ F[n].kind = "tool")) =>
       /\ \E m \in Earlier(n) : F[m].frame = "open" /\ F[m].block = F[n].block /\ F[m].kind \in Holds(F[n].kind)
       /\ ~\E m \in Earlier(n) : F[m].frame = "stop" /\ F[m].block = F[n].block
  /\ F[n].frame = "end" /\ strict =>
       \A m \in Earlier(n) : F[m].frame = "open" =>
         \E l \in Earlier(n) : F[l].frame = "stop" /\ F[l].block = F[m].block

Ordered(strict, F) == \A n \in DOMAIN F : InPlace(strict, F, n)

\* A message that may go on.
Live(strict, F) ==
  /\ F \in Seq(Frame)
  /\ Ordered(strict, F)
  /\ \A n \in DOMAIN F : F[n].frame \notin {"end", "error"}

\* A list that is the other with more behind it.
Grows(E, F) == Len(E) <= Len(F) /\ \A n \in 1..Len(E) : F[n] = E[n]

LEMMA Places ==
  ASSUME NEW F \in Seq(Frame), NEW f \in Frame
  PROVE  /\ Append(F, f) \in Seq(Frame)
         /\ Len(F) \in Nat /\ Len(Append(F, f)) = Len(F) + 1
         /\ DOMAIN F = 1..Len(F) /\ DOMAIN Append(F, f) = 1..(Len(F) + 1)
         /\ \A n \in DOMAIN F : Append(F, f)[n] = F[n] /\ F[n] \in Frame
         /\ Append(F, f)[Len(F) + 1] = f
<1>1. Append(F, f) \in Seq(Frame) /\ Len(Append(F, f)) = Len(F) + 1
  BY AppendProperties
<1>2. Len(F) \in Nat /\ DOMAIN F = 1..Len(F)
  BY LenProperties
<1>3. DOMAIN Append(F, f) = 1..(Len(F) + 1)
  BY <1>1, LenProperties
<1> QED
  BY <1>1, <1>2, <1>3, AppendProperties, ElementOfSeq

LEMMA GrowsByOne ==
  ASSUME NEW E \in Seq(Frame), NEW F \in Seq(Frame), NEW f \in Frame, Grows(E, F)
  PROVE  Grows(E, Append(F, f))
<1>1. Len(E) \in Nat /\ Len(F) \in Nat
  BY LenProperties
<1>2. Len(Append(F, f)) = Len(F) + 1 /\ \A n \in 1..Len(F) : Append(F, f)[n] = F[n]
  BY AppendProperties
<1>3. Len(E) <= Len(F) /\ \A n \in 1..Len(E) : F[n] = E[n]
  BY DEF Grows
<1>4. Len(E) <= Len(Append(F, f))
  BY <1>1, <1>2, <1>3
<1>5. \A n \in 1..Len(E) : n \in 1..Len(F)
  BY <1>1, <1>3
<1> QED
  BY <1>2, <1>3, <1>4, <1>5 DEF Grows

LEMMA OpenedFinite ==
  ASSUME NEW F \in Seq(Frame)
  PROVE  IsFiniteSet(Opened(F)) /\ Count(F) \in Nat
<1>1. Len(F) \in Nat /\ DOMAIN F = 1..Len(F)
  BY LenProperties
<1>2. IsFiniteSet(1..Len(F)) /\ Opened(F) \in SUBSET (1..Len(F))
  BY <1>1, FS_Interval DEF Opened
<1>3. IsFiniteSet(Opened(F))
  BY <1>2, FS_Subset
<1> QED
  BY <1>3, FS_CardinalityType DEF Count

\* One frame more: what is opened, called and told.
LEMMA OneMore ==
  ASSUME NEW F \in Seq(Frame), NEW f \in Frame
  PROVE  /\ f.frame = "open" => Opened(Append(F, f)) = Opened(F) \cup {Len(F) + 1} /\ Count(Append(F, f)) = Count(F) + 1
         /\ f.frame # "open" => Opened(Append(F, f)) = Opened(F) /\ Count(Append(F, f)) = Count(F)
         /\ \A b : Stopped(Append(F, f), b) <=> Stopped(F, b) \/ (f.frame = "stop" /\ f.block = b)
         /\ Called(Append(F, f)) <=> Called(F) \/ (f.frame = "open" /\ f.kind \in {"tool", "nudge"})
         /\ Told(Append(F, f)) = Told(F) \cup (IF f.frame = "finish" THEN {f.kind} ELSE {})
<1> DEFINE G == Append(F, f)
<1>1. /\ Len(F) \in Nat /\ DOMAIN F = 1..Len(F) /\ DOMAIN G = 1..(Len(F) + 1)
      /\ \A n \in DOMAIN F : G[n] = F[n]
      /\ G[Len(F) + 1] = f
  BY Places
<1>2. /\ \A n \in DOMAIN G : n \in DOMAIN F \/ n = Len(F) + 1
      /\ \A n \in DOMAIN F : n \in DOMAIN G
      /\ Len(F) + 1 \in DOMAIN G /\ Len(F) + 1 \notin DOMAIN F
  BY <1>1
<1> HIDE DEF G
<1>3. f.frame = "open" => Opened(G) = Opened(F) \cup {Len(F) + 1}
  BY <1>1, <1>2 DEF Opened
<1>4. f.frame # "open" => Opened(G) = Opened(F)
  BY <1>1, <1>2 DEF Opened
<1>5. f.frame = "open" => Count(G) = Count(F) + 1
  <2>1. Len(F) + 1 \notin Opened(F)
    BY <1>2 DEF Opened
  <2> QED
    BY <1>3, <2>1, OpenedFinite, FS_AddElement DEF Count
<1>6. f.frame # "open" => Count(G) = Count(F)
  BY <1>4 DEF Count
<1>7. \A b : Stopped(G, b) <=> Stopped(F, b) \/ (f.frame = "stop" /\ f.block = b)
  BY <1>1, <1>2 DEF Stopped
<1>8. Called(G) <=> Called(F) \/ (f.frame = "open" /\ f.kind \in {"tool", "nudge"})
  BY <1>1, <1>2 DEF Called
<1>9. Told(G) = Told(F) \cup (IF f.frame = "finish" THEN {f.kind} ELSE {})
  BY <1>1, <1>2 DEF Told
<1> QED
  BY <1>3, <1>4, <1>5, <1>6, <1>7, <1>8, <1>9 DEF G

\* A frame in its place stays there when one more follows, unless it ends the message.
LEMMA StaysInPlace ==
  ASSUME NEW F \in Seq(Frame), NEW f \in Frame, NEW strict \in BOOLEAN, NEW n \in DOMAIN F,
         F[n].frame \notin {"end", "error"}, InPlace(strict, F, n)
  PROVE  InPlace(strict, Append(F, f), n)
<1> DEFINE G == Append(F, f)
<1>1. /\ Len(F) \in Nat /\ DOMAIN F = 1..Len(F)
      /\ \A m \in DOMAIN F : G[m] = F[m]
  BY Places
<1>2. \A m \in Earlier(n) : G[m] = F[m]
  BY <1>1 DEF Earlier
<1>3. G[n] = F[n]
  BY <1>1
<1> HIDE DEF G
<1>4. {m \in Earlier(n) : G[m].frame = "open"} = {m \in Earlier(n) : F[m].frame = "open"}
  BY <1>2
<1>5. InPlace(strict, G, n)
  BY <1>2, <1>3, <1>4 DEF InPlace
<1> QED
  BY <1>5 DEF G

\* Blocks are numbered as they open.
LEMMA BlocksRise ==
  ASSUME NEW strict \in BOOLEAN, NEW F, Live(strict, F)
  PROVE  /\ \A m \in Opened(F) : F[m].block \in Nat /\ F[m].block < Count(F)
         /\ \A m, n \in Opened(F) : m < n => F[m].block < F[n].block
         /\ \A m, n \in Opened(F) : F[m].block = F[n].block => m = n
         /\ \A n \in DOMAIN F : F[n].frame = "stop" => F[n].block < Count(F)
<1> DEFINE Prior(n) == {m \in Earlier(n) : F[m].frame = "open"}
<1>1. /\ F \in Seq(Frame) /\ Len(F) \in Nat /\ DOMAIN F = 1..Len(F)
      /\ \A n \in DOMAIN F : F[n] \in Frame
  BY LenProperties, ElementOfSeq DEF Live
<1>2. /\ IsFiniteSet(Opened(F)) /\ Count(F) \in Nat
      /\ \A m \in Opened(F) : m \in DOMAIN F /\ F[m].frame = "open"
  BY <1>1, OpenedFinite DEF Opened
<1>3. ASSUME NEW m \in Opened(F)
      PROVE  F[m].block = Cardinality(Prior(m)) /\ F[m].block \in Nat
  BY <1>1, <1>2 DEF Live, Ordered, InPlace, Frame
<1>4. ASSUME NEW m \in Opened(F)
      PROVE  Prior(m) \in SUBSET Opened(F) /\ IsFiniteSet(Prior(m)) /\ m \notin Prior(m)
  <2>1. Prior(m) \in SUBSET Opened(F) /\ m \notin Prior(m)
    BY <1>1, <1>2 DEF Opened, Earlier
  <2> QED
    BY <1>2, <2>1, FS_Subset
<1>5. ASSUME NEW m \in Opened(F), NEW S, IsFiniteSet(S), Prior(m) \cup {m} \in SUBSET S
      PROVE  F[m].block < Cardinality(S)
  <2>1. Cardinality(Prior(m) \cup {m}) = Cardinality(Prior(m)) + 1
    BY <1>4, FS_AddElement
  <2>2. Cardinality(Prior(m) \cup {m}) <= Cardinality(S) /\ Cardinality(S) \in Nat
    BY <1>5, FS_Subset, FS_CardinalityType
  <2> QED
    BY <1>3, <2>1, <2>2
<1>6. \A m \in Opened(F) : F[m].block < Count(F)
  BY <1>2, <1>4, <1>5 DEF Count
<1>7. ASSUME NEW m \in Opened(F), NEW n \in Opened(F), m < n
      PROVE  F[m].block < F[n].block
  <2>1. Prior(m) \cup {m} \in SUBSET Prior(n)
    BY <1>1, <1>2, <1>7 DEF Earlier
  <2> HIDE DEF Prior
  <2> QED
    BY <1>3, <1>4, <1>5, <2>1
<1>8. ASSUME NEW m \in Opened(F), NEW n \in Opened(F), F[m].block = F[n].block
      PROVE  m = n
  <2>1. F[m].block \in Nat /\ m \in Nat /\ n \in Nat
    <3>1. m \in 1..Len(F) /\ n \in 1..Len(F)
      BY <1>1, <1>2
    <3>2. F[m].block \in Nat /\ F[n].block \in Nat
      BY <1>3
    <3>3. m \in Nat /\ n \in Nat
      BY <1>1, <3>1
    <3> QED
      BY <3>2, <3>3
  <2>2. ~(m < n) /\ ~(n < m)
    BY <1>7, <1>8, <2>1
  <2> QED
    BY <2>1, <2>2
<1>9. ASSUME NEW n \in DOMAIN F, F[n].frame = "stop"
      PROVE  F[n].block < Count(F)
  <2>1. InPlace(strict, F, n)
    BY DEF Live, Ordered
  <2>2. PICK m \in Earlier(n) : F[m].frame = "open" /\ F[m].block = F[n].block
    BY <1>9, <2>1 DEF InPlace
  <2>3. m \in Opened(F)
    BY <1>1, <2>2 DEF Opened, Earlier
  <2> QED
    BY <1>6, <2>2, <2>3
<1> QED
  BY <1>3, <1>6, <1>7, <1>8, <1>9

\* What the book says of a block.
LEMMA InBook ==
  ASSUME NEW strict \in BOOLEAN, NEW F, Live(strict, F), NEW b, NEW k
  PROVE  /\ <<b, k>> \in Book(F) <=>
              ~Stopped(F, b) /\ \E m \in Opened(F) : F[m].block = b /\ F[m].kind = k
         /\ <<b, k>> \in Book(F) => b \in Nat /\ b < Count(F)
         /\ <<b, k>> \in Book(F) => \A l : <<b, l>> \in Book(F) => l = k
<1>1. ASSUME NEW l
      PROVE  <<b, l>> \in Book(F) <=>
              ~Stopped(F, b) /\ \E m \in Opened(F) : F[m].block = b /\ F[m].kind = l
  BY DEF Book
<1> QED
  BY <1>1, BlocksRise

\* The message may go on after a frame in its place.
LEMMA StaysLive ==
  ASSUME NEW strict \in BOOLEAN, NEW F, Live(strict, F), NEW f \in Frame,
         InPlace(strict, Append(F, f), Len(F) + 1)
  PROVE  /\ Ordered(strict, Append(F, f))
         /\ f.frame \notin {"end", "error"} => Live(strict, Append(F, f))
<1> DEFINE G == Append(F, f)
<1>1. /\ F \in Seq(Frame) /\ \A n \in DOMAIN F : F[n].frame \notin {"end", "error"} /\ InPlace(strict, F, n)
  BY DEF Live, Ordered
<1>2. /\ G \in Seq(Frame) /\ DOMAIN G = 1..(Len(F) + 1) /\ DOMAIN F = 1..Len(F) /\ Len(F) \in Nat
      /\ \A n \in DOMAIN F : G[n] = F[n] /\ F[n] \in Frame
      /\ G[Len(F) + 1] = f
  BY <1>1, Places
<1>3. \A n \in DOMAIN G : n \in DOMAIN F \/ n = Len(F) + 1
  BY <1>2
<1>4. \A n \in DOMAIN F : InPlace(strict, G, n)
  BY <1>1, StaysInPlace
<1>5. Ordered(strict, G)
  BY <1>3, <1>4 DEF Ordered
<1>6. ASSUME f.frame \notin {"end", "error"}
      PROVE  Live(strict, G)
  <2>1. \A n \in DOMAIN G : G[n].frame \notin {"end", "error"}
    BY <1>1, <1>2, <1>3, <1>6
  <2> QED
    BY <1>2, <1>5, <2>1 DEF Live
<1> QED
  BY <1>5, <1>6

\* The book after one frame.
LEMMA BookGrows ==
  ASSUME NEW strict \in BOOLEAN, NEW F, Live(strict, F), NEW f \in Frame
  PROVE  /\ f.frame \notin {"open", "stop"} => Book(Append(F, f)) = Book(F)
         /\ f.frame = "open" /\ f.block = Count(F)
            => Book(Append(F, f)) = Book(F) \cup {<<f.block, f.kind>>}
         /\ f.frame = "stop" /\ <<f.block, f.kind>> \in Book(F)
            => Book(Append(F, f)) = Book(F) \ {<<f.block, f.kind>>}
<1> DEFINE G == Append(F, f)
<1>1. F \in Seq(Frame)
  BY DEF Live
<1>2. /\ DOMAIN F = 1..Len(F) /\ Len(F) \in Nat
      /\ \A n \in DOMAIN F : G[n] = F[n]
      /\ G[Len(F) + 1] = f
  BY <1>1, Places
<1>3. /\ f.frame = "open" => Opened(G) = Opened(F) \cup {Len(F) + 1}
      /\ f.frame # "open" => Opened(G) = Opened(F)
      /\ \A b : Stopped(G, b) <=> Stopped(F, b) \/ (f.frame = "stop" /\ f.block = b)
  BY <1>1, OneMore
<1>4. \A m \in Opened(F) : G[m] = F[m]
  BY <1>2 DEF Opened
<1>5. f.block \in Nat /\ Count(F) \in Nat
  BY <1>1, OpenedFinite DEF Frame
<1> HIDE DEF G
<1>6. ASSUME f.frame \notin {"open", "stop"} PROVE Book(G) = Book(F)
  <2>1. Opened(G) = Opened(F) /\ \A b : Stopped(G, b) <=> Stopped(F, b)
    BY <1>3, <1>6
  <2> QED
    BY <1>4, <2>1 DEF Book
<1>7. ASSUME f.frame = "open", f.block = Count(F)
      PROVE  Book(G) = Book(F) \cup {<<f.block, f.kind>>}
  <2>1. Opened(G) = Opened(F) \cup {Len(F) + 1} /\ \A b : Stopped(G, b) <=> Stopped(F, b)
    BY <1>3, <1>7
  <2>2. ~Stopped(F, f.block)
    <3>1. \A n \in DOMAIN F : F[n].frame = "stop" => F[n].block < Count(F)
      BY BlocksRise
    <3> QED
      BY <1>5, <1>7, <3>1 DEF Stopped
  <2> QED
    BY <1>2, <1>4, <2>1, <2>2 DEF Book
<1>8. ASSUME f.frame = "stop", <<f.block, f.kind>> \in Book(F)
      PROVE  Book(G) = Book(F) \ {<<f.block, f.kind>>}
  <2>1. Opened(G) = Opened(F) /\ \A b : Stopped(G, b) <=> Stopped(F, b) \/ f.block = b
    BY <1>3, <1>8
  <2>2. \A k : <<f.block, k>> \in Book(F) => k = f.kind
    BY <1>8, InBook
  <2>3. ASSUME NEW m \in Opened(G), ~Stopped(G, G[m].block)
        PROVE  <<G[m].block, G[m].kind>> \in Book(F) \ {<<f.block, f.kind>>}
    BY <1>4, <2>1, <2>3 DEF Book
  <2>4. ASSUME NEW m \in Opened(F), ~Stopped(F, F[m].block), <<F[m].block, F[m].kind>> # <<f.block, f.kind>>
        PROVE  m \in Opened(G) /\ ~Stopped(G, G[m].block) /\ G[m] = F[m]
    <3>1. <<F[m].block, F[m].kind>> \in Book(F)
      BY <2>4 DEF Book
    <3>2. F[m].block # f.block
      BY <2>2, <2>4, <3>1
    <3> QED
      BY <1>4, <2>1, <2>4, <3>2
  <2>5. Book(G) \subseteq Book(F) \ {<<f.block, f.kind>>}
    BY <2>3, Zenon DEF Book
  <2>6. Book(F) \ {<<f.block, f.kind>>} \subseteq Book(G)
    BY <2>4, Zenon DEF Book
  <2> QED
    BY <2>5, <2>6
<1> QED
  BY <1>6, <1>7, <1>8 DEF G

\* What each frame needs, and what it makes of the book.
AsOpen(F, G) == \A b, k : IsOpen(G, b, k) <=> IsOpen(F, b, k)

Same(F, G) == Count(G) = Count(F) /\ AsOpen(F, G) /\ Told(G) = Told(F) /\ (Called(G) <=> Called(F))

LEMMA BookIsOpen ==
  ASSUME NEW F, NEW G
  PROVE  /\ Book(G) = Book(F) => AsOpen(F, G)
         /\ Book(F) = {} <=> \A b, k : ~IsOpen(F, b, k)
<1>1. Book(G) = Book(F) => AsOpen(F, G)
  BY DEF AsOpen, IsOpen
<1>2. Book(F) = {} => \A b, k : ~IsOpen(F, b, k)
  BY DEF IsOpen
<1>3. (\A b, k : ~IsOpen(F, b, k)) => Book(F) = {}
  BY DEF IsOpen, Book
<1> QED
  BY <1>1, <1>2, <1>3

LEMMA AddStart ==
  ASSUME NEW strict \in BOOLEAN, NEW f \in Frame, f.frame = "start"
  PROVE  Live(strict, <<>>) /\ Live(strict, Append(<<>>, f)) /\ Same(<<>>, Append(<<>>, f))
<1>1. <<>> \in Seq(Frame) /\ Len(<<>>) = 0 /\ DOMAIN <<>> = {}
  BY EmptySeq
<1>2. Live(strict, <<>>)
  BY <1>1 DEF Live, Ordered
<1>3. Append(<<>>, f)[1] = f
  BY <1>1, Places
<1>4. InPlace(strict, Append(<<>>, f), Len(<<>>) + 1)
  BY <1>1, <1>3 DEF InPlace
<1>5. Live(strict, Append(<<>>, f))
  BY <1>2, <1>4, StaysLive
<1> QED
  <2>1. Book(Append(<<>>, f)) = Book(<<>>)
    BY <1>2, BookGrows
  <2>2. AsOpen(<<>>, Append(<<>>, f))
    BY <2>1, BookIsOpen
  <2> QED
    BY <1>1, <1>2, <1>5, <2>2, OneMore DEF Same

LEMMA AddOpen ==
  ASSUME NEW strict \in BOOLEAN, NEW F, Live(strict, F), F # <<>>, NEW f \in Frame,
         f.frame = "open", f.block = Count(F)
  PROVE  /\ Live(strict, Append(F, f))
         /\ Count(Append(F, f)) = Count(F) + 1
         /\ \A b, k : IsOpen(Append(F, f), b, k) <=> IsOpen(F, b, k) \/ (b = f.block /\ k = f.kind)
         /\ Told(Append(F, f)) = Told(F)
         /\ Called(Append(F, f)) <=> Called(F) \/ f.kind \in {"tool", "nudge"}
<1>1. F \in Seq(Frame)
  BY DEF Live
<1>2. /\ DOMAIN F = 1..Len(F) /\ Len(F) \in Nat \ {0}
      /\ \A n \in DOMAIN F : Append(F, f)[n] = F[n]
      /\ Append(F, f)[Len(F) + 1] = f
  BY <1>1, Places, EmptySeq
<1>3. {m \in Earlier(Len(F) + 1) : Append(F, f)[m].frame = "open"} = Opened(F)
  BY <1>2 DEF Earlier, Opened
<1>4. InPlace(strict, Append(F, f), Len(F) + 1)
  <2> DEFINE n == Len(F) + 1
             G == Append(F, f)
  <2>1. G[n] = f /\ n # 1
    BY <1>2
  <2>2. {m \in Earlier(n) : G[m].frame = "open"} = Opened(F)
    BY <1>3
  <2> HIDE DEF n, G
  <2>3. InPlace(strict, G, n)
    BY <2>1, <2>2 DEF InPlace, Count
  <2> QED
    BY <2>3 DEF n, G
<1>5. Live(strict, Append(F, f))
  BY <1>4, StaysLive
<1>6. Book(Append(F, f)) = Book(F) \cup {<<f.block, f.kind>>}
  BY BookGrows
<1>7. \A b, k : IsOpen(Append(F, f), b, k) <=> IsOpen(F, b, k) \/ (b = f.block /\ k = f.kind)
  BY <1>6 DEF IsOpen
<1> QED
  BY <1>1, <1>5, <1>7, OneMore

LEMMA InPlaceOfBook ==
  ASSUME NEW strict \in BOOLEAN, NEW F, Live(strict, F), F # <<>>, NEW f \in Frame,
         f.frame \in {"delta", "stop", "finish", "error", "end"},
         f.frame = "stop" => f.kind # "footer",
         f.frame = "stop" \/ (f.frame = "delta" /\ (strict \/ f.kind = "tool")) =>
            \E k \in Holds(f.kind) : <<f.block, k>> \in Book(F),
         f.frame = "end" /\ strict => Book(F) = {}
  PROVE  InPlace(strict, Append(F, f), Len(F) + 1)
<1> DEFINE G == Append(F, f)
<1>1. F \in Seq(Frame)
  BY DEF Live
<1>2. /\ DOMAIN F = 1..Len(F) /\ Len(F) \in Nat \ {0} /\ Len(G) = Len(F) + 1
      /\ \A n \in DOMAIN F : G[n] = F[n]
      /\ G[Len(F) + 1] = f
  BY <1>1, Places, EmptySeq
<1>3. Earlier(Len(F) + 1) = DOMAIN F
  BY <1>2 DEF Earlier
<1> HIDE DEF G
<1>4. ASSUME f.frame = "stop" \/ (f.frame = "delta" /\ (strict \/ f.kind = "tool"))
      PROVE  /\ \E m \in Earlier(Len(F) + 1) : G[m].frame = "open" /\ G[m].block = f.block /\ G[m].kind \in Holds(f.kind)
             /\ ~\E m \in Earlier(Len(F) + 1) : G[m].frame = "stop" /\ G[m].block = f.block
  <2>1. PICK k \in Holds(f.kind) : <<f.block, k>> \in Book(F)
    BY <1>4
  <2>2. ~Stopped(F, f.block) /\ \E m \in Opened(F) : F[m].block = f.block /\ F[m].kind = k
    BY <2>1, InBook
  <2> QED
    BY <1>2, <1>3, <2>2 DEF Stopped, Opened
<1>5. ASSUME f.frame = "end", strict
      PROVE  \A m \in Earlier(Len(F) + 1) : G[m].frame = "open" =>
               \E l \in Earlier(Len(F) + 1) : G[l].frame = "stop" /\ G[l].block = G[m].block
  <2>1. \A m \in Opened(F) : Stopped(F, F[m].block)
    BY <1>5 DEF Book
  <2> QED
    BY <1>2, <1>3, <2>1 DEF Stopped, Opened
<1>6. InPlace(strict, G, Len(F) + 1)
  BY <1>2, <1>4, <1>5 DEF InPlace
<1> QED
  BY <1>6 DEF G

LEMMA AddDelta ==
  ASSUME NEW strict \in BOOLEAN, NEW F, Live(strict, F), F # <<>>, NEW f \in Frame,
         f.frame = "delta",
         strict \/ f.kind = "tool" => \E k \in Holds(f.kind) : IsOpen(F, f.block, k)
  PROVE  Live(strict, Append(F, f)) /\ Same(F, Append(F, f))
<1>1. F \in Seq(Frame)
  BY DEF Live
<1>2. InPlace(strict, Append(F, f), Len(F) + 1)
  BY InPlaceOfBook DEF IsOpen
<1> QED
  <2>1. Book(Append(F, f)) = Book(F)
    BY BookGrows
  <2>2. AsOpen(F, Append(F, f))
    BY <2>1, BookIsOpen
  <2> QED
    BY <1>1, <1>2, <2>2, StaysLive, OneMore DEF Same

LEMMA AddStop ==
  ASSUME NEW strict \in BOOLEAN, NEW F, Live(strict, F), F # <<>>, NEW f \in Frame,
         f.frame = "stop", f.kind # "footer", IsOpen(F, f.block, f.kind)
  PROVE  /\ Live(strict, Append(F, f))
         /\ Count(Append(F, f)) = Count(F)
         /\ \A b, k : IsOpen(Append(F, f), b, k) <=> IsOpen(F, b, k) /\ b # f.block
         /\ Told(Append(F, f)) = Told(F)
         /\ Called(Append(F, f)) <=> Called(F)
<1>1. F \in Seq(Frame)
  BY DEF Live
<1>2. f.kind \in Holds(f.kind)
  BY DEF Holds
<1>3. InPlace(strict, Append(F, f), Len(F) + 1)
  BY <1>2, InPlaceOfBook DEF IsOpen
<1>4. Book(Append(F, f)) = Book(F) \ {<<f.block, f.kind>>}
  BY BookGrows DEF IsOpen
<1>5. \A k : <<f.block, k>> \in Book(F) => k = f.kind
  BY InBook DEF IsOpen
<1>6. \A b, k : IsOpen(Append(F, f), b, k) <=> IsOpen(F, b, k) /\ b # f.block
  BY <1>4, <1>5 DEF IsOpen
<1> QED
  BY <1>1, <1>3, <1>6, StaysLive, OneMore

LEMMA AddFinish ==
  ASSUME NEW strict \in BOOLEAN, NEW F, Live(strict, F), F # <<>>, NEW f \in Frame,
         f.frame = "finish"
  PROVE  /\ Live(strict, Append(F, f))
         /\ Count(Append(F, f)) = Count(F) /\ AsOpen(F, Append(F, f))
         /\ Told(Append(F, f)) = Told(F) \cup {f.kind}
         /\ Called(Append(F, f)) <=> Called(F)
<1>1. F \in Seq(Frame)
  BY DEF Live
<1>2. InPlace(strict, Append(F, f), Len(F) + 1)
  BY InPlaceOfBook
<1> QED
  <2>1. Book(Append(F, f)) = Book(F)
    BY BookGrows
  <2>2. AsOpen(F, Append(F, f))
    BY <2>1, BookIsOpen
  <2> QED
    BY <1>1, <1>2, <2>2, StaysLive, OneMore

\* The last frame of a message.
LEMMA AddLast ==
  ASSUME NEW strict \in BOOLEAN, NEW F, Live(strict, F), F # <<>>, NEW f \in Frame,
         f.frame = "error" \/ (f.frame = "end" /\ (strict => \A b, k : ~IsOpen(F, b, k)))
  PROVE  /\ Append(F, f) \in Seq(Frame)
         /\ Ordered(strict, Append(F, f))
         /\ Told(Append(F, f)) = Told(F)
         /\ Called(Append(F, f)) <=> Called(F)
<1>1. F \in Seq(Frame)
  BY DEF Live
<1>2. InPlace(strict, Append(F, f), Len(F) + 1)
  BY InPlaceOfBook, BookIsOpen
<1>3. Ordered(strict, Append(F, f))
  BY <1>2, StaysLive
<1>4. /\ Told(Append(F, f)) = Told(F)
      /\ Called(Append(F, f)) <=> Called(F)
  BY <1>1, OneMore
<1> QED
  BY <1>1, <1>3, <1>4, Places

-----------------------------------------------------------------------------
(* 2. Translators.                                                         *)

Lives == {"idle", "started", "terminal", "failed"}

Maps(V) == UNION {[S -> V] : S \in SUBSET Nat}

Flows == {"text", "thinking", "tool"}

Errors == {"none", "order", "empty", "incomplete", "upstream"}

Writer == [life : Lives, last : Nat, output : BOOLEAN,
           started : BOOLEAN, closed : BOOLEAN, err : Errors,
           next : Nat, flow : Flows \cup {"none"}, held : Seq(Nat),
           items : Maps(Nat), kinds : Maps(Flows), args : Maps(Seq(Nat)),
           refused : SUBSET Nat, calls : Nat,
           finish : {"none", "stop", "tool_calls", "length"},
           split : {"scanning", "inside", "through"}, failed : BOOLEAN, frames : Seq(Frame)]

LEMMA MapsHave ==
  ASSUME NEW V, NEW f \in Maps(V)
  PROVE  DOMAIN f \subseteq Nat /\ \A k \in DOMAIN f : f[k] \in V
BY DEF Maps

LEMMA MapsOf ==
  ASSUME NEW V, NEW S \in SUBSET Nat, NEW f \in [S -> V]
  PROVE  f \in Maps(V)
BY DEF Maps

\* A map that has one name more, or one less.
Gains(f, k, v, h) ==
  DOMAIN h = DOMAIN f \cup {k} /\ h[k] = v /\ \A j \in DOMAIN f \ {k} : h[j] = f[j]

Loses(f, k, h) == DOMAIN h = DOMAIN f \ {k} /\ \A j \in DOMAIN f \ {k} : h[j] = f[j]

LEMMA WithIs ==
  ASSUME NEW V, NEW f \in Maps(V), NEW k \in Nat, NEW v \in V
  PROVE  /\ With(f, k, v) \in Maps(V)
         /\ Gains(f, k, v, With(f, k, v))
<1>1. DOMAIN f \subseteq Nat /\ \A j \in DOMAIN f : f[j] \in V
  BY MapsHave
<1>2. With(f, k, v) \in [DOMAIN f \cup {k} -> V]
  BY <1>1 DEF With
<1>3. With(f, k, v) \in Maps(V)
  BY <1>1, <1>2, MapsOf
<1> QED
  BY <1>2, <1>3 DEF With, Gains

LEMMA WithoutIs ==
  ASSUME NEW V, NEW f \in Maps(V), NEW k
  PROVE  /\ Without(f, k) \in Maps(V)
         /\ Loses(f, k, Without(f, k))
<1>1. DOMAIN f \subseteq Nat /\ \A j \in DOMAIN f : f[j] \in V
  BY MapsHave
<1>2. Without(f, k) \in [DOMAIN f \ {k} -> V]
  BY <1>1 DEF Without
<1>3. Without(f, k) \in Maps(V)
  BY <1>1, <1>2, MapsOf
<1> QED
  BY <1>2, <1>3 DEF Without, Loses

\* A translator that has begun a message and may go on, since the frames E.
Writes(strict, E, s) ==
  /\ s \in Writer
  /\ Live(strict, s.frames)
  /\ s.frames # <<>>
  /\ Grows(E, s.frames)

\* Nothing but the frames and the number of the next block is new.
OnlyFrames(s, u) == u = [s EXCEPT !.frames = u.frames, !.next = u.next]

\* What the writing of blocks leaves alone.
Calm(s, u) == u.life = s.life /\ u.err = s.err /\ u.failed = s.failed /\ u.finish = s.finish /\ u.output = s.output

LEMMA FrameIs ==
  ASSUME NEW f \in FrameNames, NEW b \in Nat, NEW k \in Kinds, NEW d \in Seq(Nat)
  PROVE  [frame |-> f, block |-> b, kind |-> k, data |-> d] \in Frame
BY DEF Frame

\* Emit appends its frame, and nothing else.
LEMMA EmitIs ==
  ASSUME NEW s \in Writer, NEW f \in FrameNames, NEW b \in Nat, NEW k \in Kinds, NEW d \in Seq(Nat)
  PROVE  /\ Emit(s, f, b, k, d) \in Writer
         /\ Emit(s, f, b, k, d).frames = Append(s.frames, [frame |-> f, block |-> b, kind |-> k, data |-> d])
         /\ Emit(s, f, b, k, d).frames # <<>>
         /\ Emit(s, f, b, k, d).next = s.next
         /\ OnlyFrames(s, Emit(s, f, b, k, d))
         /\ \A E \in Seq(Frame) : Grows(E, s.frames) => Grows(E, Emit(s, f, b, k, d).frames)
<1> DEFINE r == [frame |-> f, block |-> b, kind |-> k, data |-> d]
           G == Append(s.frames, r)
           u == Emit(s, f, b, k, d)
<1>1. r \in Frame
  BY FrameIs
<1>2. s.frames \in Seq(Frame)
  BY DEF Writer
<1> HIDE DEF r
<1>3. G \in Seq(Frame) /\ G # <<>>
  BY <1>1, <1>2, AppendProperties
<1>4. u = [s EXCEPT !.frames = G]
  BY DEF Emit, r
<1>5. \A E \in Seq(Frame) : Grows(E, s.frames) => Grows(E, G)
  BY <1>1, <1>2, GrowsByOne
<1> HIDE DEF G, u
<1>6. u \in Writer /\ u.frames = G /\ u.next = s.next
  BY <1>3, <1>4 DEF Writer
<1>7. OnlyFrames(s, u)
  BY <1>4, <1>6 DEF Writer, OnlyFrames
<1> QED
  BY <1>3, <1>5, <1>6, <1>7 DEF u, G, r

LEMMA OnlyFramesMeans ==
  ASSUME NEW s \in Writer, NEW u, OnlyFrames(s, u)
  PROVE  /\ Calm(s, u)
         /\ u.started = s.started /\ u.closed = s.closed /\ u.flow = s.flow /\ u.held = s.held
         /\ u.items = s.items /\ u.kinds = s.kinds /\ u.args = s.args /\ u.refused = s.refused
         /\ u.calls = s.calls /\ u.split = s.split /\ u.last = s.last
BY DEF Writer, OnlyFrames, Calm

LEMMA OnlyFramesTwice ==
  ASSUME NEW s \in Writer, NEW u \in Writer, NEW v \in Writer, OnlyFrames(s, u), OnlyFrames(u, v)
  PROVE  OnlyFrames(s, v)
BY DEF Writer, OnlyFrames

\* The four things a translator does to its blocks: it opens one, fills one,
\* stops one, or adds one that it has stopped already.
Opening(strict, E, s, u, block, kind) ==
  /\ Writes(strict, E, u) /\ OnlyFrames(s, u)
  /\ Count(u.frames) = block + 1
  /\ \A b, k : IsOpen(u.frames, b, k) <=> IsOpen(s.frames, b, k) \/ (b = block /\ k = kind)
  /\ Told(u.frames) = Told(s.frames)
  /\ Called(u.frames) <=> Called(s.frames) \/ kind \in {"tool", "nudge"}

Filling(strict, E, s, u) ==
  Writes(strict, E, u) /\ OnlyFrames(s, u) /\ u.next = s.next /\ Same(s.frames, u.frames)

Stopping(strict, E, s, u, block) ==
  /\ Writes(strict, E, u) /\ OnlyFrames(s, u) /\ u.next = s.next
  /\ Count(u.frames) = Count(s.frames)
  /\ \A b, k : IsOpen(u.frames, b, k) <=> IsOpen(s.frames, b, k) /\ b # block
  /\ Told(u.frames) = Told(s.frames)
  /\ Called(u.frames) <=> Called(s.frames)

Adding(strict, E, s, u, kind) ==
  /\ Writes(strict, E, u) /\ OnlyFrames(s, u) /\ u.next = s.next + 1
  /\ Count(u.frames) = s.next + 1
  /\ AsOpen(s.frames, u.frames)
  /\ Told(u.frames) = Told(s.frames)
  /\ Called(u.frames) <=> Called(s.frames) \/ kind \in {"tool", "nudge"}

\* A block may be opened with the number of those opened before it.
LEMMA OpensAt ==
  ASSUME NEW strict \in BOOLEAN, NEW E \in Seq(Frame), NEW s, Writes(strict, E, s), NEW kind \in Kinds,
         NEW block \in Nat, Count(s.frames) = block, NEW data \in Seq(Nat),
         NEW v, v = Emit(s, "open", block, kind, data)
  PROVE  Opening(strict, E, s, v, block, kind) /\ v.next = s.next
<1> DEFINE r == [frame |-> "open", block |-> block, kind |-> kind, data |-> data]
           G == Append(s.frames, r)
<1>1. s \in Writer /\ "open" \in FrameNames /\ Grows(E, s.frames) /\ Live(strict, s.frames) /\ s.frames # <<>>
  BY DEF Writes, FrameNames
<1>2. r \in Frame
  BY <1>1, FrameIs, Zenon
<1>3. r.frame = "open" /\ r.block = block /\ r.kind = kind
  OBVIOUS
<1>4. /\ v \in Writer /\ v.frames = G /\ v.next = s.next /\ OnlyFrames(s, v)
      /\ Grows(E, v.frames) /\ v.frames # <<>>
  <2>1. /\ v \in Writer /\ v.frames = G /\ v.frames # <<>> /\ v.next = s.next /\ OnlyFrames(s, v)
        /\ \A C \in Seq(Frame) : Grows(C, s.frames) => Grows(C, v.frames)
    BY <1>1, EmitIs, ZenonT(30)
  <2> QED
    BY <1>1, <2>1
<1> HIDE DEF r
<1>5. /\ Live(strict, G) /\ Count(G) = block + 1
      /\ \A b, k : IsOpen(G, b, k) <=> IsOpen(s.frames, b, k) \/ (b = r.block /\ k = r.kind)
      /\ Told(G) = Told(s.frames)
      /\ Called(G) <=> Called(s.frames) \/ r.kind \in {"tool", "nudge"}
  BY <1>1, <1>2, <1>3, AddOpen
<1> HIDE DEF G
<1> QED
  BY <1>3, <1>4, <1>5 DEF Opening, Writes

\* Open gives the next block its number.
LEMMA OpenIs ==
  ASSUME NEW strict \in BOOLEAN, NEW E \in Seq(Frame), NEW s, Writes(strict, E, s), NEW kind \in Kinds,
         Count(s.frames) = s.next, NEW u, u = Open(s, kind)
  PROVE  Opening(strict, E, s, u, s.next, kind) /\ u.next = s.next + 1
<1> DEFINE e == <<>>
           v == Emit(s, "open", s.next, kind, e)
           n == s.next
<1>1. n \in Nat /\ e \in Seq(Nat) /\ Count(s.frames) = n /\ v = Emit(s, "open", n, kind, e)
  BY EmptySeq DEF Writes, Writer
<1>2. u = [v EXCEPT !.next = v.next + 1]
  BY DEF Open
<1> HIDE DEF v, n, e
<1>3. Opening(strict, E, s, v, n, kind) /\ v.next = n
  BY <1>1, OpensAt DEF n
<1>4. s \in Writer /\ v \in Writer /\ n + 1 \in Nat
  BY <1>1, <1>3 DEF Writes, Opening
<1>5. u \in Writer /\ u.frames = v.frames /\ u.next = n + 1
  BY <1>2, <1>3, <1>4 DEF Writer
<1>6. OnlyFrames(s, u)
  BY <1>2, <1>3, <1>4, <1>5 DEF Writer, OnlyFrames, Opening
<1>7. Opening(strict, E, s, u, n, kind)
  BY <1>3, <1>5, <1>6 DEF Opening, Writes
<1> QED
  BY <1>5, <1>7 DEF n

LEMMA DeltaIs ==
  ASSUME NEW strict \in BOOLEAN, NEW E \in Seq(Frame), NEW s, Writes(strict, E, s),
         NEW block \in Nat, NEW kind \in Kinds, NEW data \in Seq(Nat),
         strict \/ kind = "tool" => \E k \in Holds(kind) : IsOpen(s.frames, block, k),
         NEW u, u = Delta(s, block, kind, data)
  PROVE  Filling(strict, E, s, u)
<1> DEFINE r == [frame |-> "delta", block |-> block, kind |-> kind, data |-> data]
           G == Append(s.frames, r)
<1>1. s \in Writer /\ "delta" \in FrameNames /\ Grows(E, s.frames) /\ Live(strict, s.frames) /\ s.frames # <<>>
  BY DEF Writes, FrameNames
<1>2. r \in Frame
  BY <1>1, FrameIs, Zenon
<1>3. r.frame = "delta" /\ r.block = block /\ r.kind = kind
  OBVIOUS
<1>4. /\ u \in Writer /\ u.frames = G /\ u.next = s.next /\ OnlyFrames(s, u)
      /\ Grows(E, u.frames) /\ u.frames # <<>>
  BY <1>1, EmitIs, Zenon DEF Delta
<1> HIDE DEF r
<1>5. Live(strict, G) /\ Same(s.frames, G)
  BY <1>1, <1>2, <1>3, AddDelta
<1> HIDE DEF G
<1> QED
  BY <1>4, <1>5 DEF Writes, Filling

LEMMA FillIs ==
  ASSUME NEW strict \in BOOLEAN, NEW E \in Seq(Frame), NEW s, Writes(strict, E, s),
         NEW block \in Nat, NEW kind \in Kinds \ {"footer"}, NEW data \in Seq(Nat),
         IsOpen(s.frames, block, kind), NEW u, u = Delta(s, block, kind, data)
  PROVE  Filling(strict, E, s, u)
<1>1. kind \in Kinds /\ \E k \in Holds(kind) : IsOpen(s.frames, block, k)
  BY DEF Holds
<1> QED
  BY <1>1, DeltaIs

LEMMA StopEmits ==
  ASSUME NEW s \in Writer, NEW block \in Nat, NEW kind \in Kinds
  PROVE  /\ Stop(s, block, kind) \in Writer
         /\ Stop(s, block, kind).frames
              = Append(s.frames, [frame |-> "stop", block |-> block, kind |-> kind, data |-> <<>>])
         /\ Stop(s, block, kind).frames # <<>>
         /\ Stop(s, block, kind).next = s.next
         /\ OnlyFrames(s, Stop(s, block, kind))
         /\ \A E \in Seq(Frame) : Grows(E, s.frames) => Grows(E, Stop(s, block, kind).frames)
<1>1. "stop" \in FrameNames /\ <<>> \in Seq(Nat)
  BY EmptySeq DEF FrameNames
<1> QED
  BY <1>1, EmitIs, Zenon DEF Stop

LEMMA StopIs ==
  ASSUME NEW strict \in BOOLEAN, NEW E \in Seq(Frame), NEW s, Writes(strict, E, s),
         NEW block \in Nat, NEW kind \in Kinds \ {"footer"}, IsOpen(s.frames, block, kind),
         NEW u, u = Stop(s, block, kind)
  PROVE  Stopping(strict, E, s, u, block)
<1> DEFINE r == [frame |-> "stop", block |-> block, kind |-> kind, data |-> <<>>]
           G == Append(s.frames, r)
<1>1. /\ s \in Writer /\ "stop" \in FrameNames /\ kind \in Kinds /\ <<>> \in Seq(Nat)
      /\ Grows(E, s.frames) /\ Live(strict, s.frames) /\ s.frames # <<>>
  BY EmptySeq DEF Writes, FrameNames
<1>2. r \in Frame
  BY <1>1, FrameIs, Zenon
<1>3. r.frame = "stop" /\ r.block = block /\ r.kind = kind
  OBVIOUS
<1>4. /\ u \in Writer /\ u.frames = G /\ u.next = s.next /\ OnlyFrames(s, u)
      /\ Grows(E, u.frames) /\ u.frames # <<>>
  BY <1>1, StopEmits, Zenon
<1> HIDE DEF r
<1>5. /\ Live(strict, G) /\ Count(G) = Count(s.frames)
      /\ \A b, k : IsOpen(G, b, k) <=> IsOpen(s.frames, b, k) /\ b # r.block
      /\ Told(G) = Told(s.frames)
      /\ Called(G) <=> Called(s.frames)
  BY <1>1, <1>2, <1>3, AddStop
<1> HIDE DEF G
<1> QED
  BY <1>3, <1>4, <1>5 DEF Writes, Stopping

\* A message that has ended.
Over(strict, E, s) ==
  /\ s \in Writer
  /\ Ordered(strict, s.frames)
  /\ Grows(E, s.frames)

LastOf(F) == F[Len(F)].frame

LEMMA SayEmits ==
  ASSUME NEW s \in Writer, NEW f \in FrameNames, NEW kind \in Kinds
  PROVE  /\ Say(s, f, kind) \in Writer
         /\ Say(s, f, kind).frames
              = Append(s.frames, [frame |-> f, block |-> 0, kind |-> kind, data |-> <<>>])
         /\ [frame |-> f, block |-> 0, kind |-> kind, data |-> <<>>] \in Frame
         /\ Say(s, f, kind).frames # <<>>
         /\ Say(s, f, kind).next = s.next
         /\ OnlyFrames(s, Say(s, f, kind))
         /\ \A E \in Seq(Frame) : Grows(E, s.frames) => Grows(E, Say(s, f, kind).frames)
         /\ LastOf(Say(s, f, kind).frames) = f
<1> DEFINE r == [frame |-> f, block |-> 0, kind |-> kind, data |-> <<>>]
           u == Say(s, f, kind)
<1>1. 0 \in Nat /\ <<>> \in Seq(Nat)
  BY EmptySeq
<1>2. /\ u \in Writer /\ u.frames = Append(s.frames, r) /\ u.frames # <<>> /\ u.next = s.next
      /\ OnlyFrames(s, u)
      /\ \A E \in Seq(Frame) : Grows(E, s.frames) => Grows(E, u.frames)
  BY <1>1, EmitIs, Zenon DEF Say
<1>3. r \in Frame
  BY <1>1, FrameIs, Zenon
<1>4. LastOf(u.frames) = f
  <2>1. s.frames \in Seq(Frame) /\ r.frame = f
    BY DEF Writer
  <2> HIDE DEF r, u
  <2> QED
    BY <1>2, <1>3, <2>1, Places DEF LastOf
<1> QED
  BY <1>2, <1>3, <1>4

LEMMA FinishIs ==
  ASSUME NEW strict \in BOOLEAN, NEW E \in Seq(Frame), NEW s, Writes(strict, E, s), NEW kind \in Kinds
  PROVE  /\ Writes(strict, E, Say(s, "finish", kind))
         /\ OnlyFrames(s, Say(s, "finish", kind))
         /\ Say(s, "finish", kind).next = s.next
         /\ Count(Say(s, "finish", kind).frames) = Count(s.frames)
         /\ AsOpen(s.frames, Say(s, "finish", kind).frames)
         /\ Told(Say(s, "finish", kind).frames) = Told(s.frames) \cup {kind}
         /\ Called(Say(s, "finish", kind).frames) <=> Called(s.frames)
<1> DEFINE r == [frame |-> "finish", block |-> 0, kind |-> kind, data |-> <<>>]
           u == Say(s, "finish", kind)
<1>1. s \in Writer /\ "finish" \in FrameNames
  BY DEF Writes, FrameNames
<1>2. /\ u \in Writer /\ u.frames = Append(s.frames, r) /\ r \in Frame /\ u.frames # <<>> /\ u.next = s.next
      /\ OnlyFrames(s, u)
      /\ \A E0 \in Seq(Frame) : Grows(E0, s.frames) => Grows(E0, u.frames)
  BY <1>1, SayEmits, Zenon
<1>3. r.frame = "finish" /\ r.kind = kind
  OBVIOUS
<1> HIDE DEF r, u
<1>4. /\ Live(strict, u.frames) /\ Count(u.frames) = Count(s.frames) /\ AsOpen(s.frames, u.frames)
      /\ Told(u.frames) = Told(s.frames) \cup {kind}
      /\ Called(u.frames) <=> Called(s.frames)
  BY <1>2, <1>3, AddFinish DEF Writes
<1> QED
  BY <1>2, <1>4 DEF Writes, u

\* The last frame: the message's end, or an error.
LEMMA LastIs ==
  ASSUME NEW strict \in BOOLEAN, NEW E \in Seq(Frame), NEW s, Writes(strict, E, s), NEW f \in {"end", "error"},
         f = "end" /\ strict => \A b, k : ~IsOpen(s.frames, b, k)
  PROVE  /\ Over(strict, E, Say(s, f, "message"))
         /\ OnlyFrames(s, Say(s, f, "message"))
         /\ LastOf(Say(s, f, "message").frames) = f
         /\ Told(Say(s, f, "message").frames) = Told(s.frames)
         /\ Called(Say(s, f, "message").frames) <=> Called(s.frames)
<1> DEFINE r == [frame |-> f, block |-> 0, kind |-> "message", data |-> <<>>]
           u == Say(s, f, "message")
<1>1. s \in Writer /\ f \in FrameNames /\ "message" \in Kinds
  BY DEF Writes, FrameNames, Kinds
<1>2. /\ u \in Writer /\ u.frames = Append(s.frames, r) /\ r \in Frame /\ LastOf(u.frames) = f
      /\ OnlyFrames(s, u)
      /\ \A E0 \in Seq(Frame) : Grows(E0, s.frames) => Grows(E0, u.frames)
  BY <1>1, SayEmits, Zenon
<1>3. r.frame = f
  OBVIOUS
<1> HIDE DEF r, u
<1>4. Ordered(strict, u.frames) /\ Told(u.frames) = Told(s.frames) /\ (Called(u.frames) <=> Called(s.frames))
  BY <1>2, <1>3, AddLast DEF Writes
<1> QED
  BY <1>2, <1>4 DEF Over, Writes, u

LEMMA MessageStopIs ==
  ASSUME NEW strict \in BOOLEAN, NEW E \in Seq(Frame), NEW s, Writes(strict, E, s), NEW kind \in Kinds,
         strict => \A b, k : ~IsOpen(s.frames, b, k)
  PROVE  /\ Over(strict, E, MessageStop(s, kind))
         /\ MessageStop(s, kind).closed
         /\ Calm(s, MessageStop(s, kind))
         /\ LastOf(MessageStop(s, kind).frames) = "end"
         /\ Told(MessageStop(s, kind).frames) = Told(s.frames) \cup {kind}
         /\ Called(MessageStop(s, kind).frames) <=> Called(s.frames)
<1> DEFINE v == Say(s, "finish", kind)
           w == Say(v, "end", "message")
           u == MessageStop(s, kind)
<1>1. /\ Writes(strict, E, v) /\ OnlyFrames(s, v) /\ AsOpen(s.frames, v.frames)
      /\ Told(v.frames) = Told(s.frames) \cup {kind} /\ (Called(v.frames) <=> Called(s.frames))
  BY FinishIs
<1>2. u = [w EXCEPT !.closed = TRUE]
  BY DEF MessageStop
<1> HIDE DEF v, u
<1>3. /\ Over(strict, E, w) /\ OnlyFrames(v, w) /\ LastOf(w.frames) = "end"
      /\ Told(w.frames) = Told(v.frames) /\ (Called(w.frames) <=> Called(v.frames))
  <2>1. strict => \A b, k : ~IsOpen(v.frames, b, k)
    BY <1>1 DEF AsOpen
  <2> QED
    BY <1>1, <2>1, LastIs
<1> HIDE DEF w
<1>4. s \in Writer /\ v \in Writer /\ w \in Writer
  BY <1>1, <1>3 DEF Writes, Over
<1>5. Calm(s, w)
  BY <1>1, <1>3, <1>4, OnlyFramesMeans DEF Calm
<1>6. u \in Writer /\ u.frames = w.frames /\ u.closed /\ Calm(w, u)
  BY <1>2, <1>4 DEF Writer, Calm
<1>7. Over(strict, E, u) /\ Calm(s, u)
  BY <1>3, <1>5, <1>6 DEF Over, Calm
<1> QED
  BY <1>1, <1>3, <1>6, <1>7 DEF u

LEMMA ErrorFrameIs ==
  ASSUME NEW strict \in BOOLEAN, NEW E \in Seq(Frame), NEW s, Writes(strict, E, s)
  PROVE  /\ Over(strict, E, ErrorFrame(s))
         /\ ErrorFrame(s).closed
         /\ Calm(s, ErrorFrame(s))
         /\ LastOf(ErrorFrame(s).frames) = "error"
<1> DEFINE w == Say(s, "error", "message")
           u == ErrorFrame(s)
<1>1. u = [w EXCEPT !.closed = TRUE]
  BY DEF ErrorFrame
<1> HIDE DEF u
<1>2. Over(strict, E, w) /\ OnlyFrames(s, w) /\ LastOf(w.frames) = "error"
  BY LastIs
<1> HIDE DEF w
<1>3. s \in Writer /\ w \in Writer
  BY <1>2 DEF Writes, Over
<1>4. Calm(s, w)
  BY <1>2, <1>3, OnlyFramesMeans
<1>5. u \in Writer /\ u.frames = w.frames /\ u.closed /\ Calm(w, u)
  BY <1>1, <1>3 DEF Writer, Calm
<1>6. Over(strict, E, u) /\ Calm(s, u)
  BY <1>2, <1>4, <1>5 DEF Over, Calm
<1> QED
  BY <1>2, <1>5, <1>6 DEF u

\* Nothing but the lifecycle is new.
OnlyLife(s, u) == u = [s EXCEPT !.life = u.life, !.last = u.last, !.output = u.output, !.err = u.err]

LEMMA OnlyLifeMeans ==
  ASSUME NEW s \in Writer, NEW u, OnlyLife(s, u)
  PROVE  /\ u.frames = s.frames /\ u.next = s.next /\ u.failed = s.failed /\ u.finish = s.finish
         /\ u.started = s.started /\ u.closed = s.closed /\ u.flow = s.flow /\ u.held = s.held
         /\ u.items = s.items /\ u.kinds = s.kinds /\ u.args = s.args /\ u.refused = s.refused
         /\ u.calls = s.calls /\ u.split = s.split
BY DEF Writer, OnlyLife

LEMMA RefuseIs ==
  ASSUME NEW s \in Writer
  PROVE  /\ Refuse(s) \in Writer /\ OnlyLife(s, Refuse(s))
         /\ Refuse(s).err = "order" /\ Refuse(s).life = s.life /\ Refuse(s).output = s.output
<1> DEFINE u == Refuse(s)
<1>1. u = [s EXCEPT !.err = "order"] /\ "order" \in Errors
  BY DEF Refuse, Errors
<1> HIDE DEF u
<1>2. u \in Writer /\ u.err = "order" /\ u.life = s.life /\ u.output = s.output
  BY <1>1 DEF Writer
<1>3. OnlyLife(s, u)
  BY <1>1 DEF Writer, OnlyLife
<1> QED
  BY <1>2, <1>3 DEF u

LEMMA StartIs ==
  ASSUME NEW s \in Writer
  PROVE  /\ Start(s) \in Writer /\ OnlyLife(s, Start(s))
         /\ s.life = "idle" => Start(s).life = "started" /\ Start(s).err = s.err
         /\ s.life # "idle" => Start(s).life = s.life /\ Start(s).err = "order"
         /\ Start(s).output = s.output
<1> DEFINE u == Start(s)
<1>1. CASE s.life = "idle"
  <2>1. u = [s EXCEPT !.life = "started"] /\ "started" \in Lives
    BY <1>1 DEF Start, Lives
  <2> HIDE DEF u
  <2>2. u \in Writer /\ u.life = "started" /\ u.err = s.err /\ u.output = s.output
    BY <2>1 DEF Writer
  <2>3. OnlyLife(s, u)
    BY <2>1 DEF Writer, OnlyLife
  <2> QED
    BY <1>1, <2>2, <2>3 DEF u
<1>2. CASE s.life # "idle"
  BY <1>2, RefuseIs DEF Start
<1> QED
  BY <1>1, <1>2

LEMMA OutputIs ==
  ASSUME NEW s \in Writer, NEW n \in Nat
  PROVE  /\ Output(s, n) \in Writer /\ OnlyLife(s, Output(s, n))
         /\ Output(s, n).life = s.life
         /\ \/ Output(s, n).err = s.err /\ Output(s, n).output /\ s.life = "started"
            \/ Output(s, n).err = "order" /\ Output(s, n).output = s.output
         /\ s.life # "started" => Output(s, n).err = "order"
<1> DEFINE u == Output(s, n)
<1>1. CASE s.life = "started" /\ (s.output => n >= s.last)
  <2>1. u = [s EXCEPT !.last = n, !.output = TRUE]
    BY <1>1 DEF Output
  <2> HIDE DEF u
  <2>2. u \in Writer /\ u.life = s.life /\ u.err = s.err /\ u.output
    BY <2>1 DEF Writer
  <2>3. OnlyLife(s, u)
    BY <2>1 DEF Writer, OnlyLife
  <2> QED
    BY <1>1, <2>2, <2>3 DEF u
<1>2. CASE ~(s.life = "started" /\ (s.output => n >= s.last))
  BY <1>2, RefuseIs DEF Output
<1> QED
  BY <1>1, <1>2

LEMMA TerminalIs ==
  ASSUME NEW s \in Writer
  PROVE  /\ Terminal(s) \in Writer /\ OnlyLife(s, Terminal(s))
         /\ s.life = "started" => Terminal(s).life = "terminal" /\ Terminal(s).err = s.err
         /\ s.life # "started" => Terminal(s).life = s.life /\ Terminal(s).err = "order"
         /\ Terminal(s).output = s.output
<1> DEFINE u == Terminal(s)
<1>1. CASE s.life = "started"
  <2>1. u = [s EXCEPT !.life = "terminal"] /\ "terminal" \in Lives
    BY <1>1 DEF Terminal, Lives
  <2> HIDE DEF u
  <2>2. u \in Writer /\ u.life = "terminal" /\ u.err = s.err /\ u.output = s.output
    BY <2>1 DEF Writer
  <2>3. OnlyLife(s, u)
    BY <2>1 DEF Writer, OnlyLife
  <2> QED
    BY <1>1, <2>2, <2>3 DEF u
<1>2. CASE s.life # "started"
  BY <1>2, RefuseIs DEF Terminal
<1> QED
  BY <1>1, <1>2

LEMMA FailIs ==
  ASSUME NEW s \in Writer
  PROVE  /\ Fail(s) \in Writer /\ OnlyLife(s, Fail(s))
         /\ Fail(s).err = s.err /\ Fail(s).output = s.output
         /\ s.life = "started" => Fail(s).life = "failed"
         /\ s.life # "started" => Fail(s) = s
<1> DEFINE u == Fail(s)
<1>1. CASE s.life = "started"
  <2>1. u = [s EXCEPT !.life = "failed"] /\ "failed" \in Lives
    BY <1>1 DEF Fail, Lives
  <2> HIDE DEF u
  <2>2. u \in Writer /\ u.life = "failed" /\ u.err = s.err /\ u.output = s.output
    BY <2>1 DEF Writer
  <2>3. OnlyLife(s, u)
    BY <2>1 DEF Writer, OnlyLife
  <2> QED
    BY <1>1, <2>2, <2>3 DEF u
<1>2. CASE s.life # "started"
  <2>1. u = s
    BY <1>2 DEF Fail
  <2> HIDE DEF u
  <2>2. OnlyLife(s, u)
    BY <2>1 DEF Writer, OnlyLife
  <2> QED
    BY <1>2, <2>1, <2>2 DEF u
<1> QED
  BY <1>1, <1>2

LEMMA FreshIs ==
  /\ Fresh \in Writer /\ Fresh.life = "idle" /\ ~Fresh.output /\ ~Fresh.started /\ ~Fresh.closed
  /\ Fresh.err = "none" /\ Fresh.next = 0 /\ Fresh.flow = "none" /\ Fresh.calls = 0 /\ ~Fresh.failed
  /\ DOMAIN Fresh.items = {} /\ DOMAIN Fresh.kinds = {} /\ Fresh.frames = <<>>
<1>1. DOMAIN Nothing = {} /\ \A V : Nothing \in Maps(V)
  <2>1. \A V : Nothing \in [{} -> V]
    BY DEF Nothing
  <2> QED
    BY <2>1 DEF Maps, Nothing
<1>2. <<>> \in Seq(Nat) /\ <<>> \in Seq(Frame)
  BY EmptySeq
<1> QED
  BY <1>1, <1>2 DEF Fresh, Writer, Lives, Errors

\* The frame that begins a message.
LEMMA StartFrameIs ==
  ASSUME NEW strict \in BOOLEAN, NEW E \in Seq(Frame), NEW s \in Writer, s.frames = <<>>, Grows(E, s.frames)
  PROVE  /\ Writes(strict, E, Say(s, "start", "message"))
         /\ OnlyFrames(s, Say(s, "start", "message"))
         /\ Say(s, "start", "message").next = s.next
         /\ Count(Say(s, "start", "message").frames) = 0
         /\ \A b, k : ~IsOpen(Say(s, "start", "message").frames, b, k)
         /\ Told(Say(s, "start", "message").frames) = {}
         /\ ~Called(Say(s, "start", "message").frames)
<1> DEFINE r == [frame |-> "start", block |-> 0, kind |-> "message", data |-> <<>>]
           u == Say(s, "start", "message")
<1>1. "start" \in FrameNames /\ "message" \in Kinds
  BY DEF FrameNames, Kinds
<1>2. /\ u \in Writer /\ u.frames = Append(s.frames, r) /\ r \in Frame /\ u.frames # <<>> /\ u.next = s.next
      /\ OnlyFrames(s, u)
      /\ \A E0 \in Seq(Frame) : Grows(E0, s.frames) => Grows(E0, u.frames)
  BY <1>1, SayEmits, Zenon
<1>3. r.frame = "start"
  OBVIOUS
<1> HIDE DEF r, u
<1>4. Live(strict, u.frames) /\ Same(<<>>, u.frames)
  BY <1>2, <1>3, AddStart
<1>5. DOMAIN <<>> = {} /\ Count(<<>>) = 0 /\ Book(<<>>) = {} /\ Told(<<>>) = {} /\ ~Called(<<>>)
  BY FS_EmptySet DEF Count, Book, Told, Called, Opened
<1>6. Count(u.frames) = 0 /\ (\A b, k : ~IsOpen(u.frames, b, k)) /\ Told(u.frames) = {} /\ ~Called(u.frames)
  BY <1>4, <1>5, BookIsOpen DEF Same, AsOpen
<1> QED
  BY <1>2, <1>4, <1>6 DEF Writes, u

\* A block that is opened, filled and stopped at once.
LEMMA WholeBlockIs ==
  ASSUME NEW strict \in BOOLEAN, NEW E \in Seq(Frame), NEW s, Writes(strict, E, s),
         NEW kind \in Kinds \ {"footer"}, NEW data \in Seq(Nat), Count(s.frames) = s.next,
         NEW u, u = Stop(Delta(Open(s, kind), s.next, kind, data), s.next, kind)
  PROVE  Adding(strict, E, s, u, kind)
<1> DEFINE n == s.next
           o == Open(s, kind)
           d == Delta(o, n, kind, data)
<1>1. kind \in Kinds /\ n \in Nat
  BY DEF Writes, Writer
<1>2. Opening(strict, E, s, o, n, kind) /\ o.next = n + 1
  BY <1>1, OpenIs
<1>3. \A k : ~IsOpen(s.frames, n, k)
  <2>1. Live(strict, s.frames) /\ ~(n < Count(s.frames))
    BY <1>1 DEF Writes
  <2> HIDE DEF n
  <2> QED
    BY <2>1, InBook DEF IsOpen
<1>4. Writes(strict, E, o) /\ IsOpen(o.frames, n, kind)
  BY <1>2 DEF Opening
<1>5. u = Stop(d, n, kind)
  BY DEF n, o
<1> HIDE DEF o, n
<1>6. Filling(strict, E, o, d)
  BY <1>1, <1>4, FillIs
<1> HIDE DEF d
<1>7. Writes(strict, E, d) /\ IsOpen(d.frames, n, kind)
  BY <1>4, <1>6 DEF Filling, Same, AsOpen
<1>8. Stopping(strict, E, d, u, n)
  BY <1>1, <1>5, <1>7, StopIs
<1>9. OnlyFrames(s, u)
  <2>1. s \in Writer /\ o \in Writer /\ d \in Writer /\ u \in Writer
    BY <1>4, <1>7, <1>8 DEF Writes, Stopping
  <2>2. OnlyFrames(s, o) /\ OnlyFrames(o, d) /\ OnlyFrames(d, u)
    BY <1>2, <1>6, <1>8 DEF Opening, Filling, Stopping
  <2> QED
    BY <2>1, <2>2, OnlyFramesTwice
<1>10. AsOpen(s.frames, u.frames)
  BY <1>2, <1>3, <1>6, <1>8 DEF Opening, Filling, Stopping, Same, AsOpen
<1>11. /\ u.next = n + 1 /\ Count(u.frames) = n + 1 /\ Told(u.frames) = Told(s.frames)
       /\ Called(u.frames) <=> Called(s.frames) \/ kind \in {"tool", "nudge"}
  BY <1>2, <1>6, <1>8 DEF Opening, Filling, Stopping, Same
<1>12. Writes(strict, E, u)
  BY <1>8 DEF Stopping
<1> QED
  BY <1>9, <1>10, <1>11, <1>12 DEF Adding, n

\* message_start and the marker.
LEMMA MessageStartIs ==
  ASSUME NEW strict \in BOOLEAN, NEW E \in Seq(Frame), NEW s \in Writer, s.frames = <<>>, Grows(E, s.frames), s.next = 0
  PROVE  /\ Writes(strict, E, MessageStart(s))
         /\ MessageStart(s) = [s EXCEPT !.started = TRUE, !.frames = MessageStart(s).frames,
                                        !.next = MessageStart(s).next]
         /\ Count(MessageStart(s).frames) = MessageStart(s).next
         /\ MessageStart(s).next = IF Marker THEN 1 ELSE 0
         /\ \A b, k : ~IsOpen(MessageStart(s).frames, b, k)
         /\ Told(MessageStart(s).frames) = {}
         /\ ~Called(MessageStart(s).frames)
<1> DEFINE b == [s EXCEPT !.started = TRUE]
           m == Say(b, "start", "message")
           p == Stop(Delta(Open(m, "marker"), m.next, "marker", <<>>), m.next, "marker")
<1>1. b \in Writer /\ b.frames = <<>> /\ Grows(E, b.frames) /\ b.next = 0 /\ b.started
  BY DEF Writer
<1>2. MessageStart(s) = IF Marker THEN p ELSE m
  BY DEF MessageStart
<1> HIDE DEF b
<1>3. /\ Writes(strict, E, m) /\ OnlyFrames(b, m) /\ m.next = 0 /\ Count(m.frames) = m.next
      /\ (\A c, k : ~IsOpen(m.frames, c, k)) /\ Told(m.frames) = {} /\ ~Called(m.frames)
  BY <1>1, StartFrameIs
<1> HIDE DEF m
<1>4. "marker" \in Kinds \ {"footer"} /\ "marker" \notin {"tool", "nudge"} /\ <<>> \in Seq(Nat)
  BY EmptySeq DEF Kinds
<1>5. Adding(strict, E, m, p, "marker")
  <2> DEFINE k == "marker"
             e == <<>>
  <2>1. p = Stop(Delta(Open(m, k), m.next, k, e), m.next, k)
    OBVIOUS
  <2>2. k \in Kinds \ {"footer"} /\ e \in Seq(Nat)
    BY <1>4
  <2> HIDE DEF p, k, e
  <2>3. Adding(strict, E, m, p, k)
    BY <1>3, <2>1, <2>2, WholeBlockIs
  <2> QED
    BY <2>3 DEF k
<1> HIDE DEF p
<1>6. OnlyFrames(b, p)
  BY <1>1, <1>3, <1>5, OnlyFramesTwice DEF Writes, Adding
<1>7. MessageStart(s) \in Writer /\ OnlyFrames(b, MessageStart(s))
  BY <1>2, <1>3, <1>5, <1>6 DEF Writes, Adding
<1>8. MessageStart(s) = [s EXCEPT !.started = TRUE, !.frames = MessageStart(s).frames,
                                  !.next = MessageStart(s).next]
  BY <1>7 DEF OnlyFrames, Writer, b
<1>9. /\ Writes(strict, E, MessageStart(s)) /\ MessageStart(s).next = IF Marker THEN 1 ELSE 0
      /\ Count(MessageStart(s).frames) = MessageStart(s).next
  BY <1>2, <1>3, <1>5 DEF Adding
<1>10. /\ \A c, k : ~IsOpen(MessageStart(s).frames, c, k)
       /\ Told(MessageStart(s).frames) = {} /\ ~Called(MessageStart(s).frames)
  BY <1>2, <1>3, <1>4, <1>5 DEF AsOpen, Adding
<1> QED
  BY <1>8, <1>9, <1>10

-----------------------------------------------------------------------------
(* The chat upstreams.  The books of the translator: the flow is the last  *)
(* block opened, every other open block is a call's, and each call has one. *)

EventKinds == {"thought", "text", "call", "finish", "done", "status", "added", "delta", "item",
               "failed", "begin", "open", "stop"}

EventBodies == {"plain", "blank", "open", "close", "bare", "args", "stop", "tool_calls", "length",
                "text", "thinking", "tool", "nameless"}

Events ==
  {e \in [id : Nat, kind : EventKinds, slot : Nat, named : BOOLEAN, body : EventBodies] :
     e.kind = "finish" => e.body \in {"stop", "tool_calls", "length"}}

ChatBlocks(s) ==
  /\ Count(s.frames) = s.next
  /\ s.flow \in {"none", "text", "thinking"}
  /\ \A b, k : IsOpen(s.frames, b, k) <=> \/ s.flow # "none" /\ k = s.flow /\ b = s.next - 1
                                          \/ k = "tool" /\ \E j \in DOMAIN s.items : s.items[j] = b
  /\ \A i, j \in DOMAIN s.items : s.items[i] = s.items[j] => i = j
  /\ IsFiniteSet(DOMAIN s.items)

\* No finish reason was told, and calls counts what was opened as a call.
Untold(s) == Told(s.frames) = {} /\ (Called(s.frames) <=> s.calls > 0)

Chatting(strict, E, s) ==
  Writes(strict, E, s) /\ s.started /\ ~s.closed /\ ChatBlocks(s) /\ Untold(s)

OnlyFlow(s, u) == u = [s EXCEPT !.frames = u.frames, !.flow = "none"]

\* What is not in the books may change.
LEMMA ChatKeeps ==
  ASSUME NEW strict, NEW E, NEW s, Chatting(strict, E, s), NEW u \in Writer,
         u.frames = s.frames, u.next = s.next, u.flow = s.flow, u.items = s.items, u.calls = s.calls,
         u.started = s.started, u.closed = s.closed
  PROVE  Chatting(strict, E, u)
BY DEF Chatting, Writes, ChatBlocks, Untold

LEMMA CloseFlowIs ==
  ASSUME NEW strict \in BOOLEAN, NEW E \in Seq(Frame), NEW s, Chatting(strict, E, s), NEW u, u = CloseFlow(s)
  PROVE  Chatting(strict, E, u) /\ OnlyFlow(s, u)
<1>1. s \in Writer /\ Writes(strict, E, s) /\ ChatBlocks(s) /\ Untold(s) /\ s.next \in Nat
  BY DEF Chatting, Writes, Writer
<1>2. CASE s.flow = "none"
  <2>1. u = s
    BY <1>2 DEF CloseFlow
  <2> QED
    BY <1>1, <1>2, <2>1 DEF Writer, OnlyFlow
<1>3. CASE s.flow # "none"
  <2> DEFINE b0 == s.next - 1
             v == Stop(s, b0, s.flow)
  <2>1. s.flow \in {"text", "thinking"} /\ IsOpen(s.frames, b0, s.flow)
    BY <1>1, <1>3 DEF ChatBlocks
  <2>2. s.flow \in Kinds \ {"footer"}
    BY <2>1 DEF Kinds
  <2>3. b0 \in Nat
    <3>1. Live(strict, s.frames)
      BY <1>1 DEF Writes
    <3> QED
      BY <2>1, <3>1, InBook DEF IsOpen
  <2>4. u = [v EXCEPT !.flow = "none"]
    BY <1>3 DEF CloseFlow
  <2>5. Stopping(strict, E, s, v, b0)
    <3> DEFINE k == s.flow
    <3>1. v = Stop(s, b0, k) /\ k \in Kinds \ {"footer"} /\ IsOpen(s.frames, b0, k)
      BY <2>1, <2>2
    <3> HIDE DEF v, b0, k
    <3> QED
      BY <1>1, <2>3, <3>1, StopIs
  <2> HIDE DEF v
  <2>6. v \in Writer /\ OnlyFrames(s, v) /\ v.next = s.next
    BY <2>5 DEF Stopping, Writes
  <2>7. u \in Writer /\ OnlyFlow(s, u) /\ u.frames = v.frames
    <3>1. u \in Writer /\ u.frames = v.frames
      BY <2>4, <2>6 DEF Writer
    <3>2. v = [s EXCEPT !.frames = v.frames, !.next = s.next]
      BY <2>6 DEF OnlyFrames
    <3>3. s \in Writer /\ v \in Writer
      BY <1>1, <2>6
    <3>4. OnlyFlow(s, u)
      BY <2>4, <3>1, <3>2, <3>3 DEF Writer, OnlyFlow
    <3> QED
      BY <3>1, <3>4
  <2>8. /\ u.next = s.next /\ u.items = s.items /\ u.calls = s.calls /\ u.started = s.started
        /\ u.closed = s.closed /\ u.flow = "none"
    BY <1>1, <2>7 DEF Writer, OnlyFlow
  <2>9. \A j \in DOMAIN s.items : s.items[j] # b0
    <3>1. ASSUME NEW j \in DOMAIN s.items, s.items[j] = b0 PROVE FALSE
      <4>1. IsOpen(s.frames, b0, "tool")
        BY <1>1, <3>1 DEF ChatBlocks
      <4>2. Live(strict, s.frames)
        BY <1>1 DEF Writes
      <4>3. "tool" = s.flow
        BY <2>1, <4>1, <4>2, InBook DEF IsOpen
      <4> QED
        BY <2>1, <4>3
    <3> QED
      BY <3>1
  <2>10. \A b, k : IsOpen(u.frames, b, k) <=> k = "tool" /\ \E j \in DOMAIN u.items : u.items[j] = b
    <3>1. \A b, k : IsOpen(u.frames, b, k) <=> IsOpen(s.frames, b, k) /\ b # b0
      BY <2>5, <2>7 DEF Stopping
    <3>2. \A b, k : IsOpen(s.frames, b, k) <=> \/ s.flow # "none" /\ k = s.flow /\ b = b0
                                               \/ k = "tool" /\ \E j \in DOMAIN s.items : s.items[j] = b
      BY <1>1 DEF ChatBlocks
    <3> HIDE DEF b0
    <3> QED
      BY <2>8, <2>9, <3>1, <3>2
  <2>11. Count(u.frames) = u.next /\ Told(u.frames) = {} /\ (Called(u.frames) <=> u.calls > 0)
    BY <1>1, <2>5, <2>7, <2>8 DEF Stopping, ChatBlocks, Untold
  <2>12. ChatBlocks(u)
    <3>1. /\ \A i, j \in DOMAIN u.items : u.items[i] = u.items[j] => i = j
          /\ IsFiniteSet(DOMAIN u.items)
      BY <1>1, <2>8 DEF ChatBlocks
    <3> QED
      BY <2>8, <2>10, <2>11, <3>1 DEF ChatBlocks
  <2>13. Writes(strict, E, u)
    BY <2>5, <2>7 DEF Stopping, Writes
  <2> QED
    BY <2>7, <2>8, <2>11, <2>12, <2>13 DEF Chatting, Untold
<1> QED
  BY <1>2, <1>3

\* A block of text or of reasoning is opened, if none of its kind is open.
LEMMA EnterFlowIs ==
  ASSUME NEW strict \in BOOLEAN, NEW E \in Seq(Frame), NEW s, Chatting(strict, E, s),
         NEW kind \in {"text", "thinking"}, NEW u, u = EnterFlow(s, kind)
  PROVE  Chatting(strict, E, u) /\ u.flow = kind /\ Calm(s, u)
<1>1. CASE s.flow = kind
  BY <1>1 DEF EnterFlow, Calm
<1>2. CASE s.flow # kind
  <2> DEFINE c == CloseFlow(s)
             v == Open(c, kind)
  <2>1. Chatting(strict, E, c) /\ OnlyFlow(s, c)
    <3>1. c = CloseFlow(s)
      OBVIOUS
    <3> HIDE DEF c
    <3> QED
      BY <3>1, CloseFlowIs
  <2>2. u = [v EXCEPT !.flow = kind]
    BY <1>2 DEF EnterFlow
  <2> HIDE DEF c
  <2>3. /\ c \in Writer /\ Writes(strict, E, c) /\ ChatBlocks(c) /\ Untold(c) /\ c.next \in Nat
        /\ Count(c.frames) = c.next /\ c.started /\ ~c.closed
    BY <2>1 DEF Chatting, Writes, Writer, ChatBlocks
  <2>4. s \in Writer
    BY DEF Chatting, Writes
  <2>5. c.flow = "none" /\ Calm(s, c)
    BY <2>1, <2>4 DEF Writer, Calm, OnlyFlow
  <2>6. Opening(strict, E, c, v, c.next, kind) /\ v.next = c.next + 1
    <3>1. kind \in Kinds
      BY DEF Kinds
    <3> QED
      BY <2>3, <3>1, OpenIs
  <2> HIDE DEF v
  <2>7. v \in Writer /\ OnlyFrames(c, v)
    BY <2>6 DEF Opening, Writes
  <2>8. /\ u \in Writer /\ u.frames = v.frames /\ u.next = c.next + 1 /\ u.flow = kind /\ u.items = c.items
        /\ u.calls = c.calls /\ u.started = c.started /\ u.closed = c.closed
    <3>1. /\ v.items = c.items /\ v.calls = c.calls /\ v.started = c.started /\ v.closed = c.closed
          /\ v.next = c.next + 1
      BY <2>3, <2>6, <2>7, OnlyFramesMeans
    <3>2. kind \in Flows
      BY DEF Flows
    <3>3. /\ u \in Writer /\ u.frames = v.frames /\ u.next = v.next /\ u.flow = kind /\ u.items = v.items
          /\ u.calls = v.calls /\ u.started = v.started /\ u.closed = v.closed
      BY <2>2, <2>7, <3>2 DEF Writer
    <3> QED
      BY <3>1, <3>3
  <2>9. Calm(c, u)
    <3>1. Calm(c, v)
      BY <2>3, <2>7, OnlyFramesMeans
    <3>2. Calm(v, u)
      BY <2>2, <2>7 DEF Writer, Calm
    <3> QED
      BY <3>1, <3>2 DEF Calm
  <2>10. \A b, k : IsOpen(u.frames, b, k) <=> \/ k = kind /\ b = u.next - 1
                                              \/ k = "tool" /\ \E j \in DOMAIN u.items : u.items[j] = b
    <3>1. \A b, k : IsOpen(u.frames, b, k) <=> IsOpen(c.frames, b, k) \/ (b = c.next /\ k = kind)
      BY <2>6, <2>8 DEF Opening
    <3>2. \A b, k : IsOpen(c.frames, b, k) <=> k = "tool" /\ \E j \in DOMAIN c.items : c.items[j] = b
      BY <2>3, <2>5 DEF ChatBlocks
    <3>3. u.next - 1 = c.next
      BY <2>3, <2>8
    <3> QED
      BY <2>8, <3>1, <3>2, <3>3
  <2>11. Count(u.frames) = u.next /\ Told(u.frames) = {} /\ (Called(u.frames) <=> u.calls > 0)
    BY <2>3, <2>6, <2>8 DEF Opening, Untold
  <2>12. ChatBlocks(u)
    <3>1. /\ \A i, j \in DOMAIN u.items : u.items[i] = u.items[j] => i = j
          /\ IsFiniteSet(DOMAIN u.items)
      BY <2>3, <2>8 DEF ChatBlocks
    <3> QED
      BY <2>8, <2>10, <2>11, <3>1 DEF ChatBlocks
  <2>13. Writes(strict, E, u)
    BY <2>6, <2>8 DEF Opening, Writes
  <2>14. Calm(s, u)
    BY <2>5, <2>9 DEF Calm
  <2> QED
    BY <2>3, <2>8, <2>11, <2>12, <2>13, <2>14 DEF Chatting, Untold
<1> QED
  BY <1>1, <1>2

\* An open block is filled.
LEMMA ChatFillIs ==
  ASSUME NEW strict \in BOOLEAN, NEW E \in Seq(Frame), NEW s, Chatting(strict, E, s),
         NEW block \in Nat, NEW kind \in {"text", "thinking", "tool"}, NEW data \in Seq(Nat),
         IsOpen(s.frames, block, kind), NEW u, u = Delta(s, block, kind, data)
  PROVE  Chatting(strict, E, u) /\ OnlyFrames(s, u) /\ u.next = s.next
<1>1. Writes(strict, E, s) /\ s \in Writer /\ kind \in Kinds \ {"footer"}
  BY DEF Chatting, Writes, Kinds
<1>2. Filling(strict, E, s, u)
  BY <1>1, FillIs
<1>3. /\ Writes(strict, E, u) /\ OnlyFrames(s, u) /\ u.next = s.next
      /\ Count(u.frames) = Count(s.frames) /\ (\A b, k : IsOpen(u.frames, b, k) <=> IsOpen(s.frames, b, k))
      /\ Told(u.frames) = Told(s.frames) /\ (Called(u.frames) <=> Called(s.frames))
  BY <1>2 DEF Filling, Same, AsOpen
<1>4. /\ u.started = s.started /\ u.closed = s.closed /\ u.flow = s.flow
      /\ u.items = s.items /\ u.calls = s.calls
  BY <1>1, <1>3, OnlyFramesMeans
<1> QED
  BY <1>3, <1>4 DEF Chatting, ChatBlocks, Untold

\* The block of the flow is the last one opened.
LEMMA FlowIsOpen ==
  ASSUME NEW strict \in BOOLEAN, NEW E \in Seq(Frame), NEW s, Chatting(strict, E, s), s.flow # "none"
  PROVE  s.next - 1 \in Nat /\ IsOpen(s.frames, s.next - 1, s.flow)
<1>1. IsOpen(s.frames, s.next - 1, s.flow)
  BY DEF Chatting, ChatBlocks
<1>2. Live(strict, s.frames)
  BY DEF Chatting, Writes
<1> QED
  BY <1>1, <1>2, InBook DEF IsOpen

LEMMA AppendThinkingIs ==
  ASSUME NEW strict \in BOOLEAN, NEW E \in Seq(Frame), NEW s, Chatting(strict, E, s),
         NEW piece \in Nat, NEW v, v = AppendThinking(s, piece)
  PROVE  Chatting(strict, E, v) /\ Calm(s, v)
<1> DEFINE kind == "thinking"
           u == EnterFlow(s, kind)
           b == u.next - 1
           data == <<piece>>
<1>1. v = Delta(u, b, kind, data)
  BY DEF AppendThinking
<1>2. kind \in {"text", "thinking", "tool"} /\ kind \in {"text", "thinking"} /\ kind # "none" /\ data \in Seq(Nat)
  OBVIOUS
<1>3. u = EnterFlow(s, kind)
  OBVIOUS
<1> HIDE DEF kind, u, data
<1>4. Chatting(strict, E, u) /\ u.flow = kind /\ Calm(s, u)
  BY <1>2, <1>3, EnterFlowIs
<1>5. b \in Nat /\ IsOpen(u.frames, b, kind)
  BY <1>2, <1>4, FlowIsOpen
<1> HIDE DEF b
<1>6. Chatting(strict, E, v) /\ OnlyFrames(u, v)
  BY <1>1, <1>2, <1>4, <1>5, ChatFillIs
<1>7. u \in Writer
  BY <1>4 DEF Chatting, Writes
<1>8. Calm(u, v)
  BY <1>6, <1>7, OnlyFramesMeans
<1> QED
  BY <1>4, <1>6, <1>8 DEF Calm

LEMMA AppendTextIs ==
  ASSUME NEW strict \in BOOLEAN, NEW E \in Seq(Frame), NEW s, Chatting(strict, E, s),
         NEW piece \in Nat, NEW blank \in BOOLEAN, NEW v, v = AppendText(s, piece, blank)
  PROVE  Chatting(strict, E, v) /\ Calm(s, v)
<1>1. CASE blank /\ s.flow # "text"
  <2>1. s \in Writer /\ s.held \in Seq(Nat)
    BY DEF Chatting, Writes, Writer
  <2>2. Append(s.held, piece) \in Seq(Nat)
    BY <2>1, AppendProperties
  <2>3. v = [s EXCEPT !.held = Append(s.held, piece)]
    BY <1>1 DEF AppendText
  <2>4. /\ v \in Writer /\ v.frames = s.frames /\ v.next = s.next /\ v.flow = s.flow /\ v.items = s.items
        /\ v.calls = s.calls /\ v.started = s.started /\ v.closed = s.closed
    BY <2>1, <2>2, <2>3 DEF Writer
  <2>5. Calm(s, v)
    BY <2>1, <2>3 DEF Writer, Calm
  <2> QED
    BY <2>4, <2>5, ChatKeeps
<1>2. CASE ~(blank /\ s.flow # "text")
  <2> DEFINE kind == "text"
             u == EnterFlow(s, kind)
             b == u.next - 1
             data == Append(u.held, piece)
             d == Delta(u, b, kind, data)
  <2>1. v = [d EXCEPT !.held = <<>>]
    BY <1>2 DEF AppendText
  <2>2. kind \in {"text", "thinking", "tool"} /\ kind \in {"text", "thinking"} /\ kind # "none"
    OBVIOUS
  <2>3. u = EnterFlow(s, kind)
    OBVIOUS
  <2> HIDE DEF kind, u
  <2>4. Chatting(strict, E, u) /\ u.flow = kind /\ Calm(s, u)
    BY <2>2, <2>3, EnterFlowIs
  <2>5. b \in Nat /\ IsOpen(u.frames, b, kind)
    BY <2>2, <2>4, FlowIsOpen
  <2>6. u \in Writer /\ u.held \in Seq(Nat)
    BY <2>4 DEF Chatting, Writes, Writer
  <2>7. data \in Seq(Nat)
    BY <2>6, AppendProperties
  <2>8. d = Delta(u, b, kind, data)
    OBVIOUS
  <2> HIDE DEF b, data, d
  <2>9. Chatting(strict, E, d) /\ OnlyFrames(u, d)
    BY <2>2, <2>4, <2>5, <2>7, <2>8, ChatFillIs
  <2>10. d \in Writer /\ Calm(u, d) /\ <<>> \in Seq(Nat)
    BY <2>6, <2>9, OnlyFramesMeans, EmptySeq DEF Chatting, Writes
  <2>11. /\ v \in Writer /\ v.frames = d.frames /\ v.next = d.next /\ v.flow = d.flow /\ v.items = d.items
         /\ v.calls = d.calls /\ v.started = d.started /\ v.closed = d.closed
    BY <2>1, <2>10 DEF Writer
  <2>12. Calm(d, v)
    BY <2>1, <2>10 DEF Writer, Calm
  <2>13. Chatting(strict, E, v)
    BY <2>9, <2>11, ChatKeeps
  <2> QED
    BY <2>4, <2>10, <2>12, <2>13 DEF Calm
<1> QED
  BY <1>1, <1>2

LEMMA ContentIs ==
  ASSUME NEW strict \in BOOLEAN, NEW E \in Seq(Frame), NEW s, Chatting(strict, E, s),
         NEW e \in Events, NEW v, v = Content(s, e)
  PROVE  Chatting(strict, E, v) /\ Calm(s, v)
<1> DEFINE blank == e.body = "blank"
<1>1. e.id \in Nat /\ blank \in BOOLEAN /\ s \in Writer
  BY DEF Events, Chatting, Writes
<1>2. CASE v = AppendText(s, e.id, blank)
  BY <1>1, <1>2, AppendTextIs
<1>3. ASSUME NEW p \in {"inside", "through"}, NEW w, w = [s EXCEPT !.split = p]
      PROVE  Chatting(strict, E, w) /\ Calm(s, w)
  <2>1. /\ w \in Writer /\ w.frames = s.frames /\ w.next = s.next /\ w.flow = s.flow /\ w.items = s.items
        /\ w.calls = s.calls /\ w.started = s.started /\ w.closed = s.closed
    BY <1>1, <1>3 DEF Writer
  <2>2. Calm(s, w)
    BY <1>1, <1>3 DEF Writer, Calm
  <2> QED
    BY <2>1, <2>2, ChatKeeps
<1>4. CASE v = [s EXCEPT !.split = "inside"] \/ v = [s EXCEPT !.split = "through"]
  BY <1>3, <1>4
<1>5. CASE v = AppendThinking(s, e.id)
  BY <1>1, <1>5, AppendThinkingIs
<1>6. CASE v = AppendText([s EXCEPT !.split = "through"], e.id, blank)
  <2> DEFINE w == [s EXCEPT !.split = "through"]
  <2>1. Chatting(strict, E, w) /\ Calm(s, w)
    BY <1>3
  <2>2. v = AppendText(w, e.id, blank)
    BY <1>6
  <2> HIDE DEF w, blank
  <2>3. Chatting(strict, E, v) /\ Calm(w, v)
    BY <1>1, <2>1, <2>2, AppendTextIs
  <2> QED
    BY <2>1, <2>3 DEF Calm
<1>7. CASE v = s
  BY <1>7 DEF Calm
<1> QED
  BY <1>2, <1>4, <1>5, <1>6, <1>7 DEF Content, Split

LEMMA KeepArgsIs ==
  ASSUME NEW s \in Writer, NEW slot \in Nat, NEW e \in Events, NEW v, v = KeepArgs(s, slot, e)
  PROVE  v \in Writer /\ v = [s EXCEPT !.args = v.args]
<1>1. e.id \in Nat /\ s.args \in Maps(Seq(Nat))
  BY DEF Events, Writer
<1> DEFINE old == IF slot \in DOMAIN s.args THEN Append(s.args[slot], e.id) ELSE <<e.id>>
           a == With(s.args, slot, old)
<1>2. CASE e.body = "bare"
  <2>1. v = s
    BY <1>2 DEF KeepArgs
  <2> QED
    BY <2>1 DEF Writer
<1>3. CASE e.body # "bare"
  <2>1. old \in Seq(Nat)
    <3>1. slot \in DOMAIN s.args => s.args[slot] \in Seq(Nat)
      BY <1>1, MapsHave
    <3>2. slot \in DOMAIN s.args => Append(s.args[slot], e.id) \in Seq(Nat)
      BY <1>1, <3>1, AppendProperties
    <3>3. <<e.id>> \in Seq(Nat)
      BY <1>1
    <3> QED
      BY <3>2, <3>3
  <2> HIDE DEF old
  <2>2. a \in Maps(Seq(Nat))
    BY <1>1, <2>1, WithIs
  <2>3. v = [s EXCEPT !.args = a]
    BY <1>3 DEF KeepArgs, old
  <2> HIDE DEF a
  <2> QED
    BY <2>2, <2>3 DEF Writer
<1> QED
  BY <1>2, <1>3

\* A block is opened for a call, and the flow closed.
LEMMA OpenCallIs ==
  ASSUME NEW strict \in BOOLEAN, NEW E \in Seq(Frame), NEW s, Chatting(strict, E, s),
         NEW slot \in Nat, slot \notin DOMAIN s.items, NEW named \in BOOLEAN, NEW v, v = OpenCall(s, slot, named)
  PROVE  Chatting(strict, E, v) /\ Calm(s, v)
<1>1. s \in Writer
  BY DEF Chatting, Writes
<1>2. CASE ~named
  <2>1. v = [s EXCEPT !.refused = s.refused \cup {slot}]
    BY <1>2 DEF OpenCall
  <2> DEFINE all == s.refused \cup {slot}
  <2>2. all \in SUBSET Nat /\ v = [s EXCEPT !.refused = all]
    <3>1. s.refused \in SUBSET Nat
      BY <1>1 DEF Writer
    <3> QED
      BY <2>1, <3>1
  <2> HIDE DEF all
  <2>3. /\ v \in Writer /\ v.frames = s.frames /\ v.next = s.next /\ v.flow = s.flow /\ v.items = s.items
        /\ v.calls = s.calls /\ v.started = s.started /\ v.closed = s.closed /\ Calm(s, v)
    BY <1>1, <2>2 DEF Writer, Calm
  <2> QED
    BY <2>3, ChatKeeps
<1>3. CASE named
  <2> DEFINE c == CloseFlow(s)
             kind == "tool"
             o == Open(c, kind)
             it == With(c.items, slot, c.next)
  <2>1. v = [o EXCEPT !.items = it, !.calls = o.calls + 1]
    <3>1. c.next \in Nat /\ c \in Writer
      <4> DEFINE d == c
      <4>1. d = CloseFlow(s)
        OBVIOUS
      <4> HIDE DEF d
      <4>2. Chatting(strict, E, d)
        BY <4>1, CloseFlowIs
      <4> QED
        BY <4>1, <4>2 DEF Chatting, Writes, Writer
    <3>2. o.items = c.items
      BY <3>1 DEF Open, Emit, Writer
    <3> QED
      BY <1>3, <3>2 DEF OpenCall
  <2>2. c = CloseFlow(s) /\ kind \in Kinds /\ kind \in {"tool", "nudge"} /\ o = Open(c, kind)
    BY DEF Kinds
  <2> HIDE DEF c, kind
  <2>3. Chatting(strict, E, c) /\ OnlyFlow(s, c)
    BY <2>2, CloseFlowIs
  <2>4. /\ c \in Writer /\ Writes(strict, E, c) /\ ChatBlocks(c) /\ Untold(c) /\ c.next \in Nat
        /\ Count(c.frames) = c.next /\ c.started /\ ~c.closed
    BY <2>3 DEF Chatting, Writes, Writer, ChatBlocks
  <2>5. c.flow = "none" /\ Calm(s, c) /\ c.items = s.items /\ c.items \in Maps(Nat) /\ c.calls \in Nat
    BY <1>1, <2>3, <2>4 DEF Writer, Calm, OnlyFlow
  <2> HIDE DEF o
  <2>6. Opening(strict, E, c, o, c.next, kind) /\ o.next = c.next + 1
    BY <2>2, <2>4, OpenIs
  <2>7. o \in Writer /\ OnlyFrames(c, o)
    BY <2>6 DEF Opening, Writes
  <2>8. /\ o.flow = "none" /\ o.items = c.items /\ o.calls = c.calls /\ o.started = c.started /\ o.closed = c.closed
        /\ Calm(c, o)
    BY <2>4, <2>5, <2>7, OnlyFramesMeans
  <2>9. /\ it \in Maps(Nat) /\ DOMAIN it = DOMAIN c.items \cup {slot} /\ it[slot] = c.next
        /\ \A j \in DOMAIN c.items \ {slot} : it[j] = c.items[j]
    <3>1. it \in Maps(Nat) /\ Gains(c.items, slot, c.next, it)
      BY <2>4, <2>5, WithIs
    <3> HIDE DEF it
    <3> QED
      BY <3>1 DEF Gains
  <2> HIDE DEF it
  <2>10. /\ v \in Writer /\ v.frames = o.frames /\ v.next = c.next + 1 /\ v.flow = "none" /\ v.items = it
         /\ v.calls = c.calls + 1 /\ v.started = c.started /\ v.closed = c.closed
    <3>1. o.calls + 1 \in Nat /\ o.calls + 1 = c.calls + 1
      BY <2>5, <2>8
    <3>2. /\ v \in Writer /\ v.frames = o.frames /\ v.next = o.next /\ v.flow = o.flow /\ v.items = it
          /\ v.calls = o.calls + 1 /\ v.started = o.started /\ v.closed = o.closed
      BY <2>1, <2>7, <2>9, <3>1 DEF Writer
    <3> QED
      BY <2>6, <2>8, <3>1, <3>2
  <2>11. Calm(s, v)
    <3>1. Calm(o, v)
      BY <2>1, <2>7 DEF Writer, Calm
    <3> QED
      BY <2>5, <2>8, <3>1 DEF Calm
  <2>12. \A j \in DOMAIN c.items : j # slot /\ it[j] = c.items[j] /\ c.items[j] # c.next
    <3>1. \A j \in DOMAIN c.items : IsOpen(c.frames, c.items[j], "tool")
      BY <2>4 DEF ChatBlocks
    <3>2. Live(strict, c.frames) /\ ~(c.next < Count(c.frames))
      BY <2>4 DEF Writes
    <3>3. \A j \in DOMAIN c.items : c.items[j] < Count(c.frames)
      BY <3>1, <3>2, InBook DEF IsOpen
    <3>4. \A j \in DOMAIN c.items : c.items[j] # c.next
      BY <3>2, <3>3
    <3> QED
      BY <2>5, <2>9, <3>4
  <2>13. \A b, k : IsOpen(v.frames, b, k) <=> k = "tool" /\ \E j \in DOMAIN v.items : v.items[j] = b
    <3>1. \A b, k : IsOpen(v.frames, b, k) <=> IsOpen(c.frames, b, k) \/ (b = c.next /\ k = kind)
      BY <2>6, <2>10 DEF Opening
    <3>2. \A b, k : IsOpen(c.frames, b, k) <=> k = "tool" /\ \E j \in DOMAIN c.items : c.items[j] = b
      BY <2>4, <2>5 DEF ChatBlocks
    <3>3. \A b : (\E j \in DOMAIN it : it[j] = b) <=> b = c.next \/ \E j \in DOMAIN c.items : c.items[j] = b
      BY <2>9, <2>12
    <3>4. kind = "tool"
      BY DEF kind
    <3>5. v.items = it
      BY <2>10
    <3> TAKE b, k
    <3>6. IsOpen(v.frames, b, k) <=> IsOpen(c.frames, b, k) \/ (b = c.next /\ k = "tool")
      BY <3>1, <3>4
    <3>7. IsOpen(c.frames, b, k) <=> k = "tool" /\ \E j \in DOMAIN c.items : c.items[j] = b
      BY <3>2
    <3>8. (\E j \in DOMAIN it : it[j] = b) <=> b = c.next \/ \E j \in DOMAIN c.items : c.items[j] = b
      BY <3>3
    <3> QED
      BY <3>5, <3>6, <3>7, <3>8, Zenon
  <2>14. \A i, j \in DOMAIN v.items : v.items[i] = v.items[j] => i = j
    <3>1. \A i, j \in DOMAIN c.items : c.items[i] = c.items[j] => i = j
      BY <2>4 DEF ChatBlocks
    <3> QED
      BY <2>9, <2>10, <2>12, <3>1
  <2>15. IsFiniteSet(DOMAIN v.items)
    <3>1. IsFiniteSet(DOMAIN c.items)
      BY <2>4 DEF ChatBlocks
    <3> QED
      BY <2>9, <2>10, <3>1, FS_AddElement
  <2>16. Told(v.frames) = {} /\ (Called(v.frames) <=> v.calls > 0)
    BY <2>2, <2>4, <2>5, <2>6, <2>10 DEF Opening, Untold
  <2>17. ChatBlocks(v)
    <3>1. Count(v.frames) = v.next
      BY <2>6, <2>10 DEF Opening
    <3> QED
      BY <2>10, <2>13, <2>14, <2>15, <3>1 DEF ChatBlocks
  <2>18. Writes(strict, E, v)
    BY <2>6, <2>10 DEF Opening, Writes
  <2> QED
    BY <2>4, <2>10, <2>11, <2>16, <2>17, <2>18 DEF Chatting, Untold
<1> QED
  BY <1>2, <1>3

LEMMA ToolCallIs ==
  ASSUME NEW strict \in BOOLEAN, NEW E \in Seq(Frame), NEW s, Chatting(strict, E, s),
         NEW e \in Events, NEW v, v = ToolCall(s, e)
  PROVE  Chatting(strict, E, v) /\ Calm(s, v)
<1> DEFINE u == IF e.slot \in DOMAIN s.items THEN s ELSE OpenCall(s, e.slot, e.named)
<1>1. e.slot \in Nat /\ e.named \in BOOLEAN
  BY DEF Events
<1>2. Chatting(strict, E, u) /\ Calm(s, u)
  <2>1. CASE e.slot \in DOMAIN s.items
    BY <2>1 DEF Calm
  <2>2. CASE e.slot \notin DOMAIN s.items
    <3>1. u = OpenCall(s, e.slot, e.named)
      BY <2>2
    <3> HIDE DEF u
    <3> QED
      BY <1>1, <2>2, <3>1, OpenCallIs
  <2> QED
    BY <2>1, <2>2
<1>3. v = s \/ v = u \/ v = KeepArgs(u, e.slot, e)
  BY DEF ToolCall
<1> HIDE DEF u
<1>4. CASE v = KeepArgs(u, e.slot, e)
  <2>1. u \in Writer
    BY <1>2 DEF Chatting, Writes
  <2>2. v \in Writer /\ v = [u EXCEPT !.args = v.args]
    BY <1>1, <1>4, <2>1, KeepArgsIs
  <2>3. /\ v.frames = u.frames /\ v.next = u.next /\ v.flow = u.flow /\ v.items = u.items
        /\ v.calls = u.calls /\ v.started = u.started /\ v.closed = u.closed /\ Calm(u, v)
    BY <2>1, <2>2 DEF Writer, Calm
  <2>4. Chatting(strict, E, v)
    BY <1>2, <2>2, <2>3, ChatKeeps
  <2> QED
    BY <1>2, <2>3, <2>4 DEF Calm
<1> QED
  BY <1>2, <1>3, <1>4 DEF Calm

\* The call's block is filled with what was kept for it, and stopped.
LEMMA StopCallIs ==
  ASSUME NEW strict \in BOOLEAN, NEW E \in Seq(Frame), NEW s, Chatting(strict, E, s),
         NEW slot \in DOMAIN s.items, NEW v, v = StopCall(s, slot)
  PROVE  /\ Chatting(strict, E, v) /\ Calm(s, v)
         /\ v.flow = s.flow /\ DOMAIN v.items = DOMAIN s.items \ {slot}
<1> DEFINE b == s.items[slot]
           kind == "tool"
           u == IF slot \in DOMAIN s.args THEN Delta(s, b, kind, s.args[slot]) ELSE s
           p == Stop(u, b, kind)
           it == Without(u.items, slot)
<1>1. s \in Writer /\ s.items \in Maps(Nat) /\ s.args \in Maps(Seq(Nat))
  BY DEF Chatting, Writes, Writer
<1>2. b \in Nat /\ (slot \in DOMAIN s.args => s.args[slot] \in Seq(Nat))
  BY <1>1, MapsHave
<1>3. kind \in {"text", "thinking", "tool"} /\ kind \in Kinds \ {"footer"} /\ IsOpen(s.frames, b, kind)
  BY DEF Kinds, Chatting, ChatBlocks
<1>4. Chatting(strict, E, u) /\ OnlyFrames(s, u)
  <2>1. CASE slot \in DOMAIN s.args
    <3> DEFINE data == s.args[slot]
    <3>1. u = Delta(s, b, kind, data) /\ data \in Seq(Nat)
      BY <1>2, <2>1
    <3> HIDE DEF u, b, kind, data
    <3> QED
      BY <1>2, <1>3, <3>1, ChatFillIs
  <2>2. CASE slot \notin DOMAIN s.args
    <3>1. u = s
      BY <2>2
    <3> HIDE DEF u
    <3> QED
      BY <1>1, <3>1 DEF OnlyFrames, Writer
  <2> QED
    BY <2>1, <2>2
<1>5. v = [p EXCEPT !.items = Without(p.items, slot)] /\ p = Stop(u, b, kind)
  BY DEF StopCall
<1> HIDE DEF u, kind
<1>6. /\ u \in Writer /\ Writes(strict, E, u) /\ ChatBlocks(u) /\ Untold(u) /\ u.started /\ ~u.closed
      /\ u.items = s.items /\ u.flow = s.flow /\ Calm(s, u)
  BY <1>1, <1>4, OnlyFramesMeans DEF Chatting, Writes
<1>7. IsOpen(u.frames, b, kind)
  BY <1>6 DEF ChatBlocks, kind
<1> HIDE DEF b, p
<1>8. Stopping(strict, E, u, p, b)
  BY <1>2, <1>3, <1>5, <1>6, <1>7, StopIs
<1>9. p \in Writer /\ OnlyFrames(u, p) /\ p.next = u.next
  BY <1>8 DEF Stopping, Writes
<1>10. /\ p.flow = u.flow /\ p.items = u.items /\ p.calls = u.calls /\ p.started = u.started
       /\ p.closed = u.closed /\ Calm(u, p)
  BY <1>6, <1>9, OnlyFramesMeans
<1>11. /\ it \in Maps(Nat) /\ DOMAIN it = DOMAIN u.items \ {slot}
       /\ \A j \in DOMAIN it : j \in DOMAIN u.items /\ j # slot /\ it[j] = u.items[j]
  <2>1. it \in Maps(Nat) /\ Loses(u.items, slot, it)
    <3>1. u.items \in Maps(Nat)
      BY <1>1, <1>6
    <3> QED
      BY <3>1, WithoutIs
  <2> HIDE DEF it
  <2> QED
    BY <2>1 DEF Loses
<1>12. v = [p EXCEPT !.items = it]
  BY <1>5, <1>10
<1> HIDE DEF it
<1>13. /\ v \in Writer /\ v.frames = p.frames /\ v.next = u.next /\ v.flow = u.flow /\ v.items = it
       /\ v.calls = u.calls /\ v.started = u.started /\ v.closed = u.closed /\ Calm(p, v)
  BY <1>9, <1>10, <1>11, <1>12 DEF Writer, Calm
<1>14. slot \in DOMAIN u.items /\ u.items[slot] = b
  BY <1>6 DEF b
<1>15. \A i, j \in DOMAIN u.items : u.items[i] = u.items[j] => i = j
  BY <1>6 DEF ChatBlocks
<1>16. \A i, j \in DOMAIN v.items : v.items[i] = v.items[j] => i = j
  BY <1>11, <1>13, <1>15
<1>17. IsFiniteSet(DOMAIN v.items)
  <2>1. IsFiniteSet(DOMAIN u.items) /\ DOMAIN v.items \in SUBSET DOMAIN u.items
    BY <1>6, <1>11, <1>13 DEF ChatBlocks
  <2> QED
    BY <2>1, FS_Subset
<1>18. u.flow # "none" => b # u.next - 1
  <2> SUFFICES ASSUME u.flow # "none", b = u.next - 1 PROVE FALSE
    OBVIOUS
  <2>1. IsOpen(u.frames, b, u.flow) /\ u.flow # "tool"
    BY <1>6 DEF ChatBlocks
  <2>2. Live(strict, u.frames)
    BY <1>6 DEF Writes
  <2>3. kind = u.flow
    BY <1>7, <2>1, <2>2, InBook DEF IsOpen
  <2> QED
    BY <2>1, <2>3 DEF kind
<1>19. \A c, k : IsOpen(v.frames, c, k) <=> \/ v.flow # "none" /\ k = v.flow /\ c = v.next - 1
                                            \/ k = "tool" /\ \E j \in DOMAIN v.items : v.items[j] = c
  <2>1. \A c, k : IsOpen(v.frames, c, k) <=> IsOpen(u.frames, c, k) /\ c # b
    BY <1>8, <1>13 DEF Stopping
  <2>2. \A c, k : IsOpen(u.frames, c, k) <=> \/ u.flow # "none" /\ k = u.flow /\ c = u.next - 1
                                             \/ k = "tool" /\ \E j \in DOMAIN u.items : u.items[j] = c
    BY <1>6 DEF ChatBlocks
  <2>3. \A c : (\E j \in DOMAIN it : it[j] = c) <=> c # b /\ \E j \in DOMAIN u.items : u.items[j] = c
    BY <1>11, <1>14, <1>15
  <2> QED
    BY <1>13, <1>18, <2>1, <2>2, <2>3
<1>20. Count(v.frames) = v.next /\ Told(v.frames) = {} /\ (Called(v.frames) <=> v.calls > 0)
  BY <1>6, <1>8, <1>13 DEF Stopping, ChatBlocks, Untold
<1>21. ChatBlocks(v)
  <2>1. v.flow \in {"none", "text", "thinking"}
    BY <1>6, <1>13 DEF ChatBlocks
  <2> QED
    BY <1>16, <1>17, <1>19, <1>20, <2>1 DEF ChatBlocks
<1>22. Writes(strict, E, v)
  BY <1>8, <1>13 DEF Stopping, Writes
<1> QED
  BY <1>6, <1>10, <1>11, <1>13, <1>20, <1>21, <1>22 DEF Chatting, Untold, Calm

-----------------------------------------------------------------------------
(* Loops over the blocks that are open.                                    *)

\* A set of naturals that holds zero and, of each, the next, holds them all.
LEMMA Induction ==
  ASSUME NEW T, 0 \in T, \A n \in Nat : n \in T => n + 1 \in T
  PROVE  Nat \subseteq T
<1> DEFINE Below == {p \in Nat \X Nat : p[1] < p[2]}
<1>1. IsWellFoundedOn(Below, Nat)
  BY NatLessThanWellFounded DEF OpToRel
<1> HIDE DEF Below
<1>2. SUFFICES ASSUME Nat \ T # {} PROVE FALSE
  OBVIOUS
<1>3. PICK n \in Nat \ T : \A m \in Nat \ T : ~(<<m, n>> \in Below)
  BY <1>1, <1>2, WFMin
<1>4. n # 0 /\ n - 1 \in Nat
  BY <1>3
<1>5. <<n - 1, n>> \in Below
  BY <1>4 DEF Below
<1>6. n - 1 \in T
  BY <1>3, <1>4, <1>5
<1> QED
  BY <1>3, <1>4, <1>6

\* A list of a finite set has each of its elements once.
Lists(S, q) ==
  /\ Len(q) \in Nat /\ DOMAIN q = 1..Len(q)
  /\ \A k \in 1..Len(q) : q[k] \in S
  /\ \A j, k \in 1..Len(q) : q[j] = q[k] => j = k
  /\ \A x \in S : \E k \in 1..Len(q) : q[k] = x

LEMMA SetToSeqLists ==
  ASSUME NEW S, IsFiniteSet(S)
  PROVE  Lists(S, SetToSeq(S))
<1> DEFINE n == Cardinality(S)
           q == SetToSeq(S)
<1>1. n \in Nat /\ ExistsBijection(1..n, S)
  BY FS_CardinalityType
<1>2. PICK f : f \in Bijection(1..n, S)
  BY <1>1 DEF ExistsBijection
<1>3. f \in [1..n -> S] /\ IsInjective(f)
  BY <1>2 DEF Bijection, Injection, IsInjective
<1>4. q \in [1..n -> S] /\ IsInjective(q)
  BY <1>3 DEF SetToSeq
<1> HIDE DEF q
<1>5. DOMAIN q = 1..n /\ Len(q) = n
  <2>1. q \in Seq(S)
    BY <1>1, <1>4
  <2> QED
    BY <1>1, <1>4, <2>1, LenProperties
<1>6. \A j, k \in 1..n : q[j] = q[k] => j = k
  BY <1>4 DEF IsInjective
<1>7. ASSUME NEW x \in S PROVE \E k \in 1..n : q[k] = x
  <2>1. q \in Surjection(1..n, S)
    <3>1. q \in Injection(1..n, S)
      BY <1>4, <1>6 DEF Injection, IsInjective
    <3>2. IsFiniteSet(1..n) /\ Cardinality(1..n) = Cardinality(S)
      BY <1>1, FS_Interval
    <3>3. q \in Surjection(1..n, S)
      BY <3>1, <3>2, FS_Injection
    <3> QED
      BY <3>3
  <2> QED
    BY <2>1 DEF Surjection
<1> QED
  BY <1>1, <1>4, <1>5, <1>6, <1>7 DEF Lists, q

\* The bodies of the loops, and what a loop is.
Turn(loop, s, x) == CASE loop = "stop"   -> StopCall(s, x)
                      [] loop = "finish" -> FinishItem(s, x)
                      [] loop = "close"  -> CloseItem(s, x)
                      [] loop = "foot"   -> Foot(s, x)

IsRun(loop, a, q, f) ==
  f = [k \in 0..Len(q) |-> IF k = 0 THEN a ELSE Turn(loop, f[k - 1], q[k])]

LEMMA RunExists ==
  ASSUME NEW loop, NEW a, NEW q, Len(q) \in Nat
  PROVE  \E f : IsRun(loop, a, q, f)
<1> DEFINE Body(f, k) == IF k = 0 THEN a ELSE Turn(loop, f[k - 1], q[k])
           Upto(m) == \E f : f = [k \in 0..m |-> Body(f, k)]
           T == {m \in Nat : Upto(m)}
<1>1. Upto(0)
  <2> DEFINE f == [k \in 0..0 |-> a]
  <2>1. f = [k \in 0..0 |-> Body(f, k)]
    OBVIOUS
  <2> QED
    BY <2>1
<1>2. ASSUME NEW m \in Nat, Upto(m) PROVE Upto(m + 1)
  <2>1. PICK f : f = [k \in 0..m |-> Body(f, k)]
    BY <1>2
  <2> DEFINE h == [k \in 0..(m + 1) |-> IF k = m + 1 THEN Body(f, k) ELSE f[k]]
  <2>2. \A k \in 0..(m + 1) : h[k] = Body(h, k)
    <3> SUFFICES ASSUME NEW k \in 0..(m + 1) PROVE h[k] = Body(h, k)
      OBVIOUS
    <3>1. h[k] = Body(f, k)
      <4>1. k # m + 1 => k \in 0..m /\ h[k] = f[k]
        OBVIOUS
      <4>2. k = m + 1 => h[k] = Body(f, k)
        OBVIOUS
      <4> HIDE DEF h
      <4> QED
        BY <2>1, <4>1, <4>2
    <3>2. k # 0 => h[k - 1] = f[k - 1]
      OBVIOUS
    <3> HIDE DEF h
    <3> QED
      BY <3>1, <3>2
  <2>3. h = [k \in 0..(m + 1) |-> Body(h, k)]
    BY <2>2
  <2> HIDE DEF h
  <2> QED
    BY <2>3
<1>3. Upto(Len(q))
  <2> HIDE DEF Upto
  <2>0. 0 \in T /\ \A m \in Nat : m \in T => m + 1 \in T
    BY <1>1, <1>2
  <2> HIDE DEF T
  <2>1. Nat \subseteq T
    BY <2>0, Induction
  <2> QED
    BY <2>1 DEF T
<1> QED
  BY <1>3 DEF IsRun

\* What one turn keeps, a run keeps.
LEMMA RunReaches ==
  ASSUME NEW T, NEW n \in Nat, 0 \in T, \A k \in 1..n : k - 1 \in T => k \in T
  PROVE  n \in T
<1> DEFINE U == {m \in Nat : m <= n => m \in T}
<1>1. 0 \in U
  OBVIOUS
<1>2. ASSUME NEW m \in Nat, m \in U PROVE m + 1 \in U
  <2> SUFFICES ASSUME m + 1 <= n PROVE m + 1 \in T
    OBVIOUS
  <2>1. m \in T /\ m + 1 \in 1..n /\ (m + 1) - 1 = m
    BY <1>2
  <2> QED
    BY <2>1
<1> HIDE DEF U
<1>3. Nat \subseteq U
  BY <1>1, <1>2, Induction
<1> QED
  BY <1>3 DEF U

\* StopCalls stops the block of each call.
LEMMA StopCallsIs ==
  ASSUME NEW strict \in BOOLEAN, NEW E \in Seq(Frame), NEW s, Chatting(strict, E, s), NEW u, u = StopCalls(s)
  PROVE  Chatting(strict, E, u) /\ Calm(s, u) /\ u.flow = s.flow /\ DOMAIN u.items = {}
<1> DEFINE D == DOMAIN s.items
           q == SetToSeq(D)
           n == Len(q)
           loop == "stop"
           Body(h, k) == IF k = 0 THEN s ELSE StopCall(h[k - 1], q[k])
           f == CHOOSE h : h = [k \in 0..n |-> Body(h, k)]
<1>1. Lists(D, q)
  BY SetToSeqLists DEF Chatting, ChatBlocks
<1>2. u = f[n]
  BY DEF StopCalls
<1> HIDE DEF q
<1>3. f = [k \in 0..n |-> Body(f, k)]
  <2>1. PICK h : IsRun(loop, s, q, h)
    BY <1>1, RunExists DEF Lists
  <2>2. h = [k \in 0..n |-> Body(h, k)]
    BY <2>1 DEF IsRun, Turn
  <2> QED
    BY <2>2
<1> HIDE DEF f
<1>4. f[0] = s /\ \A k \in 1..n : f[k] = StopCall(f[k - 1], q[k])
  <2>1. n \in Nat
    BY <1>1 DEF Lists
  <2>2. \A k \in 0..n : f[k] = Body(f, k)
    BY <1>3
  <2> QED
    BY <2>1, <2>2
<1> DEFINE Rest(k) == {x \in D : \A j \in 1..k : q[j] # x}
           Good(k) == /\ Chatting(strict, E, f[k]) /\ Calm(s, f[k]) /\ f[k].flow = s.flow
                      /\ DOMAIN f[k].items = Rest(k)
           T == {k \in 0..n : Good(k)}
<1>5. Good(0)
  BY <1>4 DEF Calm
<1>6. ASSUME NEW k \in 1..n, Good(k - 1) PROVE Good(k)
  <2>1. q[k] \in Rest(k - 1)
    BY <1>1 DEF Lists
  <2>2. Rest(k) = Rest(k - 1) \ {q[k]}
    BY <1>1 DEF Lists
  <2> HIDE DEF Rest
  <2>3. q[k] \in DOMAIN f[k - 1].items /\ f[k] = StopCall(f[k - 1], q[k]) /\ Chatting(strict, E, f[k - 1])
    BY <1>4, <1>6, <2>1
  <2>4. /\ Chatting(strict, E, f[k]) /\ Calm(f[k - 1], f[k]) /\ f[k].flow = f[k - 1].flow
        /\ DOMAIN f[k].items = DOMAIN f[k - 1].items \ {q[k]}
    BY <2>3, StopCallIs
  <2> QED
    BY <1>6, <2>2, <2>4 DEF Calm
<1>7. Good(n)
  <2> HIDE DEF Good
  <2>1. n \in Nat
    BY <1>1 DEF Lists
  <2>2. 0 \in T /\ \A k \in 1..n : k - 1 \in T => k \in T
    BY <1>5, <1>6, <2>1
  <2> HIDE DEF T
  <2>3. n \in T
    BY <2>1, <2>2, RunReaches
  <2> QED
    BY <2>3 DEF T
<1>8. Rest(n) = {}
  BY <1>1 DEF Lists
<1> QED
  BY <1>2, <1>7, <1>8

\* The client is told of calls to run exactly when it has some.
Tells(F) == "tool_use" \in Told(F) <=> Called(F)

\* A message that has ended as it should.
Concluded(strict, E, s) ==
  /\ Over(strict, E, s)
  /\ s.closed
  /\ LastOf(s.frames) \in {"end", "error"}
  /\ LastOf(s.frames) = "end" => Tells(s.frames)

\* No block is open.
Shut(s) == \A b, k : ~IsOpen(s.frames, b, k)

LEMMA NudgeIs ==
  ASSUME NEW strict \in BOOLEAN, NEW E \in Seq(Frame), NEW s, Writes(strict, E, s), Count(s.frames) = s.next,
         Shut(s), Untold(s), NEW u, u = Nudge(s)
  PROVE  Writes(strict, E, u) /\ Shut(u) /\ Untold(u) /\ Calm(s, u)
<1>1. CASE ~NeedsNudge(s)
  BY <1>1 DEF Nudge, Calm
<1>2. CASE NeedsNudge(s)
  <2> DEFINE kind == "nudge"
             data == <<>>
             p == Stop(Delta(Open(s, kind), s.next, kind, data), s.next, kind)
  <2>1. u = [p EXCEPT !.calls = p.calls + 1]
    BY <1>2 DEF Nudge
  <2>2. kind \in Kinds \ {"footer"} /\ kind \in {"tool", "nudge"} /\ data \in Seq(Nat)
    BY EmptySeq DEF Kinds
  <2>3. p = Stop(Delta(Open(s, kind), s.next, kind, data), s.next, kind)
    OBVIOUS
  <2> HIDE DEF p, kind, data
  <2>4. Adding(strict, E, s, p, kind)
    BY <2>2, <2>3, WholeBlockIs
  <2>5. s \in Writer /\ p \in Writer /\ OnlyFrames(s, p) /\ Writes(strict, E, p)
    BY <2>4 DEF Adding, Writes
  <2>6. p.calls \in Nat /\ p.calls + 1 > 0 /\ p.calls + 1 \in Nat /\ Calm(s, p)
    <3>1. p.calls \in Nat
      BY <2>5 DEF Writer
    <3> QED
      BY <2>5, <3>1, OnlyFramesMeans
  <2>7. u \in Writer /\ u.frames = p.frames /\ u.calls > 0 /\ Calm(p, u)
    BY <2>1, <2>5, <2>6 DEF Writer, Calm
  <2>8. Writes(strict, E, u)
    BY <2>5, <2>7 DEF Writes
  <2>9. Shut(u) /\ Untold(u)
    BY <2>2, <2>4, <2>7 DEF Adding, AsOpen, Shut, Untold
  <2> QED
    BY <2>6, <2>7, <2>8, <2>9 DEF Calm
<1> QED
  BY <1>1, <1>2

\* A message is ended with the reason for it.
LEMMA EndsTold ==
  ASSUME NEW strict \in BOOLEAN, NEW E \in Seq(Frame), NEW s, Writes(strict, E, s),
         Shut(s), Untold(s), NEW u, u = MessageStop(s, StopReason(s))
  PROVE  Concluded(strict, E, u) /\ Calm(s, u) /\ LastOf(u.frames) = "end"
<1> DEFINE k == StopReason(s)
<1>1. k \in Kinds /\ (k = "tool_use" <=> s.calls > 0)
  BY DEF StopReason, Kinds
<1>2. strict => \A b, l : ~IsOpen(s.frames, b, l)
  BY DEF Shut
<1>3. u = MessageStop(s, k)
  OBVIOUS
<1> HIDE DEF k
<1>4. /\ Over(strict, E, u) /\ u.closed /\ Calm(s, u) /\ LastOf(u.frames) = "end"
      /\ Told(u.frames) = Told(s.frames) \cup {k} /\ (Called(u.frames) <=> Called(s.frames))
  BY <1>1, <1>2, <1>3, MessageStopIs
<1>5. Tells(u.frames)
  BY <1>1, <1>4 DEF Untold, Tells
<1> QED
  BY <1>4, <1>5 DEF Concluded

LEMMA ErrorConcludes ==
  ASSUME NEW strict \in BOOLEAN, NEW E \in Seq(Frame), NEW s, Writes(strict, E, s), NEW u, u = ErrorFrame(s)
  PROVE  Concluded(strict, E, u) /\ Calm(s, u) /\ LastOf(u.frames) = "error"
<1>1. Over(strict, E, u) /\ u.closed /\ Calm(s, u) /\ LastOf(u.frames) = "error"
  BY ErrorFrameIs
<1> QED
  BY <1>1 DEF Concluded

LEMMA FinishStreamIs ==
  ASSUME NEW strict \in BOOLEAN, NEW E \in Seq(Frame), NEW s, Chatting(strict, E, s), NEW v, v = FinishStream(s)
  PROVE  /\ Concluded(strict, E, v) /\ Calm(s, v)
         /\ LastOf(v.frames) = IF s.failed THEN "error" ELSE "end"
<1> DEFINE c == CloseFlow(s)
           u == StopCalls(c)
           n == Nudge(u)
<1>1. s.started /\ s \in Writer
  BY DEF Chatting, Writes
<1>2. v = IF u.failed THEN ErrorFrame(u) ELSE MessageStop(n, StopReason(n))
  <2>1. v = IF s.failed THEN ErrorFrame(u) ELSE MessageStop(n, StopReason(n))
    BY <1>1 DEF FinishStream
  <2>2. u.failed = s.failed
    <3>1. c = CloseFlow(s) /\ u = StopCalls(c)
      OBVIOUS
    <3> HIDE DEF c, u
    <3>2. Chatting(strict, E, c) /\ OnlyFlow(s, c)
      BY <3>1, CloseFlowIs
    <3>3. Calm(c, u)
      BY <3>1, <3>2, StopCallsIs
    <3> QED
      BY <1>1, <3>2, <3>3 DEF OnlyFlow, Calm, Writer
  <2> QED
    BY <2>1, <2>2
<1>3. c = CloseFlow(s) /\ u = StopCalls(c) /\ n = Nudge(u)
  OBVIOUS
<1> HIDE DEF c, u, n
<1>4. Chatting(strict, E, c) /\ OnlyFlow(s, c)
  BY <1>3, CloseFlowIs
<1>5. c.flow = "none" /\ Calm(s, c)
  BY <1>1, <1>4 DEF Writer, OnlyFlow, Calm
<1>6. Chatting(strict, E, u) /\ Calm(c, u) /\ u.flow = "none" /\ DOMAIN u.items = {}
  BY <1>3, <1>4, <1>5, StopCallsIs
<1>7. Writes(strict, E, u) /\ Count(u.frames) = u.next /\ Shut(u) /\ Untold(u) /\ Calm(s, u)
  BY <1>5, <1>6 DEF Chatting, ChatBlocks, Shut, Calm
<1>8. Writes(strict, E, n) /\ Shut(n) /\ Untold(n) /\ Calm(u, n)
  BY <1>3, <1>7, NudgeIs
<1>9. CASE u.failed
  <2>1. v = ErrorFrame(u)
    BY <1>2, <1>9
  <2>2. Concluded(strict, E, v) /\ Calm(u, v) /\ LastOf(v.frames) = "error"
    BY <1>7, <2>1, ErrorConcludes
  <2> QED
    BY <1>7, <1>9, <2>2 DEF Calm
<1>10. CASE ~u.failed
  <2>1. v = MessageStop(n, StopReason(n))
    BY <1>2, <1>10
  <2>2. Concluded(strict, E, v) /\ Calm(n, v) /\ LastOf(v.frames) = "end"
    BY <1>8, <2>1, EndsTold
  <2> QED
    BY <1>7, <1>8, <1>10, <2>2 DEF Calm
<1> QED
  BY <1>9, <1>10

\* The lifecycle is not in the books.
LEMMA ChatLife ==
  ASSUME NEW strict, NEW E, NEW s, Chatting(strict, E, s), NEW u \in Writer, OnlyLife(s, u)
  PROVE  Chatting(strict, E, u)
<1>1. s \in Writer
  BY DEF Chatting, Writes
<1> QED
  BY <1>1, OnlyLifeMeans, ChatKeeps

\* An output that the lifecycle refuses writes nothing.
LEMMA ChatOutputIs ==
  ASSUME NEW strict, NEW E, NEW s, Chatting(strict, E, s), NEW u, u = Output(s, s.next)
  PROVE  Chatting(strict, E, u) /\ u.life = s.life /\ u.failed = s.failed
<1>1. s \in Writer /\ s.next \in Nat
  BY DEF Chatting, Writes, Writer
<1>2. u \in Writer /\ OnlyLife(s, u) /\ u.life = s.life
  BY <1>1, OutputIs
<1> QED
  BY <1>1, <1>2, ChatLife, OnlyLifeMeans

\* What an event of the upstream makes of the lifecycle.
Proceeds(s, e, u) ==
  /\ u.life = "failed" => s.life = "failed"
  /\ u.life = "terminal" => s.life = "terminal" \/ e.kind \in {"finish", "done"}
  /\ u.failed <=> s.failed \/ e.kind = "status"

LEMMA ChatChunkIs ==
  ASSUME NEW strict \in BOOLEAN, NEW E \in Seq(Frame), NEW s, Chatting(strict, E, s),
         NEW e \in Events, e.kind \in {"thought", "text", "call", "finish"}, NEW u, u = ChatChunk(s, e)
  PROVE  Chatting(strict, E, u) /\ Proceeds(s, e, u)
<1>1. s \in Writer /\ s.started /\ e.id \in Nat
  BY DEF Chatting, Writes, Events
<1> DEFINE o == Output(s, s.next)
<1>2. Chatting(strict, E, o) /\ o.life = s.life /\ o.failed = s.failed
  BY ChatOutputIs
<1>3. CASE e.kind = "finish"
  <2> DEFINE b == [s EXCEPT !.finish = e.body]
  <2>1. u = Terminal(b)
    BY <1>1, <1>3 DEF ChatChunk
  <2>2. b \in Writer
    <3>1. e.body \in {"none", "stop", "tool_calls", "length"}
      BY <1>3 DEF Events
    <3> QED
      BY <1>1, <3>1 DEF Writer
  <2>3. /\ b.frames = s.frames /\ b.next = s.next /\ b.flow = s.flow /\ b.items = s.items /\ b.calls = s.calls
        /\ b.started = s.started /\ b.closed = s.closed /\ b.life = s.life /\ b.failed = s.failed
    BY <1>1 DEF Writer
  <2> HIDE DEF b
  <2>4. Chatting(strict, E, b)
    BY <2>2, <2>3, ChatKeeps
  <2>5. u \in Writer /\ OnlyLife(b, u) /\ (u.life = b.life \/ u.life = "terminal")
    BY <2>1, <2>2, TerminalIs
  <2>6. Chatting(strict, E, u) /\ u.failed = b.failed
    BY <2>2, <2>4, <2>5, ChatLife, OnlyLifeMeans
  <2> QED
    BY <1>3, <2>3, <2>5, <2>6 DEF Proceeds
<1>4. CASE e.kind # "finish"
  <2>1. \/ u = o
        \/ u = AppendThinking(o, e.id)
        \/ u = Content(o, e)
        \/ u = ToolCall(o, e)
    BY <1>1, <1>4 DEF ChatChunk, Put, Then
  <2> HIDE DEF o
  <2>2. Chatting(strict, E, u) /\ Calm(o, u)
    <3>1. CASE u = o
      BY <1>2, <3>1 DEF Calm
    <3>2. CASE u = AppendThinking(o, e.id)
      BY <1>1, <1>2, <3>2, AppendThinkingIs
    <3>3. CASE u = Content(o, e)
      BY <1>2, <3>3, ContentIs
    <3>4. CASE u = ToolCall(o, e)
      BY <1>2, <3>4, ToolCallIs
    <3> QED
      BY <2>1, <3>1, <3>2, <3>3, <3>4
  <2> QED
    BY <1>2, <1>4, <2>2 DEF Calm, Proceeds
<1> QED
  BY <1>3, <1>4

LEMMA ChatDoneIs ==
  ASSUME NEW strict \in BOOLEAN, NEW E \in Seq(Frame), NEW s, Chatting(strict, E, s), ~s.failed,
         NEW u, u = ChatDone(s)
  PROVE  /\ Chatting(strict, E, u) \/ (Concluded(strict, E, u) /\ u.err = "none")
         /\ u.life = "failed" => s.life = "failed"
         /\ ~u.failed
<1> DEFINE b == IF s.life = "idle" THEN Start(s) ELSE s
           d == IF b.life = "terminal" THEN b ELSE Terminal(b)
<1>1. s \in Writer
  BY DEF Chatting, Writes
<1>2. b \in Writer /\ OnlyLife(s, b) /\ (b.life = "failed" => s.life = "failed")
  <2>1. OnlyLife(s, s)
    BY <1>1 DEF OnlyLife, Writer
  <2> QED
    BY <1>1, <2>1, StartIs
<1>3. u = IF d.err = "none" THEN FinishStream(d) ELSE d
  BY DEF ChatDone, Then
<1>4. Chatting(strict, E, b) /\ ~b.failed
  BY <1>1, <1>2, ChatLife, OnlyLifeMeans
<1> HIDE DEF b
<1>5. d \in Writer /\ OnlyLife(b, d) /\ (d.life = "failed" => b.life = "failed")
  <2>1. OnlyLife(b, b)
    BY <1>2 DEF OnlyLife, Writer
  <2> QED
    BY <1>2, <2>1, TerminalIs
<1>6. Chatting(strict, E, d) /\ ~d.failed
  BY <1>2, <1>4, <1>5, ChatLife, OnlyLifeMeans
<1> HIDE DEF d
<1>7. CASE u = FinishStream(d) /\ d.err = "none"
  <2>1. Concluded(strict, E, u) /\ Calm(d, u)
    BY <1>6, <1>7, FinishStreamIs
  <2>2. u.err = "none" /\ u.life = d.life /\ u.failed = d.failed
    BY <1>7, <2>1 DEF Calm
  <2> QED
    BY <1>2, <1>5, <1>6, <2>1, <2>2
<1>8. CASE u = d
  BY <1>2, <1>5, <1>6, <1>8
<1> QED
  <2>1. (u = FinishStream(d) /\ d.err = "none") \/ u = d
    BY <1>3
  <2> QED
    BY <1>7, <1>8, <2>1

ChatKinds == {"thought", "text", "call", "finish", "done", "status"}

\* An event of a chat upstream; only the last ends the message.
LEMMA ChatEventIs ==
  ASSUME NEW strict \in BOOLEAN, NEW E \in Seq(Frame), NEW s, Chatting(strict, E, s),
         NEW e \in Events, e.kind \in ChatKinds, NEW u, u = ChatEvent(s, e)
  PROVE  /\ Chatting(strict, E, u) \/ (Concluded(strict, E, u) /\ u.err = "none" /\ e.kind = "done")
         /\ e.kind # "status" => Proceeds(s, e, u)
         /\ e.kind = "status" => u.failed /\ u.life = s.life
<1>1. s \in Writer
  BY DEF Chatting, Writes
<1>2. CASE s.failed
  BY <1>2 DEF ChatEvent, Proceeds
<1>3. CASE ~s.failed /\ e.kind = "done"
  <2>1. u = ChatDone(s)
    BY <1>3 DEF ChatEvent
  <2> QED
    BY <1>3, <2>1, ChatDoneIs DEF Proceeds
<1>4. CASE ~s.failed /\ e.kind = "status"
  <2>1. u = [s EXCEPT !.failed = TRUE]
    BY <1>4 DEF ChatEvent
  <2>2. /\ u \in Writer /\ u.frames = s.frames /\ u.next = s.next /\ u.flow = s.flow /\ u.items = s.items
        /\ u.calls = s.calls /\ u.started = s.started /\ u.closed = s.closed /\ u.life = s.life /\ u.failed
    BY <1>1, <2>1 DEF Writer
  <2>3. Chatting(strict, E, u)
    BY <2>2, ChatKeeps
  <2> QED
    BY <1>4, <2>2, <2>3
<1>5. CASE ~s.failed /\ e.kind \in {"thought", "text", "call", "finish"}
  <2>1. u = ChatChunk(s, e)
    BY <1>5 DEF ChatEvent
  <2> QED
    BY <1>5, <2>1, ChatChunkIs
<1> QED
  BY <1>2, <1>3, <1>4, <1>5 DEF ChatKinds

\* The end of the call.
LEMMA ChatFinalizeIs ==
  ASSUME NEW strict \in BOOLEAN, NEW E \in Seq(Frame), NEW s, Chatting(strict, E, s), NEW u, u = ChatFinalize(s)
  PROVE  \/ Chatting(strict, E, u)
         \/ /\ Concluded(strict, E, u)
            /\ LastOf(u.frames) = "end" => ~s.failed /\ s.life \in {"terminal", "failed"}
<1>1. s \in Writer /\ ~s.closed
  BY DEF Chatting, Writes
<1> DEFINE b == Fail(s)
<1>2. b \in Writer /\ OnlyLife(s, b)
  BY <1>1, FailIs
<1>3. Chatting(strict, E, b) /\ b.failed = s.failed
  BY <1>1, <1>2, ChatLife, OnlyLifeMeans
<1>4. Writes(strict, E, b)
  BY <1>3 DEF Chatting
<1> HIDE DEF b
<1>5. CASE s.failed
  <2>1. u = FinishStream(b)
    BY <1>1, <1>5 DEF ChatFinalize, b
  <2>2. Concluded(strict, E, u) /\ LastOf(u.frames) = "error"
    BY <1>3, <1>5, <2>1, FinishStreamIs
  <2> QED
    BY <2>2
<1>6. CASE ~s.failed /\ EOF(s) = "none"
  <2>1. u = FinishStream(s)
    BY <1>1, <1>6 DEF ChatFinalize
  <2>2. Concluded(strict, E, u)
    BY <2>1, FinishStreamIs
  <2>3. s.life \in {"terminal", "failed"}
    BY <1>1, <1>6 DEF EOF, Writer, Lives
  <2> QED
    BY <1>6, <2>2, <2>3
<1>7. CASE ~s.failed /\ EOF(s) # "none"
  <2> DEFINE w == IF s.life = "started" THEN ErrorFrame(b) ELSE s
  <2>1. u = [w EXCEPT !.err = EOF(s)]
    BY <1>1, <1>7 DEF ChatFinalize, b
  <2>2. EOF(s) \in Errors
    BY DEF EOF, Errors
  <2>3. CASE s.life = "started"
    <3>1. w = ErrorFrame(b)
      BY <2>3
    <3> HIDE DEF w
    <3>2. Concluded(strict, E, w) /\ LastOf(w.frames) = "error"
      BY <1>4, <3>1, ErrorConcludes
    <3>3. w \in Writer
      BY <3>2 DEF Concluded, Over
    <3>4. u \in Writer /\ u.frames = w.frames /\ u.closed = w.closed
      BY <2>1, <2>2, <3>3 DEF Writer
    <3>5. Concluded(strict, E, u) /\ LastOf(u.frames) = "error"
      BY <3>2, <3>4 DEF Concluded, Over
    <3> QED
      BY <3>5
  <2>4. CASE s.life # "started"
    <3>1. w = s
      BY <2>4
    <3> HIDE DEF w
    <3>2. /\ u \in Writer /\ u.frames = s.frames /\ u.next = s.next /\ u.flow = s.flow /\ u.items = s.items
          /\ u.calls = s.calls /\ u.started = s.started /\ u.closed = s.closed
      BY <1>1, <2>1, <2>2, <3>1 DEF Writer
    <3> QED
      BY <3>2, ChatKeeps
  <2> QED
    BY <2>3, <2>4
<1> QED
  BY <1>5, <1>6, <1>7

-----------------------------------------------------------------------------
(* The Responses upstream.  Each open block is an item's.                  *)

ItemBlocks(s) ==
  /\ Count(s.frames) = s.next
  /\ DOMAIN s.items \subseteq DOMAIN s.kinds
  /\ \A b, k : IsOpen(s.frames, b, k) <=> \E j \in DOMAIN s.items : s.items[j] = b /\ s.kinds[j] = k
  /\ \A i, j \in DOMAIN s.items : s.items[i] = s.items[j] => i = j
  /\ IsFiniteSet(DOMAIN s.items)

Responding(strict, E, s) == Writes(strict, E, s) /\ ~s.closed /\ ItemBlocks(s) /\ Untold(s)

LEMMA ItemsKeep ==
  ASSUME NEW strict, NEW E, NEW s, Responding(strict, E, s), NEW u \in Writer,
         u.frames = s.frames, u.next = s.next, u.items = s.items, u.kinds = s.kinds, u.calls = s.calls,
         u.closed = s.closed
  PROVE  Responding(strict, E, u)
BY DEF Responding, Writes, ItemBlocks, Untold

LEMMA ItemsLife ==
  ASSUME NEW strict, NEW E, NEW s, Responding(strict, E, s), NEW u \in Writer, OnlyLife(s, u)
  PROVE  Responding(strict, E, u)
<1>1. s \in Writer
  BY DEF Responding, Writes
<1> QED
  BY <1>1, OnlyLifeMeans, ItemsKeep

\* The books after an item is opened.
LEMMA ItemsGain ==
  ASSUME NEW strict \in BOOLEAN, NEW E \in Seq(Frame), NEW s, Writes(strict, E, s), ItemBlocks(s),
         NEW slot \in Nat, slot \notin DOMAIN s.items, NEW kind \in Flows, NEW v \in Writer,
         v.items = With(s.items, slot, s.next), v.kinds = With(s.kinds, slot, kind), v.next = s.next + 1,
         Count(v.frames) = s.next + 1,
         \A b, k : IsOpen(v.frames, b, k) <=> IsOpen(s.frames, b, k) \/ (b = s.next /\ k = kind)
  PROVE  ItemBlocks(v)
<1>1. s.items \in Maps(Nat) /\ s.kinds \in Maps(Flows) /\ s.next \in Nat
  BY DEF Writes, Writer
<1>2. Gains(s.items, slot, s.next, v.items) /\ Gains(s.kinds, slot, kind, v.kinds)
  BY <1>1, WithIs
<1>3. /\ DOMAIN v.items = DOMAIN s.items \cup {slot} /\ v.items[slot] = s.next
      /\ \A j \in DOMAIN s.items : j # slot /\ v.items[j] = s.items[j]
  BY <1>2 DEF Gains
<1>4. /\ DOMAIN v.kinds = DOMAIN s.kinds \cup {slot} /\ v.kinds[slot] = kind
      /\ \A j \in DOMAIN s.items : v.kinds[j] = s.kinds[j]
  BY <1>2 DEF Gains, ItemBlocks
<1>5. \A j \in DOMAIN s.items : s.items[j] # s.next
  <2>1. \A j \in DOMAIN s.items : IsOpen(s.frames, s.items[j], s.kinds[j])
    BY DEF ItemBlocks
  <2>2. Live(strict, s.frames) /\ Count(s.frames) = s.next
    BY DEF Writes, ItemBlocks
  <2>3. ASSUME NEW j \in DOMAIN s.items PROVE s.items[j] \in Nat /\ s.items[j] < Count(s.frames)
    <3> DEFINE b == s.items[j]
               k == s.kinds[j]
    <3>1. <<b, k>> \in Book(s.frames)
      BY <2>1 DEF IsOpen
    <3> HIDE DEF b, k
    <3>2. b \in Nat /\ b < Count(s.frames)
      BY <2>2, <3>1, InBook
    <3> QED
      BY <3>2 DEF b
  <2> QED
    BY <1>1, <2>2, <2>3
<1>6. \A b, k : IsOpen(v.frames, b, k) <=> \E j \in DOMAIN v.items : v.items[j] = b /\ v.kinds[j] = k
  <2> TAKE b, k
  <2>1. IsOpen(s.frames, b, k) <=> \E j \in DOMAIN s.items : s.items[j] = b /\ s.kinds[j] = k
    BY DEF ItemBlocks
  <2>2. (\E j \in DOMAIN v.items : v.items[j] = b /\ v.kinds[j] = k)
          <=> (\E j \in DOMAIN s.items : s.items[j] = b /\ s.kinds[j] = k) \/ (b = s.next /\ k = kind)
    BY <1>3, <1>4
  <2>3. IsOpen(v.frames, b, k) <=> IsOpen(s.frames, b, k) \/ (b = s.next /\ k = kind)
    OBVIOUS
  <2> QED
    BY <2>1, <2>2, <2>3
<1>7. \A i, j \in DOMAIN v.items : v.items[i] = v.items[j] => i = j
  <2>1. \A i, j \in DOMAIN s.items : s.items[i] = s.items[j] => i = j
    BY DEF ItemBlocks
  <2> QED
    BY <1>3, <1>5, <2>1
<1>8. IsFiniteSet(DOMAIN v.items)
  <2>1. IsFiniteSet(DOMAIN s.items)
    BY DEF ItemBlocks
  <2> QED
    BY <1>3, <2>1, FS_AddElement
<1>9. DOMAIN v.items \subseteq DOMAIN v.kinds
  BY <1>3, <1>4 DEF ItemBlocks
<1> QED
  BY <1>6, <1>7, <1>8, <1>9 DEF ItemBlocks

\* The books after an item is stopped.
Stricken(s, slot, v) ==
  /\ v.items = Without(s.items, slot) /\ v.kinds = s.kinds /\ v.next = s.next
  /\ Count(v.frames) = Count(s.frames)
  /\ \A b, k : IsOpen(v.frames, b, k) <=> IsOpen(s.frames, b, k) /\ b # s.items[slot]

LEMMA ItemsLose ==
  ASSUME NEW strict \in BOOLEAN, NEW E \in Seq(Frame), NEW s, Writes(strict, E, s), ItemBlocks(s),
         NEW slot \in DOMAIN s.items, NEW v \in Writer, Stricken(s, slot, v)
  PROVE  ItemBlocks(v) /\ DOMAIN v.items = DOMAIN s.items \ {slot}
<1>1. s.items \in Maps(Nat)
  BY DEF Writes, Writer
<1>2. Loses(s.items, slot, v.items)
  BY <1>1, WithoutIs DEF Stricken
<1>3. /\ DOMAIN v.items = DOMAIN s.items \ {slot}
      /\ \A j \in DOMAIN v.items : j \in DOMAIN s.items /\ j # slot /\ v.items[j] = s.items[j]
  BY <1>2 DEF Loses
<1>4. \A i, j \in DOMAIN s.items : s.items[i] = s.items[j] => i = j
  BY DEF ItemBlocks
<1>5. \A b, k : IsOpen(v.frames, b, k) <=> \E j \in DOMAIN v.items : v.items[j] = b /\ v.kinds[j] = k
  <2> TAKE b, k
  <2>1. IsOpen(s.frames, b, k) <=> \E j \in DOMAIN s.items : s.items[j] = b /\ s.kinds[j] = k
    BY DEF ItemBlocks
  <2>2. (\E j \in DOMAIN v.items : v.items[j] = b /\ v.kinds[j] = k)
          <=> b # s.items[slot] /\ \E j \in DOMAIN s.items : s.items[j] = b /\ s.kinds[j] = k
    BY <1>3, <1>4 DEF Stricken
  <2>3. IsOpen(v.frames, b, k) <=> IsOpen(s.frames, b, k) /\ b # s.items[slot]
    BY DEF Stricken
  <2> QED
    BY <2>1, <2>2, <2>3
<1>6. IsFiniteSet(DOMAIN v.items)
  <2>1. IsFiniteSet(DOMAIN s.items) /\ DOMAIN v.items \in SUBSET DOMAIN s.items
    BY <1>3 DEF ItemBlocks
  <2> QED
    BY <2>1, FS_Subset
<1>7. /\ Count(v.frames) = v.next /\ DOMAIN v.items \subseteq DOMAIN v.kinds
      /\ \A i, j \in DOMAIN v.items : v.items[i] = v.items[j] => i = j
  BY <1>3, <1>4 DEF ItemBlocks, Stricken
<1> QED
  BY <1>3, <1>5, <1>6, <1>7 DEF ItemBlocks

\* What an event may do to the items: open one, of the event's slot and kind.
Itemizes(s, e, v) ==
  \A j \in DOMAIN v.items : \/ j \in DOMAIN s.items /\ v.kinds[j] = s.kinds[j]
                            \/ j = e.slot /\ v.kinds[j] = e.body

\* After an event the translator goes on, or was refused.
Responded(strict, E, s, e, v) ==
  /\ v \in Writer
  /\ Writes(strict, E, v) /\ ~v.closed
  /\ v.err \in {"none", "order"}
  /\ v.err = "none" => ItemBlocks(v) /\ Untold(v) /\ Itemizes(s, e, v)
  /\ v.life = s.life

LEMMA ItemAddedIs ==
  ASSUME NEW strict \in BOOLEAN, NEW E \in Seq(Frame), NEW s, Responding(strict, E, s), s.err = "none",
         NEW e \in Events, e.slot \notin DOMAIN s.items, NEW v, v = ItemAdded(s, e)
  PROVE  Responded(strict, E, s, e, v)
<1>1. s \in Writer /\ Writes(strict, E, s) /\ ItemBlocks(s) /\ Untold(s) /\ ~s.closed /\ e.slot \in Nat
  BY DEF Responding, Writes, Events
<1>2. CASE e.body = "nameless"
  <2> DEFINE all == s.refused \cup {e.slot}
  <2>1. v = [s EXCEPT !.refused = all]
    BY <1>2 DEF ItemAdded
  <2>2. all \in SUBSET Nat
    BY <1>1 DEF Writer
  <2> HIDE DEF all
  <2>3. /\ v \in Writer /\ v.frames = s.frames /\ v.next = s.next /\ v.items = s.items /\ v.kinds = s.kinds
        /\ v.calls = s.calls /\ v.closed = s.closed /\ v.life = s.life /\ v.err = s.err
    BY <1>1, <2>1, <2>2 DEF Writer
  <2>4. Responding(strict, E, v)
    BY <2>3, ItemsKeep
  <2> QED
    BY <2>3, <2>4 DEF Responded, Responding, Itemizes
<1>3. CASE e.body = "tool"
  <2> DEFINE kind == "tool"
             it == With(s.items, e.slot, s.next)
             ks == With(s.kinds, e.slot, kind)
             u == [s EXCEPT !.items = it, !.kinds = ks, !.calls = s.calls + 1]
             o == Output(u, u.next)
  <2>1. v = IF o.err = "none" THEN Open(o, kind) ELSE o
    <3>1. u = [s EXCEPT !.items = With(@, e.slot, s.next), !.kinds = With(@, e.slot, "tool"), !.calls = @ + 1]
      BY <1>1 DEF Writer
    <3> HIDE DEF u
    <3> QED
      BY <1>3, <3>1 DEF ItemAdded, Then
  <2>2. kind = e.body /\ kind \in Kinds /\ kind \in Flows /\ kind \in {"tool", "nudge"}
    BY <1>3 DEF Kinds, Flows
  <2> HIDE DEF kind
  <2>3. /\ s.items \in Maps(Nat) /\ s.kinds \in Maps(Flows) /\ s.next \in Nat /\ s.calls \in Nat
        /\ s.calls + 1 \in Nat /\ s.calls + 1 > 0
    <3>1. s.items \in Maps(Nat) /\ s.kinds \in Maps(Flows) /\ s.next \in Nat /\ s.calls \in Nat
      BY <1>1 DEF Writer
    <3> QED
      BY <3>1
  <2>4. it \in Maps(Nat) /\ ks \in Maps(Flows) /\ Gains(s.items, e.slot, s.next, it) /\ Gains(s.kinds, e.slot, kind, ks)
    BY <1>1, <2>2, <2>3, WithIs
  <2>5. it = With(s.items, e.slot, s.next) /\ ks = With(s.kinds, e.slot, kind)
    OBVIOUS
  <2> HIDE DEF it, ks
  <2>6. /\ u \in Writer /\ u.frames = s.frames /\ u.next = s.next /\ u.items = it /\ u.kinds = ks
        /\ u.calls = s.calls + 1 /\ u.closed = s.closed /\ u.life = s.life /\ u.err = s.err
    BY <1>1, <2>3, <2>4 DEF Writer
  <2> HIDE DEF u
  <2>7. o \in Writer /\ OnlyLife(u, o) /\ o.life = u.life /\ o.err \in {"none", "order"}
    BY <2>3, <2>6, OutputIs
  <2> HIDE DEF o
  <2>8. /\ o.frames = s.frames /\ o.next = s.next /\ o.items = it /\ o.kinds = ks /\ o.calls = s.calls + 1
        /\ o.closed = s.closed /\ o.life = s.life
    BY <2>6, <2>7, OnlyLifeMeans
  <2>9. Writes(strict, E, o) /\ Count(o.frames) = o.next
    BY <1>1, <2>7, <2>8 DEF Writes, ItemBlocks
  <2>10. CASE o.err # "none"
    BY <1>1, <2>1, <2>7, <2>8, <2>9, <2>10 DEF Responded
  <2>11. CASE o.err = "none"
    <3>1. v = Open(o, kind)
      BY <2>1, <2>11
    <3>2. Opening(strict, E, o, v, o.next, kind) /\ v.next = o.next + 1
      BY <2>2, <2>9, <3>1, OpenIs
    <3>3. Writes(strict, E, v) /\ OnlyFrames(o, v) /\ v \in Writer
      BY <3>2 DEF Opening, Writes
    <3>4. /\ v.items = it /\ v.kinds = ks /\ v.calls = s.calls + 1 /\ ~v.closed /\ v.life = s.life /\ v.err = "none"
      BY <1>1, <2>7, <2>8, <2>11, <3>3, OnlyFramesMeans DEF Calm
    <3>5. /\ \A b, k : IsOpen(v.frames, b, k) <=> IsOpen(s.frames, b, k) \/ (b = s.next /\ k = kind)
          /\ Count(v.frames) = s.next + 1 /\ v.next = s.next + 1
          /\ Told(v.frames) = {} /\ Called(v.frames)
      BY <1>1, <2>2, <2>8, <3>2 DEF Opening, Untold
    <3>6. ItemBlocks(v)
      BY <1>1, <2>2, <2>5, <3>3, <3>4, <3>5, ItemsGain
    <3>7. Itemizes(s, e, v)
      BY <1>1, <2>2, <2>4, <3>4 DEF Itemizes, Gains, ItemBlocks
    <3> QED
      BY <2>3, <3>3, <3>4, <3>5, <3>6, <3>7 DEF Responded, Untold
  <2> QED
    BY <2>10, <2>11
<1>4. CASE e.body \notin {"nameless", "tool"}
  <2>1. v = s
    BY <1>4 DEF ItemAdded
  <2> QED
    BY <1>1, <2>1 DEF Responded, Itemizes
<1> QED
  BY <1>2, <1>3, <1>4

\* A delta fills the block of its item.
LEMMA ItemFillIs ==
  ASSUME NEW strict \in BOOLEAN, NEW E \in Seq(Frame), NEW s, Responding(strict, E, s),
         NEW slot \in DOMAIN s.items, NEW kind, kind = s.kinds[slot], NEW data \in Seq(Nat),
         NEW v, v = Delta(s, s.items[slot], kind, data)
  PROVE  /\ Responding(strict, E, v) /\ OnlyFrames(s, v)
         /\ v.items = s.items /\ v.kinds = s.kinds /\ v.args = s.args /\ Calm(s, v)
<1> DEFINE b == s.items[slot]
<1>1. s \in Writer /\ Writes(strict, E, s) /\ ItemBlocks(s) /\ Untold(s) /\ ~s.closed
  BY DEF Responding, Writes
<1>2. s.items \in Maps(Nat) /\ s.kinds \in Maps(Flows)
  BY <1>1 DEF Writer
<1>3. b \in Nat /\ kind \in Flows /\ IsOpen(s.frames, b, kind)
  <2>1. slot \in DOMAIN s.kinds
    BY <1>1 DEF ItemBlocks
  <2> QED
    BY <1>1, <1>2, <2>1, MapsHave DEF ItemBlocks
<1>4. kind \in Kinds \ {"footer"}
  BY <1>3 DEF Kinds, Flows
<1>5. v = Delta(s, b, kind, data)
  OBVIOUS
<1> HIDE DEF b
<1>6. Filling(strict, E, s, v)
  BY <1>1, <1>3, <1>4, <1>5, FillIs
<1>7. v \in Writer /\ Writes(strict, E, v) /\ OnlyFrames(s, v) /\ v.next = s.next /\ Same(s.frames, v.frames)
  BY <1>6 DEF Filling, Writes
<1>8. /\ v.items = s.items /\ v.kinds = s.kinds /\ v.args = s.args /\ Calm(s, v) /\ v.calls = s.calls
      /\ v.closed = s.closed
  BY <1>1, <1>7, OnlyFramesMeans
<1>9. ItemBlocks(v)
  BY <1>1, <1>7, <1>8 DEF ItemBlocks, Same, AsOpen
<1>10. Untold(v)
  BY <1>1, <1>7, <1>8 DEF Untold, Same
<1> QED
  BY <1>1, <1>7, <1>8, <1>9, <1>10 DEF Responding

\* An item of text or reasoning is opened by its first delta.
ItemOpened(s, slot, kind) ==
  [Open(s, kind) EXCEPT !.items = With(@, slot, s.next), !.kinds = With(@, slot, kind)]

LEMMA ItemOpenIs ==
  ASSUME NEW strict \in BOOLEAN, NEW E \in Seq(Frame), NEW s, Responding(strict, E, s),
         NEW slot \in Nat, slot \notin DOMAIN s.items, NEW kind \in {"text", "thinking"}, NEW v,
         v = ItemOpened(s, slot, kind)
  PROVE  /\ Responding(strict, E, v) /\ Calm(s, v)
         /\ slot \in DOMAIN v.items /\ v.kinds[slot] = kind
         /\ \A j \in DOMAIN v.items : j = slot \/ (j \in DOMAIN s.items /\ v.kinds[j] = s.kinds[j])
<1> DEFINE o == Open(s, kind)
           it == With(s.items, slot, s.next)
           ks == With(s.kinds, slot, kind)
<1>1. /\ s \in Writer /\ Writes(strict, E, s) /\ ItemBlocks(s) /\ Untold(s) /\ ~s.closed
      /\ Count(s.frames) = s.next
  BY DEF Responding, Writes, ItemBlocks
<1>2. kind \in Kinds /\ kind \in Flows /\ kind \notin {"tool", "nudge"} /\ o = Open(s, kind)
  BY DEF Kinds, Flows
<1>3. s.items \in Maps(Nat) /\ s.kinds \in Maps(Flows) /\ s.next \in Nat
  BY <1>1 DEF Writer
<1>4. it \in Maps(Nat) /\ ks \in Maps(Flows) /\ Gains(s.items, slot, s.next, it) /\ Gains(s.kinds, slot, kind, ks)
  BY <1>2, <1>3, WithIs
<1>5. v = [o EXCEPT !.items = With(o.items, slot, s.next), !.kinds = With(o.kinds, slot, kind)]
  BY DEF ItemOpened
<1>6. it = With(s.items, slot, s.next) /\ ks = With(s.kinds, slot, kind)
  OBVIOUS
<1> HIDE DEF o, it, ks
<1>7. Opening(strict, E, s, o, s.next, kind) /\ o.next = s.next + 1
  BY <1>1, <1>2, OpenIs
<1>8. o \in Writer /\ OnlyFrames(s, o) /\ Writes(strict, E, o)
  BY <1>7 DEF Opening, Writes
<1>9. o.items = s.items /\ o.kinds = s.kinds /\ o.calls = s.calls /\ o.closed = s.closed /\ Calm(s, o)
  BY <1>1, <1>8, OnlyFramesMeans
<1>10. v = [o EXCEPT !.items = it, !.kinds = ks]
  BY <1>5, <1>6, <1>9
<1>11. /\ v \in Writer /\ v.frames = o.frames /\ v.next = o.next /\ v.items = it /\ v.kinds = ks
       /\ v.calls = o.calls /\ v.closed = o.closed /\ Calm(o, v)
  BY <1>4, <1>8, <1>10 DEF Writer, Calm
<1>12. /\ \A b, k : IsOpen(v.frames, b, k) <=> IsOpen(s.frames, b, k) \/ (b = s.next /\ k = kind)
       /\ Count(v.frames) = s.next + 1 /\ v.next = s.next + 1
       /\ Told(v.frames) = Told(s.frames) /\ (Called(v.frames) <=> Called(s.frames))
  BY <1>2, <1>7, <1>11 DEF Opening
<1>13. v.items = With(s.items, slot, s.next) /\ v.kinds = With(s.kinds, slot, kind)
  BY <1>6, <1>11
<1>14. ItemBlocks(v)
  BY <1>1, <1>2, <1>11, <1>12, <1>13, ItemsGain
<1>15. Untold(v) /\ Calm(s, v)
  BY <1>1, <1>9, <1>11, <1>12 DEF Untold, Calm
<1>16. Writes(strict, E, v)
  BY <1>8, <1>11 DEF Writes
<1>17. /\ slot \in DOMAIN v.items /\ v.kinds[slot] = kind
       /\ \A j \in DOMAIN v.items : j = slot \/ (j \in DOMAIN s.items /\ v.kinds[j] = s.kinds[j])
  BY <1>1, <1>4, <1>11 DEF Gains, ItemBlocks
<1> QED
  BY <1>1, <1>9, <1>11, <1>14, <1>15, <1>16, <1>17 DEF Responding

LEMMA ItemDeltaIs ==
  ASSUME NEW strict \in BOOLEAN, NEW E \in Seq(Frame), NEW s, Responding(strict, E, s), s.err = "none",
         NEW e \in Events, e.body \in {"text", "thinking", "tool", "nameless"},
         e.slot \in DOMAIN s.items => s.kinds[e.slot] = e.body, NEW v, v = ItemDelta(s, e)
  PROVE  Responded(strict, E, s, e, v)
<1>1. /\ s \in Writer /\ Writes(strict, E, s) /\ ItemBlocks(s) /\ Untold(s) /\ ~s.closed
      /\ e.slot \in Nat /\ e.id \in Nat
  BY DEF Responding, Writes, Events
<1>2. CASE v = s
  BY <1>1, <1>2 DEF Responded, Itemizes
<1>3. CASE v = KeepArgs(s, e.slot, e)
  <2>1. v \in Writer /\ v = [s EXCEPT !.args = v.args]
    BY <1>1, <1>3, KeepArgsIs
  <2>2. /\ v.frames = s.frames /\ v.next = s.next /\ v.items = s.items /\ v.kinds = s.kinds
        /\ v.calls = s.calls /\ v.closed = s.closed /\ v.life = s.life /\ v.err = s.err
    BY <1>1, <2>1 DEF Writer
  <2>3. Responding(strict, E, v)
    BY <2>1, <2>2, ItemsKeep
  <2> QED
    BY <2>1, <2>2, <2>3 DEF Responded, Responding, Itemizes
<1>4. CASE e.body \in {"text", "thinking"}
  <2> DEFINE kind == e.body
             u == IF e.slot \in DOMAIN s.items THEN s ELSE ItemOpened(s, e.slot, kind)
             o == Output(u, u.items[e.slot])
             data == <<e.id>>
  <2>1. v = IF o.err = "none" THEN Delta(o, o.items[e.slot], kind, data) ELSE o
    BY <1>4 DEF ItemDelta, Then, ItemOpened
  <2>2. kind \in {"text", "thinking"} /\ kind = e.body /\ data \in Seq(Nat)
    BY <1>1, <1>4
  <2> HIDE DEF kind, data
  <2>3. /\ Responding(strict, E, u) /\ Calm(s, u) /\ e.slot \in DOMAIN u.items /\ u.kinds[e.slot] = kind
        /\ \A j \in DOMAIN u.items : j = e.slot \/ (j \in DOMAIN s.items /\ u.kinds[j] = s.kinds[j])
    <3>1. CASE e.slot \in DOMAIN s.items
      BY <2>2, <3>1 DEF Calm
    <3>2. CASE e.slot \notin DOMAIN s.items
      <4>1. u = ItemOpened(s, e.slot, kind)
        BY <3>2
      <4> HIDE DEF u
      <4> QED
        BY <1>1, <2>2, <3>2, <4>1, ItemOpenIs
    <3> QED
      BY <3>1, <3>2
  <2>4. o = Output(u, u.items[e.slot])
    OBVIOUS
  <2> HIDE DEF u, o
  <2>5. u \in Writer /\ u.items[e.slot] \in Nat /\ u.err = "none" /\ u.life = s.life
    <3>1. u \in Writer /\ u.items \in Maps(Nat)
      BY <2>3 DEF Responding, Writes, Writer
    <3> QED
      BY <2>3, <3>1, MapsHave DEF Calm
  <2>6. o \in Writer /\ OnlyLife(u, o) /\ o.life = u.life /\ o.err \in {"none", "order"}
    BY <2>4, <2>5, OutputIs
  <2>7. Responding(strict, E, o) /\ o.items = u.items /\ o.kinds = u.kinds
    BY <2>3, <2>5, <2>6, ItemsLife, OnlyLifeMeans
  <2>8. Itemizes(s, e, o)
    BY <2>2, <2>3, <2>7 DEF Itemizes
  <2>9. CASE v = o
    BY <2>5, <2>6, <2>7, <2>8, <2>9 DEF Responded, Responding
  <2>10. CASE o.err = "none" /\ v = Delta(o, o.items[e.slot], kind, data)
    <3>1. e.slot \in DOMAIN o.items /\ kind = o.kinds[e.slot]
      BY <2>3, <2>7
    <3>2. Responding(strict, E, v) /\ v.items = o.items /\ v.kinds = o.kinds /\ Calm(o, v)
      BY <2>2, <2>7, <2>10, <3>1, ItemFillIs
    <3>3. Itemizes(s, e, v)
      BY <2>8, <3>2 DEF Itemizes
    <3> QED
      BY <2>5, <2>6, <2>10, <3>2, <3>3 DEF Responded, Responding, Calm, Writes
  <2> QED
    BY <2>1, <2>9, <2>10
<1> QED
  BY <1>2, <1>3, <1>4 DEF ItemDelta

\* The block of an item is stopped.
ItemStopped(s, slot) == [Stop(s, s.items[slot], s.kinds[slot]) EXCEPT !.items = Without(@, slot)]

LEMMA ItemStopIs ==
  ASSUME NEW strict \in BOOLEAN, NEW E \in Seq(Frame), NEW s, Responding(strict, E, s),
         NEW slot \in DOMAIN s.items, NEW v, v = ItemStopped(s, slot)
  PROVE  /\ Responding(strict, E, v) /\ Calm(s, v)
         /\ v.kinds = s.kinds /\ v.args = s.args /\ DOMAIN v.items = DOMAIN s.items \ {slot}
<1> DEFINE b == s.items[slot]
           kind == s.kinds[slot]
           p == Stop(s, b, kind)
           it == Without(s.items, slot)
<1>1. s \in Writer /\ Writes(strict, E, s) /\ ItemBlocks(s) /\ Untold(s) /\ ~s.closed
  BY DEF Responding, Writes
<1>2. s.items \in Maps(Nat) /\ s.kinds \in Maps(Flows)
  BY <1>1 DEF Writer
<1>3. b \in Nat /\ kind \in Flows /\ IsOpen(s.frames, b, kind)
  <2>1. slot \in DOMAIN s.kinds
    BY <1>1 DEF ItemBlocks
  <2> QED
    BY <1>1, <1>2, <2>1, MapsHave DEF ItemBlocks
<1>4. kind \in Kinds \ {"footer"}
  BY <1>3 DEF Kinds, Flows
<1>5. v = [p EXCEPT !.items = Without(p.items, slot)] /\ p = Stop(s, b, kind) /\ b = s.items[slot]
  BY DEF ItemStopped
<1> HIDE DEF b, kind, p
<1>6. Stopping(strict, E, s, p, b)
  BY <1>1, <1>3, <1>4, <1>5, StopIs
<1>7. p \in Writer /\ OnlyFrames(s, p) /\ p.next = s.next /\ Writes(strict, E, p)
  BY <1>6 DEF Stopping, Writes
<1>8. /\ p.items = s.items /\ p.kinds = s.kinds /\ p.args = s.args /\ p.calls = s.calls /\ p.closed = s.closed
      /\ Calm(s, p)
  BY <1>1, <1>7, OnlyFramesMeans
<1>9. it \in Maps(Nat)
  BY <1>2, WithoutIs
<1>10. v = [p EXCEPT !.items = it] /\ it = Without(s.items, slot)
  BY <1>5, <1>8
<1> HIDE DEF it
<1>11. /\ v \in Writer /\ v.frames = p.frames /\ v.next = p.next /\ v.items = it /\ v.kinds = p.kinds
       /\ v.args = p.args /\ v.calls = p.calls /\ v.closed = p.closed /\ Calm(p, v)
  BY <1>7, <1>9, <1>10 DEF Writer, Calm
<1>12. /\ \A c, k : IsOpen(v.frames, c, k) <=> IsOpen(s.frames, c, k) /\ c # s.items[slot]
       /\ Count(v.frames) = Count(s.frames) /\ v.next = s.next
       /\ Told(v.frames) = Told(s.frames) /\ (Called(v.frames) <=> Called(s.frames))
  BY <1>5, <1>6, <1>7, <1>11 DEF Stopping
<1>13. v.items = Without(s.items, slot) /\ v.kinds = s.kinds
  BY <1>8, <1>10, <1>11
<1>14. ItemBlocks(v) /\ DOMAIN v.items = DOMAIN s.items \ {slot}
  <2>1. v \in Writer /\ Stricken(s, slot, v)
    BY <1>11, <1>12, <1>13 DEF Stricken
  <2> QED
    BY <1>1, <2>1, ItemsLose
<1>15. Untold(v) /\ Calm(s, v) /\ Writes(strict, E, v)
  BY <1>1, <1>7, <1>8, <1>11, <1>12 DEF Untold, Calm, Writes
<1> QED
  BY <1>1, <1>8, <1>11, <1>13, <1>14, <1>15 DEF Responding

\* The whole of an item is a block that is stopped already.
LEMMA DoneOnlyItemIs ==
  ASSUME NEW strict \in BOOLEAN, NEW E \in Seq(Frame), NEW s, Responding(strict, E, s),
         NEW e \in Events, e.body \in {"text", "thinking", "tool", "nameless"}, NEW v, v = DoneOnlyItem(s, e)
  PROVE  Responding(strict, E, v) /\ Calm(s, v) /\ v.items = s.items /\ v.kinds = s.kinds
<1>1. /\ s \in Writer /\ Writes(strict, E, s) /\ ItemBlocks(s) /\ Untold(s) /\ ~s.closed
      /\ e.slot \in Nat /\ e.id \in Nat
  BY DEF Responding, Writes, Events
<1>2. s.args \in Maps(Seq(Nat)) /\ Count(s.frames) = s.next
  BY <1>1 DEF Writer, ItemBlocks
<1>3. CASE e.body = "nameless"
  <2> DEFINE a == Without(s.args, e.slot)
  <2>1. v = [s EXCEPT !.args = a]
    BY <1>3 DEF DoneOnlyItem
  <2>2. a \in Maps(Seq(Nat))
    BY <1>2, WithoutIs
  <2> HIDE DEF a
  <2>3. /\ v \in Writer /\ v.frames = s.frames /\ v.next = s.next /\ v.items = s.items /\ v.kinds = s.kinds
        /\ v.calls = s.calls /\ v.closed = s.closed /\ Calm(s, v)
    BY <1>1, <2>1, <2>2 DEF Writer, Calm
  <2> QED
    BY <2>3, ItemsKeep
<1>4. CASE e.body # "nameless"
  <2> DEFINE kind == e.body
             data == IF kind = "tool" THEN Arguments(s, e) ELSE <<e.id>>
             u == Stop(Delta(Open(s, kind), s.next, kind, data), s.next, kind)
             m == IF kind = "tool" THEN u.calls + 1 ELSE u.calls
  <2>1. v = [u EXCEPT !.calls = m]
    BY <1>4 DEF DoneOnlyItem
  <2>2. data \in Seq(Nat)
    <3>1. <<e.id>> \in Seq(Nat)
      BY <1>1
    <3>2. e.slot \in DOMAIN s.args => s.args[e.slot] \in Seq(Nat)
      BY <1>2, MapsHave
    <3> QED
      BY <3>1, <3>2 DEF Arguments
  <2>3. kind \in Kinds \ {"footer"} /\ (kind \in {"tool", "nudge"} <=> kind = "tool")
    BY <1>4 DEF Kinds
  <2>4. u = Stop(Delta(Open(s, kind), s.next, kind, data), s.next, kind)
    OBVIOUS
  <2> HIDE DEF u, kind, data
  <2>5. Adding(strict, E, s, u, kind)
    BY <1>1, <1>2, <2>2, <2>3, <2>4, WholeBlockIs
  <2>6. u \in Writer /\ OnlyFrames(s, u) /\ Writes(strict, E, u)
    BY <2>5 DEF Adding, Writes
  <2>7. /\ u.items = s.items /\ u.kinds = s.kinds /\ u.calls = s.calls /\ u.closed = s.closed /\ Calm(s, u)
        /\ s.calls \in Nat
    BY <1>1, <2>6, OnlyFramesMeans DEF Writer
  <2>8. m \in Nat /\ (m > 0 <=> s.calls > 0 \/ kind = "tool")
    BY <2>7
  <2> HIDE DEF m
  <2>9. /\ v \in Writer /\ v.frames = u.frames /\ v.next = u.next /\ v.items = u.items /\ v.kinds = u.kinds
        /\ v.calls = m /\ v.closed = u.closed /\ Calm(u, v)
    BY <2>1, <2>6, <2>8 DEF Writer, Calm
  <2>10. Untold(v)
    BY <1>1, <2>3, <2>5, <2>8, <2>9 DEF Untold, Adding
  <2>11. ItemBlocks(v)
    BY <1>1, <2>5, <2>7, <2>9 DEF ItemBlocks, Adding, AsOpen
  <2> QED
    BY <1>1, <2>6, <2>7, <2>9, <2>10, <2>11 DEF Responding, Writes, Calm
<1> QED
  BY <1>3, <1>4

LEMMA ItemDoneIs ==
  ASSUME NEW strict \in BOOLEAN, NEW E \in Seq(Frame), NEW s, Responding(strict, E, s), s.err = "none",
         NEW e \in Events, e.body \in {"text", "thinking", "tool", "nameless"},
         e.slot \in DOMAIN s.items => s.kinds[e.slot] = e.body, NEW v, v = ItemDone(s, e)
  PROVE  Responded(strict, E, s, e, v)
<1>1. /\ s \in Writer /\ Writes(strict, E, s) /\ ItemBlocks(s) /\ Untold(s) /\ ~s.closed
      /\ e.slot \in Nat /\ e.id \in Nat
  BY DEF Responding, Writes, Events
<1>2. s.args \in Maps(Seq(Nat)) /\ s.refused \in SUBSET Nat
  BY <1>1 DEF Writer
<1>3. CASE e.slot \in s.refused
  <2> DEFINE a == Without(s.args, e.slot)
             rest == s.refused \ {e.slot}
  <2>1. v = [s EXCEPT !.refused = rest, !.args = a]
    BY <1>3 DEF ItemDone
  <2>2. a \in Maps(Seq(Nat)) /\ rest \in SUBSET Nat
    BY <1>2, WithoutIs
  <2> HIDE DEF a, rest
  <2>3. /\ v \in Writer /\ v.frames = s.frames /\ v.next = s.next /\ v.items = s.items /\ v.kinds = s.kinds
        /\ v.calls = s.calls /\ v.closed = s.closed /\ v.life = s.life /\ v.err = s.err
    BY <1>1, <2>1, <2>2 DEF Writer
  <2>4. Responding(strict, E, v)
    BY <2>3, ItemsKeep
  <2> QED
    BY <2>3, <2>4 DEF Responded, Responding, Itemizes
<1>4. CASE e.slot \notin s.refused /\ e.slot \notin DOMAIN s.items
  <2>1. v = DoneOnlyItem(s, e)
    BY <1>4 DEF ItemDone
  <2>2. Responding(strict, E, v) /\ Calm(s, v) /\ v.items = s.items /\ v.kinds = s.kinds
    BY <2>1, DoneOnlyItemIs
  <2> QED
    BY <2>2 DEF Responded, Responding, Writes, Itemizes, Calm
<1>5. CASE e.slot \notin s.refused /\ e.slot \in DOMAIN s.items
  <2> DEFINE kind == e.body
             data == Arguments(s, e)
             u == IF kind = "tool" THEN Delta(s, s.items[e.slot], kind, data) ELSE s
             p == ItemStopped(u, e.slot)
             a == Without(p.args, e.slot)
  <2>1. data \in Seq(Nat)
    <3>1. <<e.id>> \in Seq(Nat)
      BY <1>1
    <3>2. e.slot \in DOMAIN s.args => s.args[e.slot] \in Seq(Nat)
      BY <1>2, MapsHave
    <3> QED
      BY <3>1, <3>2 DEF Arguments
  <2>2. kind = s.kinds[e.slot] /\ kind = e.body
    BY <1>5
  <2>3. v = [Stop(u, s.items[e.slot], kind) EXCEPT !.items = Without(@, e.slot), !.args = Without(@, e.slot)]
    BY <1>5 DEF ItemDone
  <2> HIDE DEF data, kind
  <2>4. /\ Responding(strict, E, u) /\ Calm(s, u)
        /\ u.items = s.items /\ u.kinds = s.kinds
    <3>1. CASE kind = "tool"
      <4> DEFINE j == e.slot
      <4>1. u = Delta(s, s.items[j], kind, data) /\ j \in DOMAIN s.items /\ kind = s.kinds[j]
        BY <1>5, <2>2, <3>1
      <4> HIDE DEF u, j
      <4> QED
        BY <2>1, <4>1, ItemFillIs
    <3>2. CASE kind # "tool"
      BY <3>2 DEF Calm
    <3> QED
      BY <3>1, <3>2
  <2> HIDE DEF u
  <2>5. v = [p EXCEPT !.args = a]
    BY <2>2, <2>3, <2>4 DEF ItemStopped, Stop, Emit
  <2>6. p = ItemStopped(u, e.slot) /\ e.slot \in DOMAIN u.items
    BY <1>5, <2>4
  <2> HIDE DEF p
  <2>7. /\ Responding(strict, E, p) /\ Calm(u, p) /\ p.kinds = s.kinds
        /\ DOMAIN p.items \subseteq DOMAIN s.items
    BY <2>4, <2>6, ItemStopIs
  <2>8. p \in Writer
    BY <2>7 DEF Responding, Writes
  <2>9. a \in Maps(Seq(Nat))
    <3>1. p.args \in Maps(Seq(Nat))
      BY <2>8 DEF Writer
    <3> QED
      BY <3>1, WithoutIs
  <2> HIDE DEF a
  <2>10. /\ v \in Writer /\ v.frames = p.frames /\ v.next = p.next /\ v.items = p.items /\ v.kinds = p.kinds
         /\ v.calls = p.calls /\ v.closed = p.closed /\ v.life = p.life /\ v.err = p.err
    BY <2>5, <2>8, <2>9 DEF Writer
  <2>11. Responding(strict, E, v) /\ v.life = s.life /\ v.err = "none"
    BY <2>4, <2>7, <2>10, ItemsKeep DEF Calm
  <2> QED
    BY <2>7, <2>10, <2>11 DEF Responded, Responding, Writes, Itemizes
<1> QED
  BY <1>3, <1>4, <1>5

\* An item the upstream left open is filled with what was kept, and stopped.
LEMMA FinishItemIs ==
  ASSUME NEW strict \in BOOLEAN, NEW E \in Seq(Frame), NEW s, Responding(strict, E, s),
         NEW k \in DOMAIN s.items, NEW v, v = FinishItem(s, k)
  PROVE  Responding(strict, E, v) /\ Calm(s, v) /\ DOMAIN v.items = DOMAIN s.items \ {k}
<1> DEFINE kind == "tool"
           data == IF k \in DOMAIN s.args THEN s.args[k] ELSE <<>>
           u == IF s.kinds[k] = kind THEN Delta(s, s.items[k], kind, data) ELSE s
<1>1. s.args \in Maps(Seq(Nat))
  BY DEF Responding, Writes, Writer
<1>2. data \in Seq(Nat)
  BY <1>1, MapsHave, EmptySeq
<1>3. v = [Stop(u, s.items[k], s.kinds[k]) EXCEPT !.items = Without(@, k)]
  BY DEF FinishItem
<1> HIDE DEF data, kind
<1>4. Responding(strict, E, u) /\ Calm(s, u) /\ u.items = s.items /\ u.kinds = s.kinds
  <2>1. CASE s.kinds[k] = kind
    <3>1. u = Delta(s, s.items[k], kind, data) /\ kind = s.kinds[k]
      BY <2>1
    <3> HIDE DEF u
    <3> QED
      BY <1>2, <3>1, ItemFillIs
  <2>2. CASE s.kinds[k] # kind
    BY <2>2 DEF Calm
  <2> QED
    BY <2>1, <2>2
<1> HIDE DEF u
<1>5. v = ItemStopped(u, k) /\ k \in DOMAIN u.items
  BY <1>3, <1>4 DEF ItemStopped
<1>6. Responding(strict, E, v) /\ Calm(u, v) /\ DOMAIN v.items = DOMAIN u.items \ {k}
  BY <1>4, <1>5, ItemStopIs
<1> QED
  BY <1>4, <1>6 DEF Calm

LEMMA FinishItemsIs ==
  ASSUME NEW strict \in BOOLEAN, NEW E \in Seq(Frame), NEW s, Responding(strict, E, s), NEW v, v = FinishItems(s)
  PROVE  Concluded(strict, E, v) /\ Calm(s, v)
<1> DEFINE D == DOMAIN s.items
           q == SetToSeq(D)
           n == Len(q)
           loop == "finish"
           Body(h, k) == IF k = 0 THEN s ELSE FinishItem(h[k - 1], q[k])
           f == CHOOSE h : h = [k \in 0..n |-> Body(h, k)]
           u == f[n]
<1>1. Lists(D, q)
  BY SetToSeqLists DEF Responding, ItemBlocks
<1>2. v = MessageStop(u, StopReason(u))
  BY DEF FinishItems
<1> HIDE DEF q
<1>3. f = [k \in 0..n |-> Body(f, k)]
  <2>1. PICK h : IsRun(loop, s, q, h)
    BY <1>1, RunExists DEF Lists
  <2>2. h = [k \in 0..n |-> Body(h, k)]
    BY <2>1 DEF IsRun, Turn
  <2> QED
    BY <2>2
<1> HIDE DEF f
<1>4. f[0] = s /\ \A k \in 1..n : f[k] = FinishItem(f[k - 1], q[k])
  <2>1. n \in Nat
    BY <1>1 DEF Lists
  <2>2. \A k \in 0..n : f[k] = Body(f, k)
    BY <1>3
  <2> QED
    BY <2>1, <2>2
<1> DEFINE Rest(k) == {x \in D : \A j \in 1..k : q[j] # x}
           Good(k) == Responding(strict, E, f[k]) /\ Calm(s, f[k]) /\ DOMAIN f[k].items = Rest(k)
           T == {k \in 0..n : Good(k)}
<1>5. Good(0)
  BY <1>4 DEF Calm
<1>6. ASSUME NEW k \in 1..n, Good(k - 1) PROVE Good(k)
  <2>1. q[k] \in Rest(k - 1)
    BY <1>1 DEF Lists
  <2>2. Rest(k) = Rest(k - 1) \ {q[k]}
    BY <1>1 DEF Lists
  <2> HIDE DEF Rest
  <2>3. q[k] \in DOMAIN f[k - 1].items /\ f[k] = FinishItem(f[k - 1], q[k]) /\ Responding(strict, E, f[k - 1])
    BY <1>4, <1>6, <2>1
  <2>4. Responding(strict, E, f[k]) /\ Calm(f[k - 1], f[k]) /\ DOMAIN f[k].items = DOMAIN f[k - 1].items \ {q[k]}
    BY <2>3, FinishItemIs
  <2> QED
    BY <1>6, <2>2, <2>4 DEF Calm
<1>7. Good(n)
  <2> HIDE DEF Good
  <2>1. n \in Nat
    BY <1>1 DEF Lists
  <2>2. 0 \in T /\ \A k \in 1..n : k - 1 \in T => k \in T
    BY <1>5, <1>6, <2>1
  <2> HIDE DEF T
  <2>3. n \in T
    BY <2>1, <2>2, RunReaches
  <2> QED
    BY <2>3 DEF T
<1>8. Rest(n) = {}
  BY <1>1 DEF Lists
<1>9. Responding(strict, E, u) /\ Calm(s, u) /\ DOMAIN u.items = {}
  BY <1>7, <1>8
<1> HIDE DEF u
<1>10. Writes(strict, E, u) /\ Untold(u) /\ Shut(u)
  BY <1>9 DEF Responding, ItemBlocks, Shut
<1>11. Concluded(strict, E, v) /\ Calm(u, v)
  BY <1>2, <1>10, EndsTold
<1> QED
  BY <1>9, <1>11 DEF Calm

\* A translator that was refused writes no more by itself.
Stuck(strict, E, s) == Writes(strict, E, s) /\ s.err # "none"

LEMMA ResponsesErrorIs ==
  ASSUME NEW strict \in BOOLEAN, NEW E \in Seq(Frame), NEW s, Responding(strict, E, s), NEW v, v = ResponsesError(s)
  PROVE  \/ Concluded(strict, E, v) /\ LastOf(v.frames) = "error" /\ v.err = s.err
         \/ Stuck(strict, E, v)
<1> DEFINE u == Fail(s)
<1>1. s \in Writer
  BY DEF Responding, Writes
<1>2. u \in Writer /\ OnlyLife(s, u) /\ u.err = s.err
  BY <1>1, FailIs
<1>3. v = IF u.output THEN ErrorFrame(u) ELSE [u EXCEPT !.closed = TRUE, !.err = "upstream"]
  BY DEF ResponsesError
<1> HIDE DEF u
<1>4. Writes(strict, E, u)
  BY <1>2, ItemsLife DEF Responding
<1>5. CASE u.output
  <2>1. v = ErrorFrame(u)
    BY <1>3, <1>5
  <2>2. Concluded(strict, E, v) /\ Calm(u, v) /\ LastOf(v.frames) = "error"
    BY <1>4, <2>1, ErrorConcludes
  <2> QED
    BY <1>2, <2>2 DEF Calm
<1>6. CASE ~u.output
  <2>1. v = [u EXCEPT !.closed = TRUE, !.err = "upstream"] /\ "upstream" \in Errors
    BY <1>3, <1>6 DEF Errors
  <2>2. v \in Writer /\ v.frames = u.frames /\ v.err = "upstream"
    BY <1>2, <2>1 DEF Writer
  <2> QED
    BY <1>4, <2>2 DEF Stuck, Writes
<1> QED
  BY <1>5, <1>6

\* An event of the upstream: the translator goes on, is refused, or has told the
\* client of the upstream's error.
ResponsesKinds == {"added", "delta", "item", "finish", "failed"}

LEMMA ResponsesEventIs ==
  ASSUME NEW strict \in BOOLEAN, NEW E \in Seq(Frame), NEW s, Responding(strict, E, s), s.err = "none",
         NEW e \in Events, e.kind \in ResponsesKinds,
         e.kind \in {"added", "delta", "item"} => e.body \in {"text", "thinking", "tool", "nameless"},
         e.kind = "added" => e.slot \notin DOMAIN s.items,
         e.kind \in {"delta", "item"} /\ e.slot \in DOMAIN s.items => s.kinds[e.slot] = e.body,
         NEW v, v = ResponsesEvent(s, e)
  PROVE  \/ Stuck(strict, E, v)
         \/ Concluded(strict, E, v) /\ LastOf(v.frames) = "error" /\ v.err = "none" /\ e.kind = "failed"
         \/ /\ Responding(strict, E, v) /\ v.err = "none" /\ e.kind # "failed"
            /\ v.life = s.life \/ (v.life = "terminal" /\ e.kind = "finish")
            /\ \/ v.items = s.items /\ v.kinds = s.kinds
               \/ Itemizes(s, e, v) /\ e.kind \in {"added", "delta", "item"}
<1>1. s \in Writer /\ ~s.closed
  BY DEF Responding, Writes
<1>2. CASE e.kind \in {"added", "delta", "item"}
  <2>1. Responded(strict, E, s, e, v)
    <3>1. CASE e.kind = "added"
      <4>1. v = ItemAdded(s, e)
        BY <1>1, <3>1 DEF ResponsesEvent
      <4> QED
        BY <3>1, <4>1, ItemAddedIs
    <3>2. CASE e.kind = "delta"
      <4>1. v = ItemDelta(s, e)
        BY <1>1, <3>2 DEF ResponsesEvent
      <4> QED
        BY <3>2, <4>1, ItemDeltaIs
    <3>3. CASE e.kind = "item"
      <4>1. v = ItemDone(s, e)
        BY <1>1, <3>3 DEF ResponsesEvent
      <4> QED
        BY <3>3, <4>1, ItemDoneIs
    <3> QED
      BY <1>2, <3>1, <3>2, <3>3
  <2> QED
    BY <1>2, <2>1 DEF Responded, Responding, Stuck
<1>3. CASE e.kind = "failed"
  <2>1. v = ResponsesError(s)
    BY <1>1, <1>3 DEF ResponsesEvent
  <2> QED
    BY <1>3, <2>1, ResponsesErrorIs
<1>4. CASE e.kind = "finish"
  <2> DEFINE b == [s EXCEPT !.finish = e.body]
  <2>1. v = Terminal(b)
    BY <1>1, <1>4 DEF ResponsesEvent
  <2>2. b \in Writer
    <3>1. e.body \in {"none", "stop", "tool_calls", "length"}
      BY <1>4 DEF Events
    <3> QED
      BY <1>1, <3>1 DEF Writer
  <2>3. /\ b.frames = s.frames /\ b.next = s.next /\ b.items = s.items /\ b.kinds = s.kinds /\ b.calls = s.calls
        /\ b.closed = s.closed /\ b.life = s.life /\ b.err = s.err
    BY <1>1 DEF Writer
  <2> HIDE DEF b
  <2>4. Responding(strict, E, b)
    BY <2>2, <2>3, ItemsKeep
  <2>5. /\ v \in Writer /\ OnlyLife(b, v)
        /\ v.life = b.life \/ v.life = "terminal"
        /\ v.err = b.err \/ v.err = "order"
    BY <2>1, <2>2, TerminalIs
  <2>6. Responding(strict, E, v) /\ v.items = b.items /\ v.kinds = b.kinds
    BY <2>2, <2>4, <2>5, ItemsLife, OnlyLifeMeans
  <2> QED
    BY <1>4, <2>3, <2>5, <2>6 DEF Responding, Stuck
<1> QED
  BY <1>2, <1>3, <1>4 DEF ResponsesKinds

LEMMA ResponsesFinalizeIs ==
  ASSUME NEW strict \in BOOLEAN, NEW E \in Seq(Frame), NEW s, Responding(strict, E, s), s.err = "none",
         NEW v, v = ResponsesFinalize(s)
  PROVE  \/ Writes(strict, E, v)
         \/ /\ Concluded(strict, E, v)
            /\ LastOf(v.frames) = "end" => s.life \in {"terminal", "failed"}
<1>1. s \in Writer /\ ~s.closed
  BY DEF Responding, Writes
<1>2. CASE EOF(s) = "none"
  <2>1. v = FinishItems(s)
    BY <1>1, <1>2 DEF ResponsesFinalize
  <2>2. s.life \in {"terminal", "failed"}
    BY <1>1, <1>2 DEF EOF, Writer, Lives
  <2> QED
    BY <2>1, <2>2, FinishItemsIs
<1>3. CASE EOF(s) # "none"
  <2> DEFINE u == IF s.life = "started" THEN ResponsesError(s) ELSE s
  <2>1. v = IF u.err = "none" THEN [u EXCEPT !.err = EOF(s)] ELSE u
    BY <1>1, <1>3 DEF ResponsesFinalize
  <2>2. EOF(s) \in Errors
    BY DEF EOF, Errors
  <2>3. Writes(strict, E, u) \/ (Concluded(strict, E, u) /\ LastOf(u.frames) = "error")
    <3>1. CASE s.life = "started"
      <4>1. u = ResponsesError(s)
        BY <3>1
      <4> HIDE DEF u
      <4> QED
        BY <4>1, ResponsesErrorIs DEF Stuck
    <3>2. CASE s.life # "started"
      BY <3>2 DEF Responding
    <3> QED
      BY <3>1, <3>2
  <2> HIDE DEF u
  <2>4. u \in Writer
    BY <2>3 DEF Writes, Concluded, Over
  <2>5. v \in Writer /\ v.frames = u.frames /\ v.closed = u.closed
    <3>1. CASE u.err # "none"
      BY <2>1, <2>4, <3>1
    <3>2. CASE u.err = "none"
      <4> DEFINE x == EOF(s)
      <4>1. v = [u EXCEPT !.err = x] /\ x \in Errors
        BY <2>1, <2>2, <3>2
      <4> HIDE DEF x
      <4> QED
        BY <2>4, <4>1 DEF Writer
    <3> QED
      BY <3>1, <3>2
  <2>6. Writes(strict, E, v) \/ (Concluded(strict, E, v) /\ LastOf(v.frames) = "error")
    BY <2>3, <2>5 DEF Writes, Concluded, Over
  <2> QED
    BY <2>6
<1> QED
  BY <1>2, <1>3

-----------------------------------------------------------------------------
(* The Responses client.  kinds has each block, all open until the end.    *)

CodexBlocks(s) ==
  /\ Count(s.frames) = s.next
  /\ \A b, k : IsOpen(s.frames, b, k) <=> b \in DOMAIN s.kinds /\ s.kinds[b] = k
  /\ \A j \in DOMAIN s.items : /\ s.items[j] \in DOMAIN s.kinds
                               /\ s.kinds[s.items[j]] = IF j = 0 THEN "text" ELSE "tool"
  /\ IsFiniteSet(DOMAIN s.kinds)

Coding(strict, E, s) == Writes(strict, E, s) /\ ~s.closed /\ CodexBlocks(s) /\ Told(s.frames) = {}

LEMMA CodexLife ==
  ASSUME NEW strict, NEW E, NEW s, Coding(strict, E, s), NEW u \in Writer, OnlyLife(s, u)
  PROVE  Coding(strict, E, u) /\ u.items = s.items /\ u.kinds = s.kinds
<1>1. s \in Writer
  BY DEF Coding, Writes
<1>2. u.frames = s.frames /\ u.next = s.next /\ u.items = s.items /\ u.kinds = s.kinds /\ u.closed = s.closed
  BY <1>1, OnlyLifeMeans
<1> QED
  BY <1>2 DEF Coding, Writes, CodexBlocks

\* The item of a call, or of the text, is opened when it is first heard of.
LEMMA OpenItemIs ==
  ASSUME NEW strict \in BOOLEAN, NEW E \in Seq(Frame), NEW s, Coding(strict, E, s),
         NEW key \in Nat, NEW kind, kind = IF key = 0 THEN "text" ELSE "tool", NEW v, v = OpenItem(s, key, kind)
  PROVE  Coding(strict, E, v) /\ Calm(s, v) /\ key \in DOMAIN v.items
<1>1. s \in Writer /\ Writes(strict, E, s) /\ CodexBlocks(s) /\ Told(s.frames) = {} /\ ~s.closed
  BY DEF Coding, Writes
<1>2. CASE key \in DOMAIN s.items
  BY <1>2 DEF OpenItem, Calm
<1>3. CASE key \notin DOMAIN s.items
  <2> DEFINE o == Open(s, kind)
             it == With(s.items, key, s.next)
             ks == With(s.kinds, s.next, kind)
  <2>1. kind \in Kinds /\ kind \in Flows /\ o = Open(s, kind)
    BY DEF Kinds, Flows
  <2>2. s.items \in Maps(Nat) /\ s.kinds \in Maps(Flows) /\ s.next \in Nat /\ Count(s.frames) = s.next
    BY <1>1 DEF Writer, CodexBlocks
  <2>3. it \in Maps(Nat) /\ ks \in Maps(Flows) /\ Gains(s.items, key, s.next, it) /\ Gains(s.kinds, s.next, kind, ks)
    BY <2>1, <2>2, WithIs
  <2>4. v = [o EXCEPT !.items = With(o.items, key, s.next), !.kinds = With(o.kinds, s.next, kind)]
    BY <1>3 DEF OpenItem
  <2> DEFINE n == s.next
  <2> HIDE DEF o, n
  <2>5. Opening(strict, E, s, o, s.next, kind) /\ o.next = s.next + 1
    BY <1>1, <2>1, <2>2, OpenIs
  <2>6. o \in Writer /\ OnlyFrames(s, o) /\ Writes(strict, E, o)
    BY <2>5 DEF Opening, Writes
  <2>7. o.items = s.items /\ o.kinds = s.kinds /\ o.closed = s.closed /\ Calm(s, o)
    BY <1>1, <2>6, OnlyFramesMeans
  <2>8. v = [o EXCEPT !.items = it, !.kinds = ks]
    BY <2>4, <2>7
  <2> HIDE DEF it, ks
  <2>9. /\ v \in Writer /\ v.frames = o.frames /\ v.next = o.next /\ v.items = it /\ v.kinds = ks
        /\ v.closed = o.closed /\ Calm(o, v)
    BY <2>3, <2>6, <2>8 DEF Writer, Calm
  <2>10. n \notin DOMAIN s.kinds
    <3> SUFFICES ASSUME n \in DOMAIN s.kinds PROVE FALSE
      OBVIOUS
    <3>1. IsOpen(s.frames, n, s.kinds[n]) /\ Live(strict, s.frames)
      BY <1>1 DEF CodexBlocks, Writes
    <3>2. n < Count(s.frames)
      BY <3>1, InBook DEF IsOpen
    <3> QED
      BY <2>2, <3>2 DEF n
  <2>11. /\ DOMAIN v.kinds = DOMAIN s.kinds \cup {n} /\ v.kinds[n] = kind
         /\ \A b \in DOMAIN s.kinds : b # n /\ v.kinds[b] = s.kinds[b]
    BY <2>3, <2>9, <2>10 DEF Gains, n
  <2>12. /\ DOMAIN v.items = DOMAIN s.items \cup {key} /\ v.items[key] = n
         /\ \A j \in DOMAIN s.items : j # key /\ v.items[j] = s.items[j]
    BY <1>3, <2>3, <2>9 DEF Gains, n
  <2>13. \A b, k : IsOpen(v.frames, b, k) <=> b \in DOMAIN v.kinds /\ v.kinds[b] = k
    <3> TAKE b, k
    <3>1. IsOpen(v.frames, b, k) <=> IsOpen(s.frames, b, k) \/ (b = n /\ k = kind)
      BY <2>5, <2>9 DEF Opening, n
    <3>2. IsOpen(s.frames, b, k) <=> b \in DOMAIN s.kinds /\ s.kinds[b] = k
      BY <1>1 DEF CodexBlocks
    <3> QED
      BY <2>10, <2>11, <3>1, <3>2
  <2>14. \A j \in DOMAIN v.items : /\ v.items[j] \in DOMAIN v.kinds
                                   /\ v.kinds[v.items[j]] = IF j = 0 THEN "text" ELSE "tool"
    <3> SUFFICES ASSUME NEW j \in DOMAIN v.items
                 PROVE  v.items[j] \in DOMAIN v.kinds /\ v.kinds[v.items[j]] = IF j = 0 THEN "text" ELSE "tool"
      OBVIOUS
    <3>1. CASE j = key
      BY <2>11, <2>12, <3>1
    <3>2. CASE j # key
      <4>1. j \in DOMAIN s.items /\ v.items[j] = s.items[j]
        BY <2>12, <3>2
      <4>2. s.items[j] \in DOMAIN s.kinds /\ s.kinds[s.items[j]] = IF j = 0 THEN "text" ELSE "tool"
        BY <1>1, <4>1 DEF CodexBlocks
      <4> QED
        BY <2>11, <4>1, <4>2
    <3> QED
      BY <3>1, <3>2
  <2>15. IsFiniteSet(DOMAIN v.kinds)
    <3>1. IsFiniteSet(DOMAIN s.kinds)
      BY <1>1 DEF CodexBlocks
    <3> QED
      BY <2>11, <3>1, FS_AddElement
  <2>16. Count(v.frames) = v.next /\ Told(v.frames) = {}
    BY <1>1, <2>5, <2>9 DEF Opening
  <2>17. CodexBlocks(v)
    BY <2>13, <2>14, <2>15, <2>16 DEF CodexBlocks
  <2>18. Writes(strict, E, v) /\ Calm(s, v)
    BY <2>6, <2>7, <2>9 DEF Writes, Calm
  <2> QED
    BY <1>1, <2>7, <2>9, <2>12, <2>16, <2>17, <2>18 DEF Coding
<1> QED
  BY <1>2, <1>3

\* The item is filled, once the lifecycle let it.
LEMMA CodexFillIs ==
  ASSUME NEW strict \in BOOLEAN, NEW E \in Seq(Frame), NEW s, Coding(strict, E, s),
         NEW key \in DOMAIN s.items, NEW kind, kind = IF key = 0 THEN "text" ELSE "tool", NEW data \in Seq(Nat),
         NEW v, v = Delta(s, s.items[key], kind, data)
  PROVE  Coding(strict, E, v)
<1> DEFINE b == s.items[key]
<1>1. s \in Writer /\ Writes(strict, E, s) /\ CodexBlocks(s) /\ Told(s.frames) = {} /\ ~s.closed
  BY DEF Coding, Writes
<1>2. b \in DOMAIN s.kinds /\ s.kinds[b] = kind /\ IsOpen(s.frames, b, kind)
  BY <1>1 DEF CodexBlocks
<1>3. b \in Nat
  <2>1. s.kinds \in Maps(Flows)
    BY <1>1 DEF Writer
  <2> QED
    BY <1>2, <2>1, MapsHave
<1>4. kind \in Kinds \ {"footer"} /\ v = Delta(s, b, kind, data)
  BY DEF Kinds
<1> HIDE DEF b
<1>5. Filling(strict, E, s, v)
  BY <1>1, <1>2, <1>3, <1>4, FillIs
<1>6. v \in Writer /\ Writes(strict, E, v) /\ OnlyFrames(s, v) /\ v.next = s.next /\ Same(s.frames, v.frames)
  BY <1>5 DEF Filling, Writes
<1>7. v.items = s.items /\ v.kinds = s.kinds /\ v.closed = s.closed
  BY <1>1, <1>6, OnlyFramesMeans
<1>8. CodexBlocks(v) /\ Told(v.frames) = {}
  BY <1>1, <1>6, <1>7 DEF CodexBlocks, Same, AsOpen
<1> QED
  BY <1>1, <1>6, <1>7, <1>8 DEF Coding

\* A piece of text or of a call's arguments.
LEMMA CodexPieceIs ==
  ASSUME NEW strict \in BOOLEAN, NEW E \in Seq(Frame), NEW s, Coding(strict, E, s),
         NEW e \in Events, NEW key \in Nat, NEW kind, kind = IF key = 0 THEN "text" ELSE "tool",
         NEW u, u = OpenItem(s, key, kind), NEW o, o = Output(u, u.items[key]), NEW v,
         \/ v = o
         \/ v = Delta(o, o.items[key], kind, <<e.id>>)
  PROVE  Coding(strict, E, v)
<1>1. Coding(strict, E, u) /\ key \in DOMAIN u.items
  BY OpenItemIs
<1>2. u \in Writer /\ u.items[key] \in Nat
  <2>1. u \in Writer /\ u.items \in Maps(Nat)
    BY <1>1 DEF Coding, Writes, Writer
  <2> QED
    BY <1>1, <2>1, MapsHave
<1>3. o \in Writer /\ OnlyLife(u, o)
  BY <1>2, OutputIs
<1>4. Coding(strict, E, o) /\ key \in DOMAIN o.items
  BY <1>1, <1>3, CodexLife
<1>5. CASE v = Delta(o, o.items[key], kind, <<e.id>>)
  <2> DEFINE data == <<e.id>>
  <2>1. data \in Seq(Nat) /\ v = Delta(o, o.items[key], kind, data)
    BY <1>5 DEF Events
  <2> HIDE DEF data
  <2> QED
    BY <1>4, <2>1, CodexFillIs
<1> QED
  BY <1>4, <1>5

\* Every block is stopped.
LEMMA CloseItemsIs ==
  ASSUME NEW strict \in BOOLEAN, NEW E \in Seq(Frame), NEW s, Coding(strict, E, s), NEW v, v = CloseItems(s)
  PROVE  /\ Writes(strict, E, v) /\ Shut(v) /\ Told(v.frames) = {} /\ v.closed /\ Calm(s, v)
         /\ IsFiniteSet(DOMAIN v.kinds)
<1> DEFINE D == DOMAIN s.kinds
           q == SetToSeq(D)
           n == Len(q)
           loop == "close"
           Body(h, k) == IF k = 0 THEN s ELSE CloseItem(h[k - 1], q[k])
           f == CHOOSE h : h = [k \in 0..n |-> Body(h, k)]
           u == f[n]
<1>0. s \in Writer /\ Writes(strict, E, s) /\ CodexBlocks(s) /\ Told(s.frames) = {} /\ ~s.closed
  BY DEF Coding, Writes
<1>1. Lists(D, q)
  BY <1>0, SetToSeqLists DEF CodexBlocks
<1>2. v = [u EXCEPT !.closed = TRUE]
  BY DEF CloseItems
<1> HIDE DEF q
<1>3. f = [k \in 0..n |-> Body(f, k)]
  <2>1. PICK h : IsRun(loop, s, q, h)
    BY <1>1, RunExists DEF Lists
  <2>2. h = [k \in 0..n |-> Body(h, k)]
    BY <2>1 DEF IsRun, Turn
  <2> QED
    BY <2>2
<1> HIDE DEF f
<1>4. f[0] = s /\ \A k \in 1..n : f[k] = CloseItem(f[k - 1], q[k])
  <2>1. n \in Nat
    BY <1>1 DEF Lists
  <2>2. \A k \in 0..n : f[k] = Body(f, k)
    BY <1>3
  <2> QED
    BY <2>1, <2>2
<1> DEFINE Rest(k) == {x \in D : \A j \in 1..k : q[j] # x}
           Good(k) == /\ Writes(strict, E, f[k]) /\ OnlyFrames(s, f[k]) /\ Told(f[k].frames) = {}
                      /\ \A b, l : IsOpen(f[k].frames, b, l) <=> b \in Rest(k) /\ s.kinds[b] = l
           T == {k \in 0..n : Good(k)}
<1>5. Good(0)
  <2>1. OnlyFrames(s, s)
    BY <1>0 DEF OnlyFrames, Writer
  <2>2. Rest(0) = D
    OBVIOUS
  <2> QED
    BY <1>0, <1>4, <2>1, <2>2 DEF CodexBlocks
<1>6. ASSUME NEW k \in 1..n, Good(k - 1) PROVE Good(k)
  <2> DEFINE a == f[k - 1]
             b == q[k]
             kind == s.kinds[b]
             c == f[k]
  <2>1. b \in Rest(k - 1)
    BY <1>1 DEF Lists
  <2>2. Rest(k) = Rest(k - 1) \ {b}
    BY <1>1 DEF Lists
  <2>3. b \in DOMAIN s.kinds
    BY <2>1
  <2>4. a \in Writer /\ Writes(strict, E, a) /\ OnlyFrames(s, a) /\ Told(a.frames) = {}
    BY <1>6 DEF Writes
  <2>5. ~a.closed /\ a.kinds = s.kinds
    BY <1>0, <2>4, OnlyFramesMeans
  <2>6. c = Stop(a, b, kind)
    BY <1>4, <2>5 DEF CloseItem
  <2>7. b \in Nat /\ kind \in Flows
    <3>1. s.kinds \in Maps(Flows)
      BY <1>0 DEF Writer
    <3> QED
      BY <2>3, <3>1, MapsHave
  <2>8. kind \in Kinds \ {"footer"}
    BY <2>7 DEF Kinds, Flows
  <2> HIDE DEF Rest
  <2>9. IsOpen(a.frames, b, kind)
    BY <1>6, <2>1
  <2>10. \A m, l : IsOpen(a.frames, m, l) <=> m \in Rest(k - 1) /\ s.kinds[m] = l
    BY <1>6
  <2> HIDE DEF a, b, kind, c
  <2>11. Stopping(strict, E, a, c, b)
    BY <2>4, <2>6, <2>7, <2>8, <2>9, StopIs
  <2>12. c \in Writer /\ Writes(strict, E, c) /\ OnlyFrames(a, c) /\ Told(c.frames) = {}
    BY <2>4, <2>11 DEF Stopping, Writes
  <2>13. OnlyFrames(s, c)
    BY <1>0, <2>4, <2>12, OnlyFramesTwice
  <2>14. \A m, l : IsOpen(c.frames, m, l) <=> m \in Rest(k) /\ s.kinds[m] = l
    <3> TAKE m, l
    <3>1. IsOpen(c.frames, m, l) <=> IsOpen(a.frames, m, l) /\ m # b
      BY <2>11 DEF Stopping
    <3> QED
      BY <2>2, <2>10, <3>1
  <2> QED
    BY <2>12, <2>13, <2>14 DEF c
<1>7. Good(n)
  <2> HIDE DEF Good
  <2>1. n \in Nat
    BY <1>1 DEF Lists
  <2>2. 0 \in T /\ \A k \in 1..n : k - 1 \in T => k \in T
    BY <1>5, <1>6, <2>1
  <2> HIDE DEF T
  <2>3. n \in T
    BY <2>1, <2>2, RunReaches
  <2> QED
    BY <2>3 DEF T
<1>8. Rest(n) = {}
  BY <1>1 DEF Lists
<1>9. u \in Writer /\ Writes(strict, E, u) /\ OnlyFrames(s, u) /\ Told(u.frames) = {} /\ Shut(u)
  BY <1>7, <1>8 DEF Shut, Writes
<1> HIDE DEF u
<1>10. u.kinds = s.kinds /\ Calm(s, u)
  BY <1>0, <1>9, OnlyFramesMeans
<1>11. v \in Writer /\ v.frames = u.frames /\ v.closed /\ v.kinds = u.kinds /\ Calm(u, v)
  BY <1>2, <1>9 DEF Writer, Calm
<1> QED
  BY <1>0, <1>9, <1>10, <1>11 DEF Writes, Shut, Calm, CodexBlocks

\* A closed writer stops nothing.
LEMMA CloseItemsClosed ==
  ASSUME NEW s \in Writer, s.closed, IsFiniteSet(DOMAIN s.kinds)
  PROVE  CloseItems(s) = s
<1> DEFINE D == DOMAIN s.kinds
           q == SetToSeq(D)
           n == Len(q)
           loop == "close"
           Body(h, k) == IF k = 0 THEN s ELSE CloseItem(h[k - 1], q[k])
           f == CHOOSE h : h = [k \in 0..n |-> Body(h, k)]
           T == {k \in 0..n : f[k] = s}
<1>1. Lists(D, q)
  BY SetToSeqLists
<1>2. CloseItems(s) = [f[n] EXCEPT !.closed = TRUE]
  BY DEF CloseItems
<1> HIDE DEF q
<1>3. f = [k \in 0..n |-> Body(f, k)]
  <2>1. PICK h : IsRun(loop, s, q, h)
    BY <1>1, RunExists DEF Lists
  <2>2. h = [k \in 0..n |-> Body(h, k)]
    BY <2>1 DEF IsRun, Turn
  <2> QED
    BY <2>2
<1> HIDE DEF f
<1>4. n \in Nat
  BY <1>1 DEF Lists
<1>5. \A k \in 0..n : f[k] = Body(f, k)
  BY <1>3
<1>6. 0 \in T /\ \A k \in 1..n : k - 1 \in T => k \in T
  BY <1>4, <1>5 DEF CloseItem
<1> HIDE DEF T
<1>7. n \in T
  BY <1>4, <1>6, RunReaches
<1>8. f[n] = s
  BY <1>7 DEF T
<1> QED
  BY <1>2, <1>8 DEF Writer

\* A complete answer of this client.
Closing(strict, E, s) ==
  /\ Over(strict, E, s) /\ LastOf(s.frames) = "end" /\ s.closed
  /\ Told(s.frames) = {} /\ IsFiniteSet(DOMAIN s.kinds)

LEMMA CodexCompletedIs ==
  ASSUME NEW strict \in BOOLEAN, NEW E \in Seq(Frame), NEW s, Coding(strict, E, s), NEW v, v = CodexCompleted(s)
  PROVE  Closing(strict, E, v) \/ (Stuck(strict, E, v) /\ v.closed)
<1> DEFINE u == CloseItems(s)
           o == Terminal(u)
<1>1. v = IF o.err = "none" THEN Say(o, "end", "message") ELSE o
  BY DEF CodexCompleted, Then, Coding
<1>2. u = CloseItems(s) /\ o = Terminal(u)
  OBVIOUS
<1> HIDE DEF u, o
<1>3. /\ Writes(strict, E, u) /\ Shut(u) /\ Told(u.frames) = {} /\ u.closed /\ u \in Writer
      /\ IsFiniteSet(DOMAIN u.kinds)
  BY <1>2, CloseItemsIs DEF Writes
<1>4. o \in Writer /\ OnlyLife(u, o)
  BY <1>2, <1>3, TerminalIs
<1>5. o.frames = u.frames /\ o.closed /\ o.kinds = u.kinds
  BY <1>3, <1>4, OnlyLifeMeans
<1>6. Writes(strict, E, o) /\ Shut(o) /\ Told(o.frames) = {}
  BY <1>3, <1>4, <1>5 DEF Writes, Shut
<1>7. CASE o.err # "none"
  BY <1>1, <1>5, <1>6, <1>7 DEF Stuck
<1>8. CASE o.err = "none"
  <2>1. v = Say(o, "end", "message")
    BY <1>1, <1>8
  <2>2. strict => \A b, k : ~IsOpen(o.frames, b, k)
    BY <1>6 DEF Shut
  <2>3. Over(strict, E, v) /\ OnlyFrames(o, v) /\ LastOf(v.frames) = "end" /\ Told(v.frames) = Told(o.frames)
    BY <1>6, <2>1, <2>2, LastIs
  <2>4. v.closed /\ v.kinds = o.kinds
    BY <1>4, <1>5, <2>3, OnlyFramesMeans
  <2> QED
    BY <1>3, <1>5, <1>6, <2>3, <2>4 DEF Closing
<1> QED
  BY <1>7, <1>8

\* An event of the upstream.
LEMMA CodexEventIs ==
  ASSUME NEW strict \in BOOLEAN, NEW E \in Seq(Frame), NEW s, Coding(strict, E, s),
         NEW e \in Events, e.kind \in {"text", "call", "finish", "done"}, e.kind = "call" => e.slot # 0,
         NEW v, v = CodexEvent(s, e)
  PROVE  \/ Coding(strict, E, v)
         \/ Stuck(strict, E, v) /\ v.closed
         \/ Closing(strict, E, v) /\ e.kind \in {"finish", "done"}
<1>1. CASE e.kind = "text"
  <2> DEFINE key == 0
             kind == "text"
             u == OpenItem(s, key, kind)
             o == Output(u, u.items[key])
  <2>1. v = o \/ v = Delta(o, o.items[key], kind, <<e.id>>)
    BY <1>1 DEF CodexEvent, CodexText, Then
  <2>2. key \in Nat /\ kind = IF key = 0 THEN "text" ELSE "tool"
    OBVIOUS
  <2>3. u = OpenItem(s, key, kind) /\ o = Output(u, u.items[key])
    OBVIOUS
  <2> HIDE DEF key, kind, u, o
  <2> QED
    BY <2>1, <2>2, <2>3, CodexPieceIs
<1>2. CASE e.kind = "call"
  <2> DEFINE key == e.slot
             kind == "tool"
             u == OpenItem(s, key, kind)
             o == Output(u, u.items[key])
  <2>1. v = o \/ v = Delta(o, o.items[key], kind, <<e.id>>)
    BY <1>2 DEF CodexEvent, CodexCall, Then
  <2>2. key \in Nat /\ kind = IF key = 0 THEN "text" ELSE "tool"
    BY <1>2 DEF Events
  <2>3. u = OpenItem(s, key, kind) /\ o = Output(u, u.items[key])
    OBVIOUS
  <2> HIDE DEF key, kind, u, o
  <2> QED
    BY <2>1, <2>2, <2>3, CodexPieceIs
<1>3. CASE e.kind \in {"finish", "done"}
  <2>1. v = CodexCompleted(s) \/ v = s
    BY <1>3 DEF CodexEvent
  <2> QED
    BY <1>3, <2>1, CodexCompletedIs
<1> QED
  BY <1>1, <1>2, <1>3

LEMMA CodexOver ==
  ASSUME NEW strict, NEW E, NEW s, Closing(strict, E, s), NEW e, e.kind = "done"
  PROVE  CodexEvent(s, e) = s
<1>1. s \in Writer /\ s.closed /\ IsFiniteSet(DOMAIN s.kinds)
  BY DEF Closing, Over
<1>2. CodexCompleted(s) = s
  BY <1>1, CloseItemsClosed DEF CodexCompleted
<1> QED
  BY <1>2 DEF CodexEvent

\* The end of the call, or of a refused one.
LEMMA CodexFinalizeIs ==
  ASSUME NEW strict \in BOOLEAN, NEW E \in Seq(Frame), NEW s, Coding(strict, E, s), NEW v, v = CodexFinalize(s)
  PROVE  Writes(strict, E, v) \/ (Over(strict, E, v) /\ LastOf(v.frames) = "error")
<1> DEFINE b == Fail(s)
           u == CloseItems(b)
           w == ErrorFrame(u)
           x == IF w.err = "none" THEN EOF(s) ELSE w.err
<1>1. CASE v = s
  BY <1>1 DEF Coding
<1>2. CASE v = [w EXCEPT !.err = x]
  <2>1. b = Fail(s) /\ u = CloseItems(b) /\ w = ErrorFrame(u)
    OBVIOUS
  <2>2. EOF(s) \in Errors
    BY DEF EOF, Errors
  <2> HIDE DEF b, u, w
  <2>3. b \in Writer /\ OnlyLife(s, b)
    BY <2>1, FailIs DEF Coding, Writes
  <2>4. Coding(strict, E, b)
    BY <2>3, CodexLife
  <2>5. Writes(strict, E, u)
    BY <2>1, <2>4, CloseItemsIs
  <2>6. Over(strict, E, w) /\ LastOf(w.frames) = "error" /\ w \in Writer
    BY <2>1, <2>5, ErrorFrameIs DEF Over
  <2>7. x \in Errors
    BY <2>2, <2>6 DEF Writer
  <2> HIDE DEF x
  <2>8. v \in Writer /\ v.frames = w.frames
    BY <1>2, <2>6, <2>7 DEF Writer
  <2> QED
    BY <2>6, <2>8 DEF Over
<1>3. v = s \/ v = [w EXCEPT !.err = x]
  BY DEF CodexFinalize, CodexFailed
<1> QED
  BY <1>1, <1>2, <1>3

-----------------------------------------------------------------------------
(* The chat client.  It has no frame that stops a block; calls are numbered *)
(* as they are opened, and only the last may be filled.                    *)

\* The message begins.
LEMMA BeginIs ==
  ASSUME NEW strict \in BOOLEAN, NEW E \in Seq(Frame), NEW s \in Writer, s.frames = <<>>, Grows(E, s.frames),
         NEW v, v = Say(s, "start", "message")
  PROVE  /\ Writes(strict, E, v) /\ OnlyFrames(s, v) /\ v.next = s.next
         /\ Count(v.frames) = 0 /\ Told(v.frames) = {} /\ ~Called(v.frames)
         /\ \A b, k : ~IsOpen(v.frames, b, k)
BY StartFrameIs

\* A finish reason is told.
Saying(strict, E, s, u, kind) ==
  /\ Writes(strict, E, u) /\ OnlyFrames(s, u) /\ u.next = s.next
  /\ Count(u.frames) = Count(s.frames) /\ AsOpen(s.frames, u.frames)
  /\ Told(u.frames) = Told(s.frames) \cup {kind}
  /\ Called(u.frames) <=> Called(s.frames)

LEMMA SayingIs ==
  ASSUME NEW strict \in BOOLEAN, NEW E \in Seq(Frame), NEW s, Writes(strict, E, s), NEW kind \in Kinds,
         NEW v, v = Say(s, "finish", kind)
  PROVE  Saying(strict, E, s, v, kind)
BY FinishIs DEF Saying

LEMMA FinishNames ==
  ASSUME NEW body
  PROVE  FinishName(body) \in Kinds /\ (FinishName(body) = "tool_use" <=> body = "tool_calls")
BY DEF FinishName, Kinds

NativeBooks(strict, E, s) ==
  /\ Writes(strict, E, s)
  /\ Count(s.frames) = IF s.flow = "tool" THEN s.calls + 1 ELSE s.calls
  /\ s.flow = "tool" => IsOpen(s.frames, s.calls, "tool")

LEMMA NativeKeeps ==
  ASSUME NEW strict, NEW E, NEW s, NativeBooks(strict, E, s), NEW u \in Writer,
         u.frames = s.frames, u.calls = s.calls, u.flow = s.flow
  PROVE  NativeBooks(strict, E, u)
BY DEF NativeBooks, Writes

LEMMA NativeFrames ==
  ASSUME NEW strict, NEW E, NEW s, NativeBooks(strict, E, s), NEW u, Writes(strict, E, u), OnlyFrames(s, u),
         Count(u.frames) = Count(s.frames), AsOpen(s.frames, u.frames)
  PROVE  NativeBooks(strict, E, u) /\ u.err = s.err
<1>1. s \in Writer
  BY DEF NativeBooks, Writes
<1>2. u.calls = s.calls /\ u.flow = s.flow /\ u.err = s.err
  BY <1>1, OnlyFramesMeans DEF Calm
<1> QED
  BY <1>2 DEF NativeBooks, AsOpen

\* Output is refused, or all else is as before.
LEMMA NativeOutputIs ==
  ASSUME NEW strict, NEW E, NEW s, NativeBooks(strict, E, s), NEW u, u = Output(s, 0)
  PROVE  u \in Writer /\ NativeBooks(strict, E, u) /\ u.calls = s.calls /\ u.flow = s.flow /\ u.finish = s.finish
<1>1. s \in Writer
  BY DEF NativeBooks, Writes
<1>2. u \in Writer /\ OnlyLife(s, u)
  BY <1>1, OutputIs
<1> QED
  BY <1>1, <1>2, OnlyLifeMeans, NativeKeeps

NativeStep(strict, E, e, v) ==
  \/ Stuck(strict, E, v)
  \/ NativeBooks(strict, E, v) /\ v.err = "none" /\ e.kind # "done"
  \/ /\ Over(strict, E, v) /\ LastOf(v.frames) = "end" /\ v.life = "terminal" /\ v.err = "none"
     /\ e.kind = "done"

LEMMA NativeOpenIs ==
  ASSUME NEW strict \in BOOLEAN, NEW E \in Seq(Frame), NEW s, NativeBooks(strict, E, s), s.err = "none",
         NEW e \in Events, e.kind = "open", s.flow = "none", e.body \in Flows, NEW v, v = NativeEvent(s, e)
  PROVE  NativeStep(strict, E, e, v)
<1> DEFINE u == [s EXCEPT !.flow = e.body]
           o == Output(u, 0)
           kind == "tool"
           data == <<>>
<1>1. s \in Writer /\ Writes(strict, E, s) /\ Count(s.frames) = s.calls /\ s.calls \in Nat
  BY DEF NativeBooks, Writes, Writer
<1>2. v = IF e.body = kind THEN IF o.err = "none" THEN Emit(o, "open", o.calls, kind, data) ELSE o ELSE u
  BY DEF NativeEvent, NativeOutput, Then
<1>3. u \in Writer /\ u.flow = e.body /\ u.frames = s.frames /\ u.calls = s.calls /\ u.err = s.err
  BY <1>1 DEF Writer
<1>4. o = Output(u, 0)
  OBVIOUS
<1>5. kind = "tool" /\ kind \in Kinds /\ kind \in {"tool", "nudge"} /\ data \in Seq(Nat)
  BY EmptySeq DEF Kinds
<1> HIDE DEF u, o, kind, data
<1>6. CASE e.body # kind
  BY <1>1, <1>2, <1>3, <1>5, <1>6 DEF NativeStep, NativeBooks, Writes
<1>7. CASE e.body = kind
  <2>1. o \in Writer /\ OnlyLife(u, o)
    BY <1>3, <1>4, OutputIs
  <2>2. o.frames = s.frames /\ o.calls = s.calls /\ o.flow = kind
    BY <1>3, <1>7, <2>1, OnlyLifeMeans
  <2>3. Writes(strict, E, o) /\ Count(o.frames) = o.calls /\ o.calls \in Nat
    BY <1>1, <2>1, <2>2 DEF Writes
  <2>4. CASE o.err # "none"
    <3>1. v = o
      BY <1>2, <1>7, <2>4
    <3> QED
      BY <2>3, <2>4, <3>1 DEF NativeStep, Stuck
  <2>5. CASE o.err = "none"
    <3> DEFINE block == o.calls
    <3>1. v = Emit(o, "open", block, kind, data) /\ block \in Nat /\ Count(o.frames) = block
      BY <1>2, <1>7, <2>3, <2>5
    <3> HIDE DEF block
    <3>2. Opening(strict, E, o, v, block, kind)
      BY <1>5, <2>3, <3>1, OpensAt
    <3>3. Writes(strict, E, v) /\ OnlyFrames(o, v)
      BY <3>2 DEF Opening
    <3>4. v.calls = o.calls /\ v.flow = kind /\ v.err = "none"
      BY <2>1, <2>2, <2>5, <3>3, OnlyFramesMeans DEF Calm
    <3>5. Count(v.frames) = v.calls + 1 /\ IsOpen(v.frames, v.calls, kind)
      BY <3>2, <3>4 DEF Opening, block
    <3>6. NativeBooks(strict, E, v)
      BY <1>5, <3>3, <3>4, <3>5 DEF NativeBooks
    <3> QED
      BY <3>4, <3>6 DEF NativeStep
  <2> QED
    BY <2>4, <2>5
<1> QED
  BY <1>6, <1>7

LEMMA NativeDeltaIs ==
  ASSUME NEW strict \in BOOLEAN, ~strict, NEW E \in Seq(Frame), NEW s, NativeBooks(strict, E, s), s.err = "none",
         NEW e \in Events, e.kind = "delta", e.body = s.flow, e.body \in Flows, NEW v, v = NativeEvent(s, e)
  PROVE  NativeStep(strict, E, e, v)
<1> DEFINE o == Output(s, 0)
           data == <<e.id>>
           block == IF e.body = "tool" THEN o.calls ELSE 0
           kind == e.body
<1>0. o = Output(s, 0)
  OBVIOUS
<1>1. s \in Writer /\ data \in Seq(Nat) /\ kind = e.body
  BY DEF NativeBooks, Writes, Events
<1>2. v = s \/ v = IF o.err = "none" THEN Delta(o, block, kind, data) ELSE o
  BY DEF NativeEvent, NativeOutput, Then, Flows
<1>3. kind \in Kinds
  BY DEF Kinds, Flows
<1> HIDE DEF o, data, kind
<1>4. o \in Writer /\ NativeBooks(strict, E, o) /\ o.calls = s.calls /\ o.flow = s.flow
  BY <1>0, NativeOutputIs
<1>5. CASE v = s
  BY <1>5 DEF NativeStep
<1>6. CASE v = o /\ o.err # "none"
  BY <1>4, <1>6 DEF NativeStep, Stuck, NativeBooks
<1>7. CASE v = Delta(o, block, kind, data) /\ o.err = "none"
  <2>1. block \in Nat /\ (kind = "tool" => IsOpen(o.frames, block, kind))
    BY <1>1, <1>4 DEF Writer, NativeBooks
  <2>2. v = Delta(o, block, kind, data) /\ Writes(strict, E, o)
    BY <1>4, <1>7 DEF NativeBooks
  <2>3. strict \/ kind = "tool" => \E k \in Holds(kind) : IsOpen(o.frames, block, k)
    BY <2>1 DEF Holds
  <2> HIDE DEF block
  <2>4. Filling(strict, E, o, v)
    BY <1>1, <1>3, <2>1, <2>2, <2>3, DeltaIs
  <2>5. NativeBooks(strict, E, v) /\ v.err = o.err
    BY <1>4, <2>4, NativeFrames DEF Filling, Same
  <2> QED
    BY <1>7, <2>5 DEF NativeStep
<1> QED
  BY <1>2, <1>5, <1>6, <1>7

LEMMA NativeEventIs ==
  ASSUME NEW strict \in BOOLEAN, ~strict, NEW E \in Seq(Frame), NEW s, NativeBooks(strict, E, s), s.err = "none",
         NEW e \in Events, e.kind \in {"open", "delta", "stop", "finish", "done"},
         e.kind = "open" => s.flow = "none" /\ e.body \in Flows,
         e.kind = "delta" => e.body = s.flow /\ e.body \in Flows,
         NEW v, v = NativeEvent(s, e)
  PROVE  NativeStep(strict, E, e, v)
<1>1. s \in Writer /\ s.calls \in Nat /\ s.life \in Lives
  BY DEF NativeBooks, Writes, Writer
<1>2. CASE e.kind = "open"
  BY <1>2, NativeOpenIs
<1>3. CASE e.kind = "delta"
  BY <1>3, NativeDeltaIs
<1>4. CASE e.kind = "stop"
  <2> DEFINE m == IF s.flow = "tool" THEN s.calls + 1 ELSE s.calls
  <2>1. v = [s EXCEPT !.calls = m, !.flow = "none"] /\ m \in Nat /\ Count(s.frames) = m
    BY <1>1, <1>4 DEF NativeEvent, NativeBooks
  <2> HIDE DEF m
  <2>2. v \in Writer /\ v.frames = s.frames /\ v.calls = m /\ v.flow = "none" /\ v.err = s.err
    BY <1>1, <2>1 DEF Writer
  <2>3. NativeBooks(strict, E, v)
    BY <2>1, <2>2 DEF NativeBooks, Writes
  <2> QED
    BY <1>4, <2>2, <2>3 DEF NativeStep
<1>5. CASE e.kind = "finish"
  <2> DEFINE o == Output(s, 0)
             b == [o EXCEPT !.finish = e.body]
             kind == FinishName(e.body)
  <2>1. v = IF o.err = "none" THEN Say(b, "finish", kind) ELSE o
    BY <1>5 DEF NativeEvent, NativeOutput, Then
  <2>2. o = Output(s, 0) /\ kind \in Kinds
    BY FinishNames
  <2>3. e.body \in {"none", "stop", "tool_calls", "length"}
    BY <1>5 DEF Events
  <2> HIDE DEF o, kind
  <2>4. o \in Writer /\ NativeBooks(strict, E, o)
    BY <2>2, NativeOutputIs
  <2>5. b \in Writer /\ b.frames = o.frames /\ b.calls = o.calls /\ b.flow = o.flow /\ b.err = o.err
    BY <2>3, <2>4 DEF Writer
  <2> HIDE DEF b
  <2>6. NativeBooks(strict, E, b) /\ Writes(strict, E, b)
    BY <2>4, <2>5, NativeKeeps DEF NativeBooks
  <2>7. CASE o.err # "none"
    BY <2>1, <2>4, <2>7 DEF NativeStep, Stuck, NativeBooks
  <2>8. CASE o.err = "none"
    <3>1. v = Say(b, "finish", kind)
      BY <2>1, <2>8
    <3>2. Saying(strict, E, b, v, kind)
      BY <2>2, <2>6, <3>1, SayingIs
    <3>3. NativeBooks(strict, E, v) /\ v.err = b.err
      BY <2>6, <3>2, NativeFrames DEF Saying
    <3> QED
      BY <1>5, <2>5, <2>8, <3>3 DEF NativeStep
  <2> QED
    BY <2>7, <2>8
<1>6. CASE e.kind = "done"
  <2> DEFINE b == IF s.life = "idle" THEN Start(s) ELSE s
             o == Terminal(b)
  <2>1. v = IF o.err = "none" THEN Say(o, "end", "message") ELSE o
    BY <1>6 DEF NativeEvent, Then
  <2>2. b \in Writer /\ OnlyLife(s, b)
    <3>1. OnlyLife(s, s)
      BY <1>1 DEF OnlyLife, Writer
    <3> QED
      BY <1>1, <3>1, StartIs
  <2>3. o = Terminal(b)
    OBVIOUS
  <2> HIDE DEF b, o
  <2>4. o \in Writer /\ OnlyLife(b, o) /\ (o.err = "none" => o.life = "terminal")
    <3>1. (b.life = "started" => o.life = "terminal") /\ (b.life # "started" => o.err = "order")
      BY <2>2, <2>3, TerminalIs
    <3> QED
      BY <2>2, <2>3, <3>1, TerminalIs
  <2>5. o.frames = s.frames
    BY <1>1, <2>2, <2>4, OnlyLifeMeans
  <2>6. Writes(strict, E, o)
    BY <2>4, <2>5 DEF NativeBooks, Writes
  <2>7. CASE o.err # "none"
    BY <2>1, <2>6, <2>7 DEF NativeStep, Stuck
  <2>8. CASE o.err = "none"
    <3>1. v = Say(o, "end", "message")
      BY <2>1, <2>8
    <3>2. Over(strict, E, v) /\ OnlyFrames(o, v) /\ LastOf(v.frames) = "end"
      BY <2>6, <3>1, LastIs
    <3>3. v.life = "terminal" /\ v.err = "none"
      BY <2>4, <2>8, <3>2, OnlyFramesMeans DEF Calm
    <3> QED
      BY <1>6, <3>2, <3>3 DEF NativeStep
  <2> QED
    BY <2>7, <2>8
<1> QED
  BY <1>2, <1>3, <1>4, <1>5, <1>6

\* The first event.
LEMMA NativeBeginIs ==
  ASSUME NEW strict \in BOOLEAN, NEW E \in Seq(Frame), NEW s, s = Fresh, Grows(E, <<>>),
         NEW e, e.kind = "begin", NEW v, v = NativeEvent(s, e)
  PROVE  NativeBooks(strict, E, v) /\ v.err = "none" /\ v.flow = "none"
<1> DEFINE b == Start(s)
           o == Output(b, 0)
<1>1. /\ s \in Writer /\ s.life = "idle" /\ s.err = "none" /\ s.frames = <<>>
      /\ s.flow = "none" /\ s.calls = 0 /\ ~s.output
  BY FreshIs
<1>2. v = IF o.err = "none" THEN Say(o, "start", "message") ELSE o
  BY DEF NativeEvent, NativeOutput, Then
<1>3. b = [s EXCEPT !.life = "started"] /\ o = Output(b, 0)
  BY <1>1 DEF Start
<1> HIDE DEF b, o
<1>4. /\ b \in Writer /\ b.err = "none" /\ b.frames = <<>>
      /\ b.flow = "none" /\ b.calls = 0 /\ b.life = "started" /\ ~b.output
  BY <1>1, <1>3 DEF Writer, Lives
<1>5. o = [b EXCEPT !.last = 0, !.output = TRUE]
  BY <1>3, <1>4 DEF Output
<1>6. o \in Writer /\ o.err = "none" /\ o.frames = <<>> /\ o.flow = "none" /\ o.calls = 0
  BY <1>4, <1>5 DEF Writer
<1>7. v = Say(o, "start", "message")
  BY <1>2, <1>6
<1>8. Writes(strict, E, v) /\ OnlyFrames(o, v) /\ Count(v.frames) = 0
  BY <1>6, <1>7, BeginIs
<1>9. v.err = "none" /\ v.flow = "none" /\ v.calls = 0
  BY <1>6, <1>8, OnlyFramesMeans DEF Calm
<1> QED
  BY <1>8, <1>9 DEF NativeBooks

\* The end of the call: an error unless the message has ended.
LEMMA ChatClientFinalizeIs ==
  ASSUME NEW strict \in BOOLEAN, NEW E \in Seq(Frame), NEW s, Writes(strict, E, s),
         NEW v, v = ChatClientFinalize(s)
  PROVE  Writes(strict, E, v) \/ (Over(strict, E, v) /\ LastOf(v.frames) = "error")
<1> DEFINE b == Fail(s)
           w == IF s.output THEN Say(b, "error", "message") ELSE s
<1>1. s \in Writer /\ EOF(s) \in Errors
  BY DEF Writes, EOF, Errors
<1>2. v = s \/ v = [w EXCEPT !.err = EOF(s)]
  BY DEF ChatClientFinalize
<1>3. b \in Writer /\ OnlyLife(s, b)
  BY <1>1, FailIs
<1>4. Writes(strict, E, b)
  BY <1>1, <1>3, OnlyLifeMeans DEF Writes
<1> HIDE DEF b
<1>5. w \in Writer /\ (Writes(strict, E, w) \/ (Over(strict, E, w) /\ LastOf(w.frames) = "error"))
  <2>1. CASE s.output
    <3>1. w = Say(b, "error", "message")
      BY <2>1
    <3> HIDE DEF w
    <3> QED
      BY <1>4, <3>1, LastIs DEF Over
  <2>2. CASE ~s.output
    BY <1>1, <2>2
  <2> QED
    BY <2>1, <2>2
<1> HIDE DEF w
<1>6. CASE v = [w EXCEPT !.err = EOF(s)]
  <2>1. v \in Writer /\ v.frames = w.frames
    BY <1>1, <1>5, <1>6 DEF Writer
  <2> QED
    BY <1>5, <2>1 DEF Writes, Over
<1> QED
  BY <1>2, <1>6

\* The Gemini translator takes parts until one of them finishes the answer.
Accepting(s) ==
  /\ s \in Writer /\ s.err = "none"
  /\ s.started <=> s.output
  /\ ~s.started => s = Fresh
  /\ s.closed => s.started /\ s.life # "started"

Accepted(s, e, u) ==
  /\ Accepting(u) /\ u.started /\ ~s.closed
  /\ u.closed <=> e.kind = "finish"
  /\ u.calls = IF e.kind = "call" THEN s.calls + 1 ELSE s.calls

GeminiKinds == {"text", "call", "finish"}

LEMMA GeminiAcceptsIs ==
  ASSUME NEW s, Accepting(s), NEW e, e.kind \in GeminiKinds, NEW u, u = GeminiAccepts(s, e)
  PROVE  u.err # "none" \/ Accepted(s, e, u)
<1> DEFINE a == [s EXCEPT !.started = TRUE]
           c == Start(a)
           b == IF s.started THEN s ELSE Output(c, 0)
           m == Terminal(b)
           o == Output(b, 0)
<1>1. s \in Writer /\ s.err = "none" /\ s.calls \in Nat
  BY DEF Accepting, Writer
<1>2. /\ e.kind = "finish" => u = IF m.err = "none" THEN [m EXCEPT !.closed = TRUE] ELSE m
      /\ e.kind = "call" => u = [o EXCEPT !.calls = o.calls + 1]
      /\ e.kind = "text" => u = o
  BY DEF GeminiAccepts, Then
<1>3. m = Terminal(b) /\ o = Output(b, 0)
  OBVIOUS
<1>4. /\ b \in Writer /\ b.started /\ b.output /\ b.err = "none" /\ b.closed = s.closed /\ b.calls = s.calls
      /\ b.closed => b.life # "started"
  <2>1. CASE s.started
    BY <1>1, <2>1 DEF Accepting
  <2>2. CASE ~s.started
    <3>0. s.life = "idle" /\ ~s.output /\ ~s.closed
      BY <2>2, FreshIs DEF Accepting
    <3>1. /\ a \in Writer /\ a.life = "idle" /\ a.err = "none" /\ ~a.output /\ a.started /\ ~a.closed
          /\ a.calls = s.calls
      BY <1>1, <3>0 DEF Writer
    <3>2. b = Output(c, 0) /\ c = Start(a)
      BY <2>2
    <3> HIDE DEF a, b, c
    <3>3. c = [a EXCEPT !.life = "started"]
      BY <3>1, <3>2 DEF Start
    <3>4. /\ c \in Writer /\ c.life = "started" /\ c.err = "none" /\ ~c.output /\ c.started /\ ~c.closed
          /\ c.calls = s.calls
      BY <3>1, <3>3 DEF Writer, Lives
    <3>5. b = [c EXCEPT !.last = 0, !.output = TRUE]
      BY <3>2, <3>4 DEF Output
    <3>6. /\ b \in Writer /\ b.started /\ b.output /\ b.err = "none" /\ ~b.closed /\ b.calls = s.calls
          /\ b.life = "started"
      BY <3>4, <3>5 DEF Writer
    <3> QED
      BY <1>1, <3>0, <3>6 DEF Writer
  <2> QED
    BY <2>1, <2>2
<1> HIDE DEF a, b, c, m, o
<1>5. CASE e.kind = "finish"
  <2>1. m \in Writer /\ OnlyLife(b, m)
    BY <1>3, <1>4, TerminalIs
  <2>2. (b.life = "started" => m.life = "terminal") /\ (b.life # "started" => m.err = "order") /\ m.output = b.output
    BY <1>3, <1>4, TerminalIs
  <2>3. m.started /\ m.calls = s.calls
    BY <1>4, <2>1, OnlyLifeMeans
  <2>4. CASE m.err # "none"
    BY <1>2, <1>5, <2>4
  <2>5. CASE m.err = "none"
    <3>1. u = [m EXCEPT !.closed = TRUE] /\ b.life = "started" /\ m.life = "terminal" /\ m.output
      BY <1>2, <1>4, <1>5, <2>2, <2>5
    <3>2. /\ u \in Writer /\ u.closed /\ u.started /\ u.output /\ u.life = "terminal" /\ u.err = "none"
          /\ u.calls = s.calls
      BY <2>1, <2>3, <2>5, <3>1 DEF Writer
    <3>3. Accepting(u)
      BY <3>2 DEF Accepting
    <3> QED
      BY <1>4, <1>5, <3>1, <3>2, <3>3 DEF Accepted
  <2> QED
    BY <2>4, <2>5
<1>6. CASE e.kind # "finish"
  <2>1. o \in Writer /\ OnlyLife(b, o)
    BY <1>3, <1>4, OutputIs
  <2>2. /\ o.life = b.life /\ (b.life # "started" => o.err = "order") /\ (o.err = "order" \/ o.output)
    BY <1>3, <1>4, OutputIs
  <2>3. o.started /\ o.calls = s.calls /\ o.closed = s.closed
    BY <1>4, <2>1, OnlyLifeMeans
  <2> DEFINE k == IF e.kind = "call" THEN s.calls + 1 ELSE s.calls
  <2>4. k \in Nat
    BY <1>1
  <2>5. u = [o EXCEPT !.calls = k]
    <3>1. e.kind = "text" \/ e.kind = "call"
      BY <1>6 DEF GeminiKinds
    <3> QED
      BY <1>2, <2>1, <2>3, <3>1 DEF Writer
  <2> HIDE DEF k
  <2>6. /\ u \in Writer /\ u.started = o.started /\ u.output = o.output /\ u.closed = o.closed /\ u.life = o.life
        /\ u.err = o.err /\ u.calls = k
    BY <2>1, <2>4, <2>5 DEF Writer
  <2>7. CASE u.err = "none"
    <3>1. b.life = "started" /\ ~s.closed /\ u.output
      BY <1>4, <2>2, <2>6, <2>7
    <3>2. Accepting(u)
      BY <2>3, <2>6, <2>7, <3>1 DEF Accepting
    <3> QED
      BY <1>6, <2>3, <2>6, <3>1, <3>2 DEF Accepted, k
  <2> QED
    BY <2>7
<1> QED
  BY <1>5, <1>6

\* Before the answer finishes, each call that was accepted has its block.
CountedCalls(strict, E, s, n) ==
  Writes(strict, E, s) /\ Count(s.frames) = n /\ Told(s.frames) = {} /\ (Called(s.frames) <=> n > 0)

LEMMA ToChatClientIs ==
  ASSUME NEW strict \in BOOLEAN, ~strict, NEW E \in Seq(Frame), NEW s \in Writer, NEW n \in Nat,
         \/ s.frames = <<>> /\ n = 0 /\ Grows(E, s.frames)
         \/ CountedCalls(strict, E, s, n),
         NEW e \in Events, e.kind \in GeminiKinds, NEW r, r.calls = n,
         NEW v, v = ToChatClient(s, e, GeminiChunks(r, e))
  PROVE  /\ v.err = s.err
         /\ \/ e.kind # "finish" /\ CountedCalls(strict, E, v, IF e.kind = "call" THEN n + 1 ELSE n)
            \/ e.kind = "finish" /\ Over(strict, E, v) /\ LastOf(v.frames) = "end" /\ Tells(v.frames)
<1> DEFINE b == IF s.frames = <<>> THEN Say(s, "start", "message") ELSE s
           data == <<e.id>>
           none == <<>>
<1>1. CountedCalls(strict, E, b, n) /\ b.err = s.err
  <2>1. CASE s.frames = <<>>
    <3>1. b = Say(s, "start", "message") /\ n = 0 /\ Grows(E, s.frames)
      BY <2>1 DEF CountedCalls, Writes
    <3> HIDE DEF b
    <3>2. /\ Writes(strict, E, b) /\ Count(b.frames) = 0 /\ Told(b.frames) = {} /\ ~Called(b.frames)
          /\ OnlyFrames(s, b)
      BY <2>1, <3>1, BeginIs
    <3>3. b.err = s.err
      BY <3>2, OnlyFramesMeans DEF Calm
    <3> QED
      BY <3>1, <3>2, <3>3 DEF CountedCalls
  <2>2. CASE s.frames # <<>>
    BY <2>2
  <2> QED
    BY <2>1, <2>2
<1>2. b \in Writer /\ Writes(strict, E, b) /\ data \in Seq(Nat) /\ none \in Seq(Nat)
  BY <1>1, EmptySeq DEF CountedCalls, Writes, Events
<1>3. v = IF Len(GeminiChunks(r, e)) = 1 THEN ChatFrame(b, GeminiChunks(r, e)[1])
          ELSE ChatFrame(ChatFrame(b, GeminiChunks(r, e)[1]), GeminiChunks(r, e)[2])
  BY DEF ToChatClient
<1> HIDE DEF b, none
<1>4. CASE e.kind = "text"
  <2> DEFINE kind == "text"
             z == 0
  <2>1. v = Delta(b, z, kind, data)
    <3>1. GeminiChunks(r, e) = <<e>>
      BY <1>4 DEF GeminiChunks
    <3> QED
      BY <1>3, <1>4, <3>1 DEF ChatFrame
  <2>2. z \in Nat /\ kind \in Kinds /\ kind # "tool"
    BY DEF Kinds
  <2> HIDE DEF kind, data, z
  <2>3. Filling(strict, E, b, v)
    BY <1>2, <2>1, <2>2, DeltaIs
  <2>4. v.err = b.err
    BY <1>2, <2>3, OnlyFramesMeans DEF Filling, Calm
  <2> QED
    BY <1>1, <1>4, <2>3, <2>4 DEF Filling, Same, CountedCalls
<1>5. CASE e.kind = "call"
  <2> DEFINE kind == "tool"
             o == Emit(b, "open", n, kind, none)
             x == [e EXCEPT !.slot = n]
  <2>1. v = Delta(o, n, kind, data)
    <3>1. GeminiChunks(r, e) = <<x>>
      BY <1>5 DEF GeminiChunks
    <3>2. x.kind = "call" /\ x.slot = n /\ x.id = e.id
      BY <1>5 DEF Events
    <3> HIDE DEF x
    <3>3. v = ChatFrame(b, x)
      BY <1>3, <3>1
    <3> QED
      BY <3>2, <3>3 DEF ChatFrame, none
  <2>2. /\ kind \in Kinds \ {"footer"} /\ kind \in Kinds /\ kind \in {"tool", "nudge"}
        /\ o = Emit(b, "open", n, kind, none)
    BY DEF Kinds
  <2> HIDE DEF kind, data, o
  <2>3. Count(b.frames) = n
    BY <1>1 DEF CountedCalls
  <2>4. Opening(strict, E, b, o, n, kind)
    BY <1>2, <2>2, <2>3, OpensAt
  <2>5. Writes(strict, E, o) /\ IsOpen(o.frames, n, kind)
    BY <2>4 DEF Opening
  <2>6. Filling(strict, E, o, v)
    BY <1>2, <2>1, <2>2, <2>5, FillIs
  <2>7. o.err = b.err /\ v.err = o.err
    <3>1. o \in Writer /\ OnlyFrames(b, o) /\ OnlyFrames(o, v)
      BY <2>4, <2>5, <2>6 DEF Filling, Opening, Writes
    <3> QED
      BY <1>2, <3>1, OnlyFramesMeans DEF Calm
  <2> QED
    BY <1>1, <1>5, <2>2, <2>4, <2>6, <2>7 DEF Filling, Opening, Same, CountedCalls
<1>6. CASE e.kind = "finish"
  <2> DEFINE body == IF n > 0 THEN "tool_calls" ELSE "stop"
             x == [e EXCEPT !.body = body]
             y == [e EXCEPT !.kind = "done"]
             c == [b EXCEPT !.finish = body]
             kind == FinishName(body)
             w == Say(c, "finish", kind)
  <2>1. v = Say(w, "end", "message")
    <3>1. GeminiChunks(r, e) = <<x, y>>
      BY <1>6 DEF GeminiChunks
    <3>2. x.kind = "finish" /\ x.body = body /\ y.kind = "done"
      BY <1>6 DEF Events
    <3> HIDE DEF x, y, body
    <3>3. v = ChatFrame(ChatFrame(b, x), y)
      BY <1>3, <3>1
    <3> QED
      BY <3>2, <3>3 DEF ChatFrame
  <2>2. kind \in Kinds /\ (kind = "tool_use" <=> n > 0)
    BY FinishNames
  <2>3. c \in Writer /\ c.frames = b.frames /\ c.err = b.err
    BY <1>2 DEF Writer
  <2>4. w = Say(c, "finish", kind)
    OBVIOUS
  <2> HIDE DEF c, kind, w
  <2>5. Writes(strict, E, c)
    BY <1>2, <2>3 DEF Writes
  <2>6. Saying(strict, E, c, w, kind)
    BY <2>2, <2>4, <2>5, SayingIs
  <2>7. /\ Over(strict, E, v) /\ LastOf(v.frames) = "end" /\ Told(v.frames) = Told(w.frames)
        /\ Called(v.frames) <=> Called(w.frames)
        /\ OnlyFrames(w, v)
    BY <2>1, <2>6, LastIs DEF Saying
  <2>8. Told(v.frames) = {kind} /\ (Called(v.frames) <=> n > 0)
    BY <1>1, <2>3, <2>6, <2>7 DEF Saying, CountedCalls
  <2>9. Tells(v.frames)
    BY <2>2, <2>8 DEF Tells
  <2>10. v.err = s.err
    <3>1. w \in Writer /\ OnlyFrames(c, w)
      BY <2>6 DEF Saying, Writes
    <3>2. w.err = c.err /\ v.err = w.err
      BY <2>3, <2>7, <3>1, OnlyFramesMeans DEF Calm
    <3> QED
      BY <1>1, <2>3, <3>2
  <2> QED
    BY <1>6, <2>7, <2>9, <2>10
<1> QED
  BY <1>4, <1>5, <1>6 DEF GeminiKinds

-----------------------------------------------------------------------------
(* The upstream whose format is the client's: its blocks follow the marker's. *)

MarkBooks(strict, E, s) ==
  /\ Writes(strict, E, s) /\ s.err = "none"
  /\ Count(s.frames) = IF s.flow = "none" THEN Shifted(s) ELSE Shifted(s) + 1
  /\ \A b, k : IsOpen(s.frames, b, k) <=> s.flow # "none" /\ b = Shifted(s) /\ k = s.flow

LEMMA ShiftedIs ==
  ASSUME NEW s \in Writer
  PROVE  Shifted(s) \in Nat
BY StreamsAssumption DEF Shifted, Writer

\* The upstream's message begins: behind the marker, or with a frame of its own.
LEMMA MarkedBeginIs ==
  ASSUME NEW strict \in BOOLEAN, NEW E \in Seq(Frame), NEW s \in Writer, s.err = "none", s.flow = "none",
         Marker => Writes(strict, E, s) /\ Count(s.frames) = 1 /\ \A b, k : ~IsOpen(s.frames, b, k),
         ~Marker => s.frames = <<>> /\ Grows(E, s.frames),
         NEW e, e.kind = "begin", NEW v, v = MarkedEvent(s, e)
  PROVE  MarkBooks(strict, E, v)
<1> DEFINE b == [s EXCEPT !.next = 0]
<1>1. v = IF Marker THEN b ELSE Say(b, "start", "message")
  BY DEF MarkedEvent
<1>2. b \in Writer /\ b.frames = s.frames /\ b.next = 0 /\ b.err = "none" /\ b.flow = "none"
  BY DEF Writer
<1> HIDE DEF b
<1>3. CASE Marker
  BY <1>1, <1>2, <1>3 DEF MarkBooks, Writes, Shifted
<1>4. CASE ~Marker
  <2>1. v = Say(b, "start", "message") /\ b.frames = <<>> /\ Grows(E, b.frames)
    BY <1>1, <1>2, <1>4
  <2>2. /\ Writes(strict, E, v) /\ OnlyFrames(b, v) /\ v.next = b.next /\ Count(v.frames) = 0
        /\ \A n, k : ~IsOpen(v.frames, n, k)
    BY <1>2, <2>1, BeginIs
  <2>3. v.err = "none" /\ v.flow = "none"
    BY <1>2, <2>2, OnlyFramesMeans DEF Calm
  <2> QED
    BY <1>2, <1>4, <2>2, <2>3 DEF MarkBooks, Shifted
<1> QED
  BY <1>3, <1>4

LEMMA MarkedEventIs ==
  ASSUME NEW strict \in BOOLEAN, NEW E \in Seq(Frame), NEW s, MarkBooks(strict, E, s),
         NEW e \in Events, e.kind \in {"open", "delta", "stop", "finish", "done"},
         e.kind \in {"open", "done"} => s.flow = "none",
         e.kind = "open" => e.body \in Flows,
         e.kind \in {"delta", "stop"} => e.body = s.flow /\ e.body \in Flows,
         NEW v, v = MarkedEvent(s, e)
  PROVE  \/ MarkBooks(strict, E, v) /\ e.kind # "done"
         \/ /\ Over(strict, E, v) /\ LastOf(v.frames) = "end" /\ v.err = "none"
            /\ e.kind = "done"
<1> DEFINE b == Shifted(s)
           kind == e.body
           data == <<e.id>>
           none == <<>>
<1>1. s \in Writer /\ Writes(strict, E, s) /\ s.err = "none" /\ s.next \in Nat /\ b \in Nat
  BY ShiftedIs DEF MarkBooks, Writes, Writer
<1>2. data \in Seq(Nat) /\ none \in Seq(Nat) /\ kind = e.body
  BY EmptySeq DEF Events
<1>3. kind \in Flows => kind \in Kinds \ {"footer"} /\ kind \in Kinds /\ kind # "none"
  BY DEF Kinds, Flows
<1>4. /\ e.kind = "open" => v = [Emit(s, "open", b, kind, none) EXCEPT !.flow = kind]
      /\ e.kind = "delta" => v = Delta(s, b, kind, data)
      /\ e.kind = "stop" => v = [Stop(s, b, kind) EXCEPT !.flow = "none", !.next = Stop(s, b, kind).next + 1]
      /\ e.kind = "finish" => v = Say([s EXCEPT !.finish = kind], "finish", FinishName(kind))
      /\ e.kind = "done" => v = Say(s, "end", "message")
  BY DEF MarkedEvent
<1>5. /\ Count(s.frames) = IF s.flow = "none" THEN b ELSE b + 1
      /\ \A n, k : IsOpen(s.frames, n, k) <=> s.flow # "none" /\ n = b /\ k = s.flow
  BY DEF MarkBooks
<1>6. b = Shifted(s)
  OBVIOUS
<1> HIDE DEF b, kind, data, none
<1>7. CASE e.kind = "open"
  <2> DEFINE o == Emit(s, "open", b, kind, none)
  <2>1. v = [o EXCEPT !.flow = kind] /\ o = Emit(s, "open", b, kind, none) /\ Count(s.frames) = b /\ kind \in Flows
    BY <1>2, <1>4, <1>5, <1>7
  <2> HIDE DEF o
  <2>2. Opening(strict, E, s, o, b, kind) /\ o.next = s.next
    BY <1>1, <1>2, <1>3, <2>1, OpensAt
  <2>3. Writes(strict, E, o) /\ OnlyFrames(s, o) /\ o \in Writer
    BY <2>2 DEF Opening, Writes
  <2>4. o.err = "none"
    BY <1>1, <2>3, OnlyFramesMeans DEF Calm
  <2>5. v \in Writer /\ v.frames = o.frames /\ v.next = s.next /\ v.flow = kind /\ v.err = "none"
    <3>1. /\ v \in Writer /\ v.frames = o.frames /\ v.next = o.next /\ v.flow = kind
          /\ v.err = o.err
      BY <2>1, <2>3 DEF Writer
    <3> QED
      BY <2>2, <2>4, <3>1
  <2>6. Shifted(v) = b /\ Writes(strict, E, v)
    BY <1>6, <2>3, <2>5 DEF Shifted, Writes
  <2> QED
    BY <1>3, <1>7, <2>1, <2>2, <2>5, <2>6 DEF MarkBooks, Opening
<1>8. CASE e.kind = "delta"
  <2>1. v = Delta(s, b, kind, data) /\ kind \in Flows /\ IsOpen(s.frames, b, kind)
    BY <1>2, <1>3, <1>4, <1>5, <1>8
  <2>2. Filling(strict, E, s, v)
    BY <1>1, <1>2, <1>3, <2>1, FillIs
  <2>3. Writes(strict, E, v) /\ OnlyFrames(s, v) /\ v.next = s.next
    BY <2>2 DEF Filling
  <2>4. v.err = "none" /\ v.flow = s.flow
    BY <1>1, <2>3, OnlyFramesMeans DEF Calm
  <2>5. Shifted(v) = b
    BY <1>6, <2>3 DEF Shifted
  <2> QED
    BY <1>5, <1>8, <2>2, <2>3, <2>4, <2>5 DEF MarkBooks, Filling, Same, AsOpen
<1>9. CASE e.kind = "stop"
  <2> DEFINE p == Stop(s, b, kind)
  <2>1. v = [p EXCEPT !.flow = "none", !.next = p.next + 1] /\ p = Stop(s, b, kind) /\ kind \in Flows
        /\ s.flow # "none" /\ IsOpen(s.frames, b, kind)
    BY <1>2, <1>3, <1>4, <1>5, <1>9
  <2> HIDE DEF p
  <2>2. Stopping(strict, E, s, p, b)
    BY <1>1, <1>3, <2>1, StopIs
  <2>3. Writes(strict, E, p) /\ OnlyFrames(s, p) /\ p.next = s.next /\ p \in Writer
    BY <2>2 DEF Stopping, Writes
  <2>4. p.err = "none" /\ s.next + 1 \in Nat
    BY <1>1, <2>3, OnlyFramesMeans DEF Calm
  <2> DEFINE m == s.next + 1
  <2>5. v \in Writer /\ v.frames = p.frames /\ v.next = m /\ v.flow = "none" /\ v.err = "none"
    <3>1. v = [p EXCEPT !.flow = "none", !.next = m] /\ m \in Nat
      BY <2>1, <2>3, <2>4
    <3> HIDE DEF m
    <3> QED
      BY <2>3, <2>4, <3>1 DEF Writer
  <2>6. Shifted(v) = b + 1 /\ Writes(strict, E, v)
    BY <1>1, <1>6, <2>3, <2>5 DEF Shifted, Writes
  <2> QED
    BY <1>5, <1>9, <2>1, <2>2, <2>5, <2>6 DEF MarkBooks, Stopping
<1>10. CASE e.kind = "finish"
  <2> DEFINE c == [s EXCEPT !.finish = kind]
             name == FinishName(kind)
  <2>1. v = Say(c, "finish", name) /\ name \in Kinds
    BY <1>4, <1>10, FinishNames
  <2>2. kind \in {"none", "stop", "tool_calls", "length"}
    BY <1>2, <1>10 DEF Events
  <2>3. c \in Writer /\ c.frames = s.frames /\ c.next = s.next /\ c.flow = s.flow /\ c.err = "none"
    BY <1>1, <2>2 DEF Writer
  <2> HIDE DEF c, name
  <2>4. Writes(strict, E, c)
    BY <1>1, <2>3 DEF Writes
  <2>5. Saying(strict, E, c, v, name)
    BY <2>1, <2>4, SayingIs
  <2>6. OnlyFrames(c, v) /\ v.next = c.next /\ Writes(strict, E, v)
    BY <2>5 DEF Saying
  <2>7. v.err = "none" /\ v.flow = s.flow
    BY <2>3, <2>6, OnlyFramesMeans DEF Calm
  <2>8. Shifted(v) = b
    BY <1>6, <2>3, <2>6 DEF Shifted
  <2> QED
    BY <1>5, <1>10, <2>3, <2>5, <2>6, <2>7, <2>8 DEF MarkBooks, Saying, AsOpen
<1>11. CASE e.kind = "done"
  <2>1. v = Say(s, "end", "message")
    BY <1>4, <1>11
  <2>2. \A n, k : ~IsOpen(s.frames, n, k)
    BY <1>5, <1>11
  <2>3. Over(strict, E, v) /\ OnlyFrames(s, v) /\ LastOf(v.frames) = "end"
    BY <1>1, <2>1, <2>2, LastIs
  <2>4. v.err = "none"
    BY <1>1, <2>3, OnlyFramesMeans DEF Calm
  <2> QED
    BY <1>11, <2>3, <2>4
<1> QED
  BY <1>7, <1>8, <1>9, <1>10, <1>11

-----------------------------------------------------------------------------
(* 3. The footer writers.  What a client gets is bracketed as what the     *)
(* translator wrote: the same blocks are open, and a footer only fills one. *)

Alike(strict, F, G) ==
  /\ F \in Seq(Frame) /\ G \in Seq(Frame)
  /\ Ordered(strict, F) /\ Ordered(strict, G)
  /\ F = <<>> <=> G = <<>>
  /\ Live(strict, F) => Live(strict, G) /\ Count(G) = Count(F) /\ AsOpen(F, G)
  /\ Live(strict, F) \/ LastOf(G) = LastOf(F)
  /\ Told(G) = Told(F) /\ (Called(G) <=> Called(F))

\* A frame in its place means of the book what it needed.
LEMMA BookOfInPlace ==
  ASSUME NEW strict \in BOOLEAN, NEW F, Live(strict, F), NEW f \in Frame,
         InPlace(strict, Append(F, f), Len(F) + 1)
  PROVE  /\ f.frame = "start" <=> F = <<>>
         /\ f.frame = "open" => f.block = Count(F)
         /\ f.frame = "stop" => f.kind # "footer" /\ IsOpen(F, f.block, f.kind)
         /\ f.frame = "delta" /\ (strict \/ f.kind = "tool") => \E k \in Holds(f.kind) : IsOpen(F, f.block, k)
         /\ f.frame = "end" /\ strict => \A b, k : ~IsOpen(F, b, k)
<1> DEFINE G == Append(F, f)
           n == Len(F) + 1
<1>1. F \in Seq(Frame)
  BY DEF Live
<1>2. /\ Len(F) \in Nat /\ DOMAIN F = 1..Len(F)
      /\ \A m \in DOMAIN F : G[m] = F[m]
      /\ G[n] = f
  BY <1>1, Places
<1>3. Earlier(n) = DOMAIN F
  BY <1>2 DEF Earlier
<1>4. n = 1 <=> F = <<>>
  BY <1>1, <1>2, EmptySeq
<1>5. InPlace(strict, G, n)
  OBVIOUS
<1> HIDE DEF G, n
<1>6. f.frame = "start" <=> F = <<>>
  BY <1>2, <1>4, <1>5 DEF InPlace
<1>7. ASSUME f.frame = "open" PROVE f.block = Count(F)
  <2>1. {m \in Earlier(n) : G[m].frame = "open"} = Opened(F)
    BY <1>2, <1>3 DEF Opened
  <2> QED
    BY <1>2, <1>5, <1>7, <2>1 DEF InPlace, Count
<1>8. ASSUME f.frame = "stop" \/ (f.frame = "delta" /\ (strict \/ f.kind = "tool"))
      PROVE  \E k \in Holds(f.kind) : IsOpen(F, f.block, k)
  <2>1. /\ \E m \in Earlier(n) : G[m].frame = "open" /\ G[m].block = f.block /\ G[m].kind \in Holds(f.kind)
        /\ ~\E m \in Earlier(n) : G[m].frame = "stop" /\ G[m].block = f.block
    BY <1>2, <1>5, <1>8 DEF InPlace
  <2>2. PICK m \in DOMAIN F : F[m].frame = "open" /\ F[m].block = f.block /\ F[m].kind \in Holds(f.kind)
    BY <1>2, <1>3, <2>1
  <2>3. ~Stopped(F, f.block) /\ m \in Opened(F)
    BY <1>2, <1>3, <2>1, <2>2 DEF Stopped, Opened
  <2>4. <<f.block, F[m].kind>> \in Book(F)
    BY <2>2, <2>3, InBook
  <2> QED
    BY <2>2, <2>4 DEF IsOpen
<1>9. ASSUME f.frame = "stop" PROVE f.kind # "footer" /\ IsOpen(F, f.block, f.kind)
  <2>1. f.kind # "footer"
    BY <1>2, <1>5, <1>9 DEF InPlace
  <2> QED
    BY <1>8, <1>9, <2>1 DEF Holds
<1>10. ASSUME f.frame = "end", strict PROVE \A b, k : ~IsOpen(F, b, k)
  <2>1. \A m \in DOMAIN F : F[m].frame = "open" =>
          \E l \in DOMAIN F : F[l].frame = "stop" /\ F[l].block = F[m].block
    BY <1>2, <1>3, <1>5, <1>10 DEF InPlace
  <2>2. \A m \in Opened(F) : Stopped(F, F[m].block)
    BY <2>1 DEF Opened, Stopped
  <2>3. Book(F) = {}
    BY <2>2 DEF Book
  <2> QED
    BY <2>3, BookIsOpen
<1> QED
  BY <1>6, <1>7, <1>8, <1>9, <1>10

\* The place of a frame depends on those before it.
LEMMA SameInPlace ==
  ASSUME NEW strict \in BOOLEAN, NEW F, NEW G, NEW n \in Nat, InPlace(strict, F, n),
         G[n] = F[n], \A m \in Earlier(n) : G[m] = F[m],
         F[n].frame \in {"end", "error"} => n = Len(G)
  PROVE  InPlace(strict, G, n)
<1>1. {m \in Earlier(n) : G[m].frame = "open"} = {m \in Earlier(n) : F[m].frame = "open"}
  OBVIOUS
<1>2. /\ n = 1 <=> G[n].frame = "start"
      /\ G[n].frame \in {"end", "error"} => n = Len(G)
      /\ G[n].frame = "open" => G[n].block = Cardinality({m \in Earlier(n) : G[m].frame = "open"})
      /\ G[n].frame = "stop" => G[n].kind # "footer"
  BY <1>1 DEF InPlace
<1>3. ASSUME G[n].frame = "stop" \/ (G[n].frame = "delta" /\ (strict \/ G[n].kind = "tool"))
      PROVE  /\ \E m \in Earlier(n) : G[m].frame = "open" /\ G[m].block = G[n].block /\ G[m].kind \in Holds(G[n].kind)
             /\ ~\E m \in Earlier(n) : G[m].frame = "stop" /\ G[m].block = G[n].block
  BY <1>3 DEF InPlace
<1>4. ASSUME G[n].frame = "end", strict
      PROVE  \A m \in Earlier(n) : G[m].frame = "open" =>
               \E l \in Earlier(n) : G[l].frame = "stop" /\ G[l].block = G[m].block
  BY <1>4 DEF InPlace
<1> QED
  BY <1>2, <1>3, <1>4 DEF InPlace

\* What comes before a frame may go on.
LEMMA OrderedPrefix ==
  ASSUME NEW strict \in BOOLEAN, NEW F \in Seq(Frame), Ordered(strict, F), NEW E \in Seq(Frame), Grows(E, F)
  PROVE  /\ Ordered(strict, E)
         /\ Len(E) < Len(F) => Live(strict, E)
<1>1. Len(E) \in Nat /\ Len(F) \in Nat /\ Len(E) <= Len(F)
  BY LenProperties DEF Grows
<1>2. /\ DOMAIN E = 1..Len(E) /\ DOMAIN F = 1..Len(F)
      /\ \A n \in 1..Len(E) : F[n] = E[n]
  BY LenProperties DEF Grows
<1>3. ASSUME NEW n \in DOMAIN E
      PROVE  InPlace(strict, E, n) /\ (Len(E) < Len(F) => E[n].frame \notin {"end", "error"})
  <2>1. n \in Nat /\ n <= Len(E)
    BY <1>1, <1>2
  <2>2. n \in DOMAIN F /\ E[n] = F[n]
    BY <1>1, <1>2
  <2>3. \A m \in Earlier(n) : E[m] = F[m]
    BY <1>1, <1>2 DEF Earlier
  <2>4. InPlace(strict, F, n)
    BY <2>2 DEF Ordered
  <2>5. F[n].frame \in {"end", "error"} => n = Len(F)
    BY <2>4 DEF InPlace
  <2>6. n = Len(F) => n = Len(E) /\ ~(Len(E) < Len(F))
    BY <1>1, <2>1
  <2>7. F[n].frame \in {"end", "error"} => n = Len(E) /\ ~(Len(E) < Len(F))
    BY <2>5, <2>6
  <2>8. InPlace(strict, E, n)
    BY <2>2, <2>3, <2>4, <2>7, SameInPlace
  <2> QED
    BY <2>2, <2>7, <2>8
<1> QED
  BY <1>3 DEF Ordered, Live

LEMMA AppendGrows ==
  ASSUME NEW F \in Seq(Frame), NEW f \in Frame
  PROVE  Grows(F, Append(F, f)) /\ Append(F, f) \in Seq(Frame) /\ Len(F) < Len(Append(F, f))
BY AppendProperties, LenProperties DEF Grows

\* A frame that the translator writes may be delivered.
LEMMA AlikeStep ==
  ASSUME NEW strict \in BOOLEAN, NEW F, NEW G, Alike(strict, F, G), NEW f \in Frame,
         Ordered(strict, Append(F, f))
  PROVE  Alike(strict, Append(F, f), Append(G, f))
<1> DEFINE A == Append(F, f)
           B == Append(G, f)
<1>1. /\ F \in Seq(Frame) /\ G \in Seq(Frame) /\ (F = <<>> <=> G = <<>>)
      /\ Told(G) = Told(F) /\ (Called(G) <=> Called(F))
  BY DEF Alike
<1>2. A \in Seq(Frame) /\ B \in Seq(Frame) /\ A # <<>> /\ B # <<>> /\ LastOf(A) = f.frame /\ LastOf(B) = f.frame
  BY <1>1, AppendProperties DEF LastOf
<1>3. Live(strict, F)
  BY <1>1, AppendGrows, OrderedPrefix
<1>4. Live(strict, G) /\ Count(G) = Count(F) /\ AsOpen(F, G)
  BY <1>3 DEF Alike
<1>5. InPlace(strict, A, Len(F) + 1)
  BY <1>1, <1>2, AppendProperties, LenProperties DEF Ordered
<1>6. /\ f.frame = "start" <=> F = <<>>
      /\ f.frame = "open" => f.block = Count(F)
      /\ f.frame = "stop" => f.kind # "footer" /\ IsOpen(F, f.block, f.kind)
      /\ f.frame = "delta" /\ (strict \/ f.kind = "tool") => \E k \in Holds(f.kind) : IsOpen(F, f.block, k)
      /\ f.frame = "end" /\ strict => \A b, k : ~IsOpen(F, b, k)
  BY <1>3, <1>5, BookOfInPlace
<1>7. Told(B) = Told(A) /\ (Called(B) <=> Called(A))
  BY <1>1, OneMore
<1>8. ASSUME Ordered(strict, B), Live(strict, A) => Live(strict, B) /\ Count(B) = Count(A) /\ AsOpen(A, B)
      PROVE  Alike(strict, A, B)
  BY <1>2, <1>7, <1>8 DEF Alike
<1>9. CASE f.frame = "start"
  BY <1>1, <1>6, <1>8, <1>9 DEF Alike, AsOpen
<1>10. CASE f.frame = "open"
  <2>1. F # <<>> /\ G # <<>> /\ f.block = Count(F) /\ f.block = Count(G)
    BY <1>1, <1>4, <1>6, <1>10
  <2>2. /\ Count(A) = Count(F) + 1 /\ \A b, k : IsOpen(A, b, k) <=> IsOpen(F, b, k) \/ (b = f.block /\ k = f.kind)
        /\ Live(strict, B) /\ Count(B) = Count(G) + 1
        /\ \A b, k : IsOpen(B, b, k) <=> IsOpen(G, b, k) \/ (b = f.block /\ k = f.kind)
    BY <1>3, <1>4, <1>10, <2>1, AddOpen
  <2> QED
    BY <1>4, <1>8, <2>2 DEF Live, AsOpen
<1>11. CASE f.frame = "delta"
  <2>1. strict \/ f.kind = "tool" => \E k \in Holds(f.kind) : IsOpen(G, f.block, k)
    BY <1>4, <1>6, <1>11 DEF AsOpen
  <2>2. Live(strict, A) /\ Same(F, A) /\ Live(strict, B) /\ Same(G, B)
    BY <1>1, <1>3, <1>4, <1>6, <1>11, <2>1, AddDelta
  <2> QED
    BY <1>4, <1>8, <2>2 DEF Live, Same, AsOpen
<1>12. CASE f.frame = "stop"
  <2>1. f.kind # "footer" /\ IsOpen(G, f.block, f.kind) /\ F # <<>> /\ G # <<>>
    BY <1>1, <1>4, <1>6, <1>12 DEF AsOpen
  <2>2. /\ Count(A) = Count(F) /\ \A b, k : IsOpen(A, b, k) <=> IsOpen(F, b, k) /\ b # f.block
        /\ Live(strict, B) /\ Count(B) = Count(G) /\ \A b, k : IsOpen(B, b, k) <=> IsOpen(G, b, k) /\ b # f.block
    BY <1>3, <1>4, <1>6, <1>12, <2>1, AddStop
  <2> QED
    BY <1>4, <1>8, <2>2 DEF Live, AsOpen
<1>13. CASE f.frame = "finish"
  <2>1. /\ Count(A) = Count(F) /\ AsOpen(F, A)
        /\ Live(strict, B) /\ Count(B) = Count(G) /\ AsOpen(G, B)
    BY <1>1, <1>3, <1>4, <1>6, <1>13, AddFinish
  <2> QED
    BY <1>4, <1>8, <2>1 DEF Live, AsOpen
<1>14. CASE f.frame \in {"end", "error"}
  <2>1. ~Live(strict, A)
    <3>1. Len(A) \in DOMAIN A /\ A[Len(A)].frame = f.frame
      BY <1>1, <1>2, AppendProperties, LenProperties DEF LastOf
    <3> QED
      BY <1>14, <3>1 DEF Live
  <2>2. strict /\ f.frame = "end" => \A b, k : ~IsOpen(G, b, k)
    BY <1>4, <1>6 DEF AsOpen
  <2>3. Ordered(strict, B)
    BY <1>1, <1>4, <1>6, <1>14, <2>2, AddLast
  <2> QED
    BY <1>8, <2>1, <2>3
<1> QED
  <2>1. f.frame \in FrameNames
    BY DEF Frame
  <2> QED
    BY <1>9, <1>10, <1>11, <1>12, <1>13, <1>14, <2>1 DEF FrameNames

\* A footer may be delivered before the end of what holds text, or the marker.
LEMMA AlikeFooter ==
  ASSUME NEW strict \in BOOLEAN, NEW F, NEW G, Alike(strict, F, G), Live(strict, F), F # <<>>,
         NEW block \in Nat, strict => \E k \in {"text", "marker"} : IsOpen(F, block, k)
  PROVE  Alike(strict, F, Append(G, FooterDelta(block)))
<1> DEFINE f == FooterDelta(block)
           B == Append(G, f)
<1>1. f \in Frame /\ f.frame = "delta" /\ f.kind = "footer" /\ f.block = block
  BY EmptySeq DEF FooterDelta, Frame, FrameNames, Kinds
<1> HIDE DEF f
<1>2. G \in Seq(Frame) /\ G # <<>> /\ Live(strict, G) /\ AsOpen(F, G) /\ Count(G) = Count(F)
      /\ F \in Seq(Frame) /\ Ordered(strict, F) /\ Told(G) = Told(F) /\ (Called(G) <=> Called(F))
  BY DEF Alike
<1>3. strict \/ f.kind = "tool" => \E k \in Holds(f.kind) : IsOpen(G, f.block, k)
  BY <1>1, <1>2 DEF AsOpen, Holds
<1>4. Live(strict, B) /\ Same(G, B)
  BY <1>1, <1>2, <1>3, AddDelta
<1>5. B \in Seq(Frame) /\ B # <<>> /\ Ordered(strict, B)
  BY <1>1, <1>2, <1>4, AppendProperties DEF Live
<1>6. Told(B) = Told(F) /\ (Called(B) <=> Called(F)) /\ Count(B) = Count(F) /\ AsOpen(F, B)
  BY <1>2, <1>4 DEF Same, AsOpen
<1>7. Alike(strict, F, B)
  BY <1>2, <1>4, <1>5, <1>6 DEF Alike
<1> QED
  BY <1>7 DEF f

\* What the footer writer has delivered, and the stop that it holds.
Footing == [out : Seq(Frame), held : Seq(Frame)]

Holding(F, w) ==
  /\ Footer /\ MessagesClient
  /\ Ordered(Bracketed, F)
  /\ \E E \in Seq(Frame), h \in Frame :
       h.frame = "stop" /\ w.held = <<h>> /\ F = Append(E, h) /\ Alike(Bracketed, E, w.out)

Trails(F, w) ==
  /\ w \in Footing
  /\ (w.held = <<>> /\ Alike(Bracketed, F, w.out)) \/ Holding(F, w)

\* What was held is delivered, with the footer before it or without.
Flushed(w, f) ==
  w.out \o (IF FooterTarget(w, f) THEN <<FooterDelta(w.held[1].block)>> ELSE <<>>) \o w.held

LEMMA FlushedIs ==
  ASSUME NEW F, NEW w, Trails(F, w), NEW f
  PROVE  Alike(Bracketed, F, Flushed(w, f))
<1> DEFINE strict == Bracketed
<1>1. strict \in BOOLEAN
  BY DEF Bracketed
<1>2. CASE w.held = <<>> /\ Alike(strict, F, w.out)
  <2>1. w.out \in Seq(Frame) /\ ~FooterTarget(w, f)
    BY <1>2 DEF Trails, Footing, FooterTarget
  <2>2. Flushed(w, f) = w.out
    BY <1>2, <2>1, ConcatEmptySeq DEF Flushed
  <2> QED
    BY <1>2, <2>2
<1>3. CASE Holding(F, w)
  <2>1. PICK E \in Seq(Frame), h \in Frame :
          h.frame = "stop" /\ w.held = <<h>> /\ F = Append(E, h) /\ Alike(strict, E, w.out)
    BY <1>3 DEF Holding
  <2> DEFINE d == FooterDelta(h.block)
             v == IF FooterTarget(w, f) THEN Append(w.out, d) ELSE w.out
  <2>2. Ordered(strict, Append(E, h)) /\ w.out \in Seq(Frame) /\ h.block \in Nat
    BY <1>3, <2>1 DEF Holding, Alike, Frame
  <2>3. d \in Frame
    BY <2>2, EmptySeq DEF FooterDelta, Frame, FrameNames, Kinds
  <2>4. v \in Seq(Frame)
    BY <2>2, <2>3, AppendProperties
  <2>5. Flushed(w, f) = Append(v, h)
    <3>1. w.held[1] = h /\ w.held = <<h>>
      BY <2>1
    <3> HIDE DEF d
    <3>2. w.out \o <<>> = w.out /\ w.out \o <<d>> = Append(w.out, d)
      BY <2>2, <2>3, ConcatEmptySeq, AppendIsConcat
    <3>3. Flushed(w, f) = v \o <<h>>
      BY <3>1, <3>2 DEF Flushed, d
    <3> HIDE DEF v
    <3> QED
      BY <2>1, <2>4, <3>3, AppendIsConcat
  <2> HIDE DEF strict
  <2>6. Alike(strict, E, v)
    <3>1. CASE ~FooterTarget(w, f)
      BY <2>1, <3>1
    <3>2. CASE FooterTarget(w, f)
      <4>1. h.kind \in {"text", "marker"}
        BY <2>1, <3>2 DEF FooterTarget
      <4>2. Live(strict, E)
        BY <1>1, <2>1, <2>2, AppendGrows, OrderedPrefix
      <4>3. InPlace(strict, Append(E, h), Len(E) + 1)
        <5>1. Len(E) + 1 \in DOMAIN Append(E, h)
          BY <2>1, AppendProperties, LenProperties
        <5> QED
          BY <2>2, <5>1 DEF Ordered
      <4>4. E # <<>> /\ IsOpen(E, h.block, h.kind)
        BY <1>1, <2>1, <4>2, <4>3, BookOfInPlace
      <4>5. Alike(strict, E, Append(w.out, FooterDelta(h.block)))
        <5> DEFINE b == h.block
        <5>1. b \in Nat /\ \E k \in {"text", "marker"} : IsOpen(E, b, k)
          BY <2>2, <4>1, <4>4
        <5> HIDE DEF b
        <5>2. Alike(strict, E, Append(w.out, FooterDelta(b)))
          BY <1>1, <2>1, <4>2, <4>4, <5>1, AlikeFooter
        <5> QED
          BY <5>2 DEF b
      <4> QED
        BY <3>2, <4>5
    <3> QED
      BY <3>1, <3>2
  <2> HIDE DEF v
  <2>7. Alike(strict, Append(E, h), Append(v, h))
    BY <1>1, <2>1, <2>2, <2>6, AlikeStep
  <2> QED
    BY <2>1, <2>5, <2>7 DEF strict
<1> QED
  BY <1>2, <1>3 DEF Trails

\* The footer writer takes one frame.
LEMMA FootIs ==
  ASSUME NEW F, NEW w, Trails(F, w), NEW f \in Frame, Ordered(Bracketed, Append(F, f)),
         NEW v, v = Foot(w, f)
  PROVE  Trails(Append(F, f), v)
<1> DEFINE strict == Bracketed
           G == Append(F, f)
<1>1. strict \in BOOLEAN /\ Ordered(strict, G) /\ F \in Seq(Frame)
  BY AppendProperties DEF Bracketed, Trails, Holding, Alike
<1>2. ASSUME ~(Footer /\ MessagesClient)
      PROVE  w.held = <<>> /\ Alike(strict, F, w.out) /\ Alike(strict, G, Append(w.out, f))
  <2>1. w.held = <<>> /\ Alike(strict, F, w.out)
    BY <1>2 DEF Trails, Holding
  <2> HIDE DEF strict
  <2> QED
    BY <1>1, <2>1, AlikeStep
<1>3. ASSUME NEW x \in Footing, x.held = <<>>, Alike(strict, G, x.out) PROVE Trails(G, x)
  BY <1>3 DEF Trails
<1>4. CASE Footer /\ MessagesClient
  <2> DEFINE u == Flushed(w, f)
  <2>1. Alike(strict, F, u)
    BY FlushedIs
  <2>2. v = IF f.frame = "stop" THEN [out |-> u, held |-> <<f>>] ELSE [out |-> Append(u, f), held |-> <<>>]
    <3>1. v = FootMessages(w, f)
      BY <1>4 DEF Foot, MessagesClient
    <3>2. FootMessages(w, f) = IF f.frame = "stop" THEN [out |-> u, held |-> <<f>>]
                               ELSE [out |-> Append(u, f), held |-> <<>>]
      BY Zenon DEF FootMessages, Flushed
    <3> QED
      BY <3>1, <3>2
  <2> HIDE DEF u
  <2>3. CASE f.frame = "stop"
    <3>1. v.out = u /\ v.held = <<f>> /\ v \in Footing
      BY <2>1, <2>2, <2>3 DEF Footing, Alike
    <3>2. Holding(G, v)
      BY <1>1, <1>4, <2>1, <2>3, <3>1 DEF Holding
    <3> QED
      BY <3>1, <3>2 DEF Trails
  <2>4. CASE f.frame # "stop"
    <3> HIDE DEF strict
    <3>1. Alike(strict, G, Append(u, f))
      BY <1>1, <2>1, AlikeStep
    <3>2. v.out = Append(u, f) /\ v.held = <<>> /\ v \in Footing
      BY <2>2, <2>4, <3>1, EmptySeq DEF Footing, Alike
    <3> QED
      BY <1>3, <3>1, <3>2
  <2> QED
    BY <2>3, <2>4
<1>5. CASE ~(Footer /\ MessagesClient)
  <2> DEFINE d == FooterDelta(0)
  <2>1. w.out \in Seq(Frame) /\ w \in Footing /\ d \in Frame
    BY EmptySeq DEF Trails, Footing, FooterDelta, Frame, FrameNames, Kinds
  <2>2. ASSUME v = [w EXCEPT !.out = Append(w.out, f)]
        PROVE  Trails(G, v)
    <3>1. Append(w.out, f) \in Seq(Frame)
      BY <2>1, AppendProperties
    <3>2. v \in Footing /\ v.held = w.held /\ v.out = Append(w.out, f)
      BY <2>1, <2>2, <3>1 DEF Footing
    <3> QED
      BY <1>2, <1>3, <1>5, <3>2
  <2>3. ASSUME v = [w EXCEPT !.out = w.out \o <<d, f>>], path \in {"geminiChat", "native"}, f.frame = "finish"
        PROVE  Trails(G, v)
    <3> DEFINE x == Append(Append(w.out, d), f)
    <3> HIDE DEF d
    <3>1. w.out \o <<d, f>> = x /\ Append(w.out, d) \in Seq(Frame) /\ x \in Seq(Frame)
      <4>1. Append(w.out, d) \in Seq(Frame) /\ x \in Seq(Frame)
        BY <2>1, AppendProperties
      <4>2. <<d, f>> \in Seq(Frame) /\ Len(<<d, f>>) = 2
        BY <2>1
      <4>3. Len(w.out) \in Nat /\ Len(x) = Len(w.out) + 2 /\ Len(w.out \o <<d, f>>) = Len(w.out) + 2
            /\ w.out \o <<d, f>> \in Seq(Frame)
        BY <2>1, <4>1, <4>2, AppendProperties, ConcatProperties, LenProperties
      <4>4. \A i \in 1..Len(x) : (w.out \o <<d, f>>)[i] = x[i]
        BY <2>1, <4>1, <4>2, <4>3, AppendProperties, ConcatProperties
      <4> QED
        BY <4>1, <4>3, <4>4, SeqEqual
    <3>2. ~strict /\ Live(strict, F) /\ F # <<>>
      <4>1. ~strict
        BY <2>3 DEF Bracketed
      <4> HIDE DEF strict
      <4>2. Live(strict, F) /\ InPlace(strict, Append(F, f), Len(F) + 1)
        <5>1. Len(F) + 1 \in DOMAIN G
          BY <1>1, AppendProperties, LenProperties
        <5> QED
          BY <1>1, <5>1, AppendGrows, OrderedPrefix DEF Ordered
      <4>3. F # <<>>
        BY <1>1, <2>3, <4>2, BookOfInPlace
      <4> QED
        BY <4>1, <4>2, <4>3
    <3> HIDE DEF strict
    <3> DEFINE zero == 0
    <3>3. zero \in Nat /\ d = FooterDelta(zero)
      BY DEF d
    <3> HIDE DEF zero
    <3>4. Alike(strict, F, Append(w.out, d))
      BY <1>1, <1>2, <1>5, <3>2, <3>3, AlikeFooter
    <3>5. Alike(strict, G, x)
      BY <1>1, <3>4, AlikeStep
    <3> HIDE DEF x
    <3>6. v \in Footing /\ v.held = w.held /\ v.out = x
      BY <2>1, <2>3, <3>1 DEF Footing
    <3> QED
      BY <1>2, <1>3, <1>5, <3>5, <3>6
  <2>4. \/ v = [w EXCEPT !.out = Append(w.out, f)]
        \/ v = [w EXCEPT !.out = w.out \o <<d, f>>] /\ path \in {"geminiChat", "native"} /\ f.frame = "finish"
    BY <1>5 DEF Foot, FootChat
  <2> QED
    BY <2>2, <2>3, <2>4
<1> QED
  BY <1>4, <1>5

\* The footer writer takes the frames that a step added.
LEMMA FootedIs ==
  ASSUME NEW w, NEW s, NEW u, s.frames \in Seq(Frame), u.frames \in Seq(Frame), Grows(s.frames, u.frames),
         Ordered(Bracketed, u.frames), Trails(s.frames, w), NEW v, v = Footed(w, s, u)
  PROVE  Trails(u.frames, v)
<1> DEFINE F == s.frames
           G == u.frames
           m == Len(F)
           q == SubSeq(G, m + 1, Len(G))
           n == Len(q)
           loop == "foot"
           Body(h, k) == IF k = 0 THEN w ELSE Foot(h[k - 1], q[k])
           a == CHOOSE h : h = [k \in 0..n |-> Body(h, k)]
           strict == Bracketed
<1>0. strict \in BOOLEAN
  BY DEF Bracketed
<1>1. /\ m \in Nat /\ Len(G) \in Nat /\ m <= Len(G) /\ G \in Seq(Frame) /\ F \in Seq(Frame)
      /\ Ordered(strict, G)
  BY LenProperties DEF Grows
<1>2. \A k \in 1..m : G[k] = F[k]
  BY DEF Grows
<1>3. \A k \in 1..Len(G) : G[k] \in Frame
  BY <1>1, ElementOfSeq
<1>4. v = a[n]
  BY DEF Footed
<1> HIDE DEF F, G, strict
<1>5. n = Len(G) - m /\ n \in Nat /\ \A k \in 1..n : q[k] = G[m + k] /\ G[m + k] \in Frame
  <2>1. /\ q \in Seq(Frame)
        /\ n = IF m + 1 <= Len(G) THEN Len(G) - (m + 1) + 1 ELSE 0
        /\ \A i \in 1..Len(G) - (m + 1) + 1 : q[i] = G[m + 1 + i - 1]
    <3>1. m + 1 \in Int /\ Len(G) \in Int /\ \A i \in (m + 1)..Len(G) : G[i] \in Frame
      BY <1>1, <1>3
    <3> QED
      BY <3>1, SubSeqProperties
  <2> HIDE DEF q, m
  <2>2. n = Len(G) - m /\ n \in Nat
    BY <1>1, <2>1
  <2>3. ASSUME NEW k \in 1..n PROVE q[k] = G[m + k] /\ G[m + k] \in Frame
    <3>1. m + k \in 1..Len(G) /\ k \in 1..Len(G) - (m + 1) + 1 /\ m + 1 + k - 1 = m + k
      BY <1>1, <2>2
    <3> QED
      BY <1>3, <2>1, <3>1
  <2> QED
    BY <2>2, <2>3
<1> HIDE DEF m, q
<1>6. a = [k \in 0..n |-> Body(a, k)]
  <2>1. PICK h : IsRun(loop, w, q, h)
    BY <1>5, RunExists
  <2>2. h = [k \in 0..n |-> Body(h, k)]
    BY <2>1 DEF IsRun, Turn
  <2> QED
    BY <2>2
<1> HIDE DEF a
<1>7. a[0] = w /\ \A k \in 1..n : a[k] = Foot(a[k - 1], q[k])
  <2>1. \A k \in 0..n : a[k] = Body(a, k)
    BY <1>6
  <2> QED
    BY <1>5, <2>1
<1> HIDE DEF n
<1> DEFINE P(k) == SubSeq(G, 1, m + k)
           Good(k) == Trails(P(k), a[k])
           T == {k \in 0..n : Good(k)}
<1>8. ASSUME NEW k \in 0..n
      PROVE  P(k) \in Seq(Frame) /\ Len(P(k)) = m + k /\ \A i \in 1..(m + k) : P(k)[i] = G[i]
  <2> DEFINE l == m + k
  <2>1. l \in Nat /\ l <= Len(G) /\ 1 \in Int /\ l \in Int /\ \A i \in 1..l : i \in 1..Len(G)
    BY <1>1, <1>5
  <2> HIDE DEF l
  <2>2. \A i \in 1..l : G[i] \in Frame
    BY <1>3, <2>1
  <2>3. /\ SubSeq(G, 1, l) \in Seq(Frame)
        /\ Len(SubSeq(G, 1, l)) = IF 1 <= l THEN l - 1 + 1 ELSE 0
        /\ \A i \in 1..l - 1 + 1 : SubSeq(G, 1, l)[i] = G[1 + i - 1]
    BY <2>1, <2>2, SubSeqProperties
  <2>4. Len(SubSeq(G, 1, l)) = l /\ \A i \in 1..l : SubSeq(G, 1, l)[i] = G[i]
    BY <2>1, <2>3
  <2> QED
    BY <2>3, <2>4 DEF l
<1> HIDE DEF P
<1>9. Good(0)
  <2>1. P(0) = F
    <3>1. P(0) \in Seq(Frame) /\ Len(P(0)) = m /\ \A i \in 1..m : P(0)[i] = G[i]
      BY <1>1, <1>5, <1>8
    <3>2. Len(P(0)) = Len(F) /\ \A i \in 1..Len(P(0)) : P(0)[i] = F[i]
      BY <1>2, <3>1 DEF m
    <3> QED
      BY <1>1, <3>1, <3>2, SeqEqual
  <2> QED
    BY <1>7, <2>1 DEF F
<1>10. ASSUME NEW k \in 1..n, Good(k - 1) PROVE Good(k)
  <2> DEFINE j == k - 1
             f == G[m + k]
             A == Append(P(j), f)
  <2>1. j \in 0..n /\ k \in 0..n /\ m + k = (m + j) + 1 /\ m + k <= Len(G) /\ f \in Frame
    BY <1>1, <1>5
  <2>2. /\ P(j) \in Seq(Frame) /\ Len(P(j)) = m + j /\ \A i \in 1..(m + j) : P(j)[i] = G[i]
        /\ P(k) \in Seq(Frame) /\ Len(P(k)) = m + k /\ \A i \in 1..(m + k) : P(k)[i] = G[i]
    BY <1>8, <2>1
  <2>3. A = P(k)
    <3> HIDE DEF j, f
    <3>1. A \in Seq(Frame) /\ Len(A) = Len(P(j)) + 1 /\ \A i \in 1..Len(P(j)) : A[i] = P(j)[i] /\ A[Len(P(j)) + 1] = f
      BY <2>1, <2>2, AppendProperties
    <3>2. \A i \in 1..Len(A) : A[i] = P(k)[i]
      <4>1. A[Len(P(j)) + 1] = f
        BY <2>1, <2>2, AppendProperties
      <4> HIDE DEF A
      <4> SUFFICES ASSUME NEW i \in 1..Len(A) PROVE A[i] = P(k)[i]
        OBVIOUS
      <4>2. Len(A) = (m + j) + 1 /\ m + j \in Nat /\ i \in 1..(m + k)
        BY <1>1, <2>1, <2>2, <3>1
      <4>3. CASE i = (m + j) + 1
        BY <2>1, <2>2, <4>1, <4>2, <4>3 DEF f
      <4>4. CASE i # (m + j) + 1
        <5>1. i \in 1..(m + j)
          BY <4>2, <4>4
        <5> QED
          BY <2>2, <3>1, <4>2, <5>1
      <4> QED
        BY <4>3, <4>4
    <3> QED
      BY <2>1, <2>2, <3>1, <3>2, SeqEqual
  <2>4. Ordered(strict, P(k))
    <3>1. Grows(P(k), G)
      BY <2>1, <2>2 DEF Grows
    <3> QED
      BY <1>0, <1>1, <2>2, <3>1, OrderedPrefix
  <2>5. a[k] = Foot(a[j], f)
    BY <1>5, <1>7
  <2> HIDE DEF A, f, j
  <2>6. Trails(P(j), a[j])
    BY <1>10 DEF j
  <2>7. Ordered(Bracketed, Append(P(j), f))
    BY <2>3, <2>4 DEF A, strict
  <2>8. Trails(Append(P(j), f), a[k])
    BY <2>1, <2>5, <2>6, <2>7, FootIs
  <2> QED
    BY <2>3, <2>8 DEF A
<1>11. Good(n)
  <2> HIDE DEF Good
  <2>1. n \in Nat
    BY <1>5
  <2>2. 0 \in T /\ \A k \in 1..n : k - 1 \in T => k \in T
    BY <1>9, <1>10, <2>1
  <2> HIDE DEF T
  <2>3. n \in T
    BY <2>1, <2>2, RunReaches
  <2> QED
    BY <2>3 DEF T
<1>12. P(n) = G
  <2>1. P(n) \in Seq(Frame) /\ Len(P(n)) = Len(G) /\ \A i \in 1..Len(P(n)) : P(n)[i] = G[i]
    BY <1>1, <1>5, <1>8
  <2> QED
    BY <1>1, <2>1, SeqEqual
<1> QED
  BY <1>4, <1>11, <1>12 DEF G, n

-----------------------------------------------------------------------------
(* The chain of two translators.                                           *)

\* The chunks of a part are events of a chat stream.
LEMMA ChunksAre ==
  ASSUME NEW e \in Events, e.kind \in GeminiKinds, NEW r, r.calls \in Nat, NEW c, c = GeminiChunks(r, e)
  PROVE  /\ e.kind # "finish" => /\ Len(c) = 1 /\ c[1] \in Events /\ c[1].kind = e.kind
         /\ e.kind = "finish" => /\ Len(c) = 2 /\ c[1] \in Events /\ c[1].kind = "finish"
                                 /\ c[2] \in Events /\ c[2].kind = "done"
<1>1. CASE e.kind = "text"
  BY <1>1 DEF GeminiChunks
<1>2. CASE e.kind = "call"
  <2> DEFINE n == r.calls
             x == [e EXCEPT !.slot = n]
  <2>1. c = <<x>> /\ n \in Nat
    BY <1>2 DEF GeminiChunks
  <2> HIDE DEF n
  <2>2. x \in Events /\ x.kind = "call"
    BY <1>2, <2>1 DEF Events, EventKinds
  <2> HIDE DEF x
  <2> QED
    BY <1>2, <2>1, <2>2
<1>3. CASE e.kind = "finish"
  <2> DEFINE body == IF r.calls > 0 THEN "tool_calls" ELSE "stop"
             x == [e EXCEPT !.body = body]
             y == [e EXCEPT !.kind = "done"]
  <2>1. c = <<x, y>>
    BY <1>3 DEF GeminiChunks
  <2>2. body \in {"stop", "tool_calls", "length"} /\ body \in EventBodies
    BY DEF EventBodies
  <2> HIDE DEF body
  <2>3. x \in Events /\ x.kind = "finish"
    BY <1>3, <2>2 DEF Events
  <2>4. y \in Events /\ y.kind = "done"
    BY <1>3 DEF Events, EventKinds
  <2> HIDE DEF x, y
  <2> QED
    BY <1>3, <2>1, <2>3, <2>4
<1> QED
  BY <1>1, <1>2, <1>3 DEF GeminiKinds

LEMMA ToMessagesClientIs ==
  ASSUME NEW strict \in BOOLEAN, NEW E \in Seq(Frame), NEW s, Chatting(strict, E, s),
         ~s.failed, s.life # "failed",
         NEW e \in Events, e.kind \in GeminiKinds, NEW r, r.calls \in Nat,
         NEW v, v = ToMessagesClient(s, GeminiChunks(r, e))
  PROVE  /\ ~v.failed /\ v.life # "failed"
         /\ v.life = "terminal" => s.life = "terminal" \/ e.kind = "finish"
         /\ Chatting(strict, E, v) \/ (Concluded(strict, E, v) /\ v.err = "none" /\ e.kind = "finish")
<1> DEFINE c == GeminiChunks(r, e)
           x == c[1]
           y == c[2]
           u == ChatEvent(s, x)
<1>1. /\ x \in Events /\ x.kind = e.kind
      /\ e.kind = "finish" => Len(c) = 2 /\ y \in Events /\ y.kind = "done"
      /\ e.kind # "finish" => Len(c) = 1
  BY ChunksAre
<1>2. v = u \/ (v = ChatEvent(u, y) /\ e.kind = "finish")
  BY <1>1 DEF ToMessagesClient
<1> HIDE DEF c, x, y
<1>3. x.kind \in ChatKinds /\ x.kind # "done" /\ x.kind # "status" /\ u = ChatEvent(s, x)
  BY <1>1 DEF GeminiKinds, ChatKinds
<1> HIDE DEF u
<1>4. Chatting(strict, E, u) /\ Proceeds(s, x, u)
  BY <1>1, <1>3, ChatEventIs
<1>5. /\ ~u.failed /\ u.life # "failed"
      /\ u.life = "terminal" => s.life = "terminal" \/ e.kind = "finish"
  BY <1>1, <1>3, <1>4 DEF Proceeds
<1>6. CASE v = u
  BY <1>4, <1>5, <1>6
<1>7. CASE v = ChatEvent(u, y) /\ e.kind = "finish"
  <2>1. y.kind \in ChatKinds /\ y.kind # "status" /\ y \in Events
    BY <1>1, <1>7 DEF ChatKinds
  <2>2. /\ Chatting(strict, E, v) \/ (Concluded(strict, E, v) /\ v.err = "none")
        /\ Proceeds(u, y, v)
    BY <1>4, <1>7, <2>1, ChatEventIs
  <2> QED
    BY <1>5, <1>7, <2>1, <2>2 DEF Proceeds
<1> QED
  BY <1>2, <1>6, <1>7

-----------------------------------------------------------------------------
(* The upstreams.                                                          *)

FedOf(q, kind) == \E n \in DOMAIN q : q[n].kind = kind

LEMMA FedGrows ==
  ASSUME NEW q \in Seq(Events), NEW e \in Events
  PROVE  /\ Append(q, e) \in Seq(Events) /\ Append(q, e) # <<>>
         /\ DOMAIN Append(q, e) = DOMAIN q \cup {Len(q) + 1}
         /\ Append(q, e)[Len(q) + 1] = e /\ \A n \in DOMAIN q : Append(q, e)[n] = q[n]
         /\ \A k : FedOf(Append(q, e), k) <=> FedOf(q, k) \/ e.kind = k
<1> DEFINE p == Append(q, e)
<1>1. /\ p \in Seq(Events) /\ p # <<>> /\ Len(p) = Len(q) + 1 /\ Len(q) \in Nat
      /\ \A n \in 1..Len(q) : p[n] = q[n]
      /\ p[Len(q) + 1] = e
  BY AppendProperties, LenProperties
<1>2. DOMAIN q = 1..Len(q) /\ DOMAIN p = 1..(Len(q) + 1)
  BY <1>1, LenProperties
<1>3. DOMAIN p = DOMAIN q \cup {Len(q) + 1} /\ \A n \in DOMAIN q : p[n] = q[n]
  BY <1>1, <1>2
<1> HIDE DEF p
<1>4. \A k : FedOf(p, k) <=> FedOf(q, k) \/ e.kind = k
  BY <1>1, <1>3 DEF FedOf
<1> QED
  BY <1>1, <1>3, <1>4 DEF p

Fits(kind, body) ==
  /\ kind \in EventKinds /\ body \in EventBodies
  /\ kind = "finish" => body \in {"stop", "tool_calls", "length"}

LEMMA EventIs ==
  ASSUME fed \in Seq(Events), NEW kind, NEW body, Fits(kind, body), NEW slot \in Nat,
         NEW e, e = Event(kind, slot, body)
  PROVE  e \in Events /\ e.kind = kind /\ e.slot = slot /\ e.body = body
<1>1. PICK n \in Nat, yes \in BOOLEAN : e = [id |-> n, kind |-> kind, slot |-> slot, named |-> yes, body |-> body]
  <2>1. Len(fed) + 1 \in Nat
    BY LenProperties
  <2> QED
    BY <2>1, Zenon DEF Event
<1> QED
  BY <1>1 DEF Events, Fits

\* The events of a chat upstream.
LEMMA ChatEventsAre ==
  ASSUME fed \in Seq(Events), NEW e \in ChatEvents
  PROVE  /\ e \in Events /\ e.kind \in ChatKinds
         /\ e.kind = "call" => e.slot # 0
         /\ e.kind = "status" => path = "chat"
         /\ ~FedOf(fed, "done") /\ ~FedOf(fed, "status")
<1> DEFINE Calls == [id : {Len(fed) + 1}, kind : {"call"}, slot : Slots, named : BOOLEAN, body : {"bare", "args"}]
           Texts == {"plain", "blank"} \cup (IF tags THEN {"open", "close"} ELSE {})
           Ends == {"stop", "tool_calls", "length"}
<1>1. ~Fed("done") /\ ~Fed("status")
  BY DEF ChatEvents
<1>2. \/ e = Event("thought", 0, "plain")
      \/ e = Event("done", 0, "plain")
      \/ \E b \in Texts : e = Event("text", 0, b)
      \/ e \in Calls
      \/ \E b \in Ends : e = Event("finish", 0, b)
      \/ e = Event("status", 0, "plain") /\ path = "chat"
  BY <1>1 DEF ChatEvents, Finishes
<1>3. CASE e \in Calls
  <2>1. Len(fed) + 1 \in Nat /\ Slots \subseteq Nat \ {0}
    BY LenProperties, StreamsAssumption
  <2>2. e \in Events /\ e.kind = "call" /\ e.slot # 0
    BY <1>3, <2>1 DEF Events, EventKinds, EventBodies
  <2> QED
    BY <1>1, <2>2 DEF ChatKinds, Fed, FedOf
<1>4. CASE e \notin Calls
  <2>1. \E kind \in ChatKinds \ {"call"}, body \in EventBodies :
          Fits(kind, body) /\ (kind = "status" => path = "chat") /\ e = Event(kind, 0, body)
    <3>1. /\ Texts \subseteq EventBodies /\ Ends \subseteq EventBodies /\ "plain" \in EventBodies
          /\ {"thought", "done", "text", "finish", "status"} \subseteq EventKinds
      BY DEF EventBodies, EventKinds
    <3>2. {"thought", "done", "text", "finish", "status"} \subseteq ChatKinds \ {"call"}
      BY DEF ChatKinds
    <3> QED
      BY <1>2, <1>4, <3>1, <3>2 DEF Fits
  <2>2. PICK kind \in ChatKinds \ {"call"}, body \in EventBodies :
          Fits(kind, body) /\ (kind = "status" => path = "chat") /\ e = Event(kind, 0, body)
    BY <2>1
  <2> DEFINE z == 0
  <2>3. z \in Nat /\ Fits(kind, body) /\ e = Event(kind, z, body)
    BY <2>2
  <2> HIDE DEF z
  <2>4. e \in Events /\ e.kind = kind
    BY <2>3, EventIs
  <2> QED
    BY <1>1, <2>2, <2>4 DEF Fed, FedOf
<1> QED
  BY <1>3, <1>4

LEMMA CodexEventsAre ==
  ASSUME fed \in Seq(Events), path = "codex", NEW e \in CodexEvents
  PROVE  /\ e \in Events /\ e.kind \in {"text", "call", "finish", "done"}
         /\ e.kind = "call" => e.slot # 0
         /\ ~FedOf(fed, "done")
         /\ FedOf(fed, "finish") => e.kind = "done"
<1>1. CASE Fed("finish")
  <2>1. e = Event("done", 0, "plain") /\ ~Fed("done")
    BY <1>1 DEF CodexEvents
  <2> DEFINE kind == "done"
             body == "plain"
             z == 0
  <2>2. Fits(kind, body) /\ z \in Nat /\ e = Event(kind, z, body)
    BY <2>1 DEF Fits, EventKinds, EventBodies
  <2> HIDE DEF kind, body, z
  <2>3. e \in Events /\ e.kind = kind
    BY <2>2, EventIs
  <2> QED
    BY <2>1, <2>3 DEF kind, Fed, FedOf
<1>2. CASE ~Fed("finish")
  <2>1. e \in ChatEvents /\ e.kind # "thought"
    BY <1>2 DEF CodexEvents
  <2>2. /\ e \in Events /\ e.kind \in ChatKinds
        /\ e.kind = "call" => e.slot # 0
        /\ e.kind = "status" => path = "chat"
        /\ ~FedOf(fed, "done")
    BY <2>1, ChatEventsAre
  <2> QED
    BY <1>2, <2>1, <2>2 DEF ChatKinds, Fed, FedOf
<1> QED
  BY <1>1, <1>2

LEMMA GeminiEventsAre ==
  ASSUME fed \in Seq(Events), NEW e \in GeminiEvents
  PROVE  e \in Events /\ e.kind \in GeminiKinds
<1>1. \E kind \in GeminiKinds, body \in EventBodies : Fits(kind, body) /\ e = Event(kind, 0, body)
  <2>1. /\ "text" \in GeminiKinds /\ "finish" \in GeminiKinds /\ "call" \in GeminiKinds
        /\ "plain" \in EventBodies /\ "stop" \in EventBodies /\ "args" \in EventBodies
        /\ Fits("text", "plain") /\ Fits("finish", "stop") /\ Fits("call", "args")
    BY DEF GeminiKinds, EventBodies, EventKinds, Fits
  <2> QED
    BY <2>1 DEF GeminiEvents
<1>2. PICK kind \in GeminiKinds, body \in EventBodies : Fits(kind, body) /\ e = Event(kind, 0, body)
  BY <1>1
<1> DEFINE z == 0
<1>3. z \in Nat /\ e = Event(kind, z, body)
  BY <1>2
<1> HIDE DEF z
<1> QED
  BY <1>2, <1>3, EventIs

\* What is fed of the items: each is of one kind.
ItemBodies == {"text", "thinking", "tool", "nameless"}

Itemized(q) ==
  /\ \A n \in DOMAIN q : q[n].slot # 0 => q[n].kind \in {"added", "delta", "item"} /\ q[n].body \in ItemBodies
  /\ \A m, n \in DOMAIN q : q[m].slot # 0 /\ q[m].slot = q[n].slot => q[m].body = q[n].body

LEMMA ResponsesEventsAre ==
  ASSUME fed \in Seq(Events), Itemized(fed), NEW e \in ResponsesEvents
  PROVE  /\ e \in Events /\ e.kind \in ResponsesKinds
         /\ e.kind \in {"added", "delta", "item"} => e.slot # 0 /\ e.body \in ItemBodies
         /\ e.slot # 0 => e.kind \in {"added", "delta", "item"}
         /\ e.kind = "added" => \A n \in DOMAIN fed : fed[n].slot # e.slot
         /\ e.slot # 0 => \A n \in DOMAIN fed : fed[n].slot = e.slot => fed[n].body = e.body
<1> DEFINE Named == {"added", "delta", "item"}
<1>1. \/ \E k \in Slots, kind \in Named :
           \E b \in Bodies(k) : e = Event(kind, k, b) /\ (kind = "added" => ~Filled(k, Named))
      \/ \E kind \in {"finish", "failed"}, b \in {"stop", "length", "plain"} :
           e = Event(kind, 0, b) /\ (kind = "finish" => b \in {"stop", "length"})
  <2>1. CASE \E k \in Slots : e \in ItemEvents(k)
    <3>1. PICK k \in Slots : e \in ItemEvents(k)
      BY <2>1
    <3>2. \E b \in Bodies(k) : \/ e = Event("added", k, b) /\ ~Filled(k, {"added", "delta", "item"})
                               \/ e = Event("delta", k, b)
                               \/ e = Event("item", k, b)
      BY <3>1 DEF ItemEvents
    <3> QED
      BY <3>2
  <2>2. CASE e \in {Event("finish", 0, b) : b \in {"stop", "length"}}
    <3>1. PICK b \in {"stop", "length"} : e = Event("finish", 0, b)
      BY <2>2
    <3> QED
      BY <3>1
  <2>3. CASE e = Event("failed", 0, "plain")
    BY <2>3
  <2> QED
    BY <2>1, <2>2, <2>3 DEF ResponsesEvents
<1>2. ASSUME NEW k \in Slots, NEW n \in DOMAIN fed, fed[n].slot = k
      PROVE  Filled(k, Named) /\ k # 0
  <2>1. k # 0
    BY StreamsAssumption
  <2> QED
    BY <1>2, <2>1 DEF Itemized, Filled
<1>3. ASSUME NEW k \in Slots, NEW b \in Bodies(k)
      PROVE  b \in ItemBodies /\ \A n \in DOMAIN fed : fed[n].slot = k => fed[n].body = b
  <2>1. CASE Filled(k, Named)
    <3>1. PICK m \in DOMAIN fed : fed[m].slot = k /\ fed[m].body = b
      BY <1>3, <2>1 DEF Bodies
    <3>2. k # 0
      BY <1>2, <3>1
    <3> QED
      BY <3>1, <3>2 DEF Itemized
  <2>2. CASE ~Filled(k, Named)
    <3>1. b \in ItemBodies
      BY <1>3, <2>2 DEF Bodies, ItemBodies
    <3> QED
      BY <1>2, <2>2, <3>1
  <2> QED
    BY <2>1, <2>2
<1>4. CASE \E k \in Slots, kind \in Named :
             \E b \in Bodies(k) : e = Event(kind, k, b) /\ (kind = "added" => ~Filled(k, Named))
  <2>1. PICK k \in Slots, kind \in Named :
               \E b \in Bodies(k) : e = Event(kind, k, b) /\ (kind = "added" => ~Filled(k, Named))
    BY <1>4
  <2>2. PICK b \in Bodies(k) : e = Event(kind, k, b) /\ (kind = "added" => ~Filled(k, Named))
    BY <2>1
  <2>3. b \in ItemBodies /\ \A n \in DOMAIN fed : fed[n].slot = k => fed[n].body = b
    BY <1>3
  <2>4. k \in Nat /\ k # 0 /\ Fits(kind, b)
    BY <2>3, StreamsAssumption DEF Fits, EventKinds, EventBodies, ItemBodies
  <2>5. e \in Events /\ e.kind = kind /\ e.slot = k /\ e.body = b
    BY <2>2, <2>4, EventIs
  <2>6. kind = "added" => \A n \in DOMAIN fed : fed[n].slot # k
    BY <1>2, <2>2
  <2> QED
    BY <2>3, <2>4, <2>5, <2>6 DEF ResponsesKinds
<1>5. CASE \E kind \in {"finish", "failed"}, b \in {"stop", "length", "plain"} :
             e = Event(kind, 0, b) /\ (kind = "finish" => b \in {"stop", "length"})
  <2>1. PICK kind \in {"finish", "failed"}, b \in {"stop", "length", "plain"} :
               e = Event(kind, 0, b) /\ (kind = "finish" => b \in {"stop", "length"})
    BY <1>5
  <2> DEFINE z == 0
  <2>2. z \in Nat /\ Fits(kind, b) /\ e = Event(kind, z, b)
    BY <2>1 DEF Fits, EventKinds, EventBodies
  <2> HIDE DEF z
  <2>3. e \in Events /\ e.kind = kind /\ e.slot = z
    BY <2>2, EventIs
  <2> QED
    BY <2>1, <2>3 DEF ResponsesKinds, z
<1> QED
  BY <1>1, <1>4, <1>5

\* The events of a Messages upstream, which sends one block at a time.
LEMMA NativeEventsAre ==
  ASSUME fed \in Seq(Events), t.flow \in Flows \cup {"none"}, NEW e \in NativeEvents
  PROVE  /\ e \in Events /\ ~FedOf(fed, "done")
         /\ e.kind \in {"begin", "open", "delta", "stop", "finish", "done"}
         /\ e.kind = "begin" <=> fed = <<>>
         /\ e.kind \in {"open", "done"} => t.flow = "none"
         /\ e.kind = "open" => e.body \in Flows
         /\ e.kind \in {"delta", "stop"} => e.body = t.flow /\ e.body \in Flows
         /\ e.kind = "done" => FedOf(fed, "finish")
<1>1. ~Fed("done")
  BY DEF NativeEvents
<1>2. \/ fed = <<>> /\ e = Event("begin", 0, "plain")
      \/ /\ fed # <<>> /\ t.flow # "none"
         /\ e = Event("delta", 0, t.flow) \/ e = Event("stop", 0, t.flow)
      \/ fed # <<>> /\ t.flow = "none" /\ Fed("finish") /\ e = Event("done", 0, "plain")
      \/ fed # <<>> /\ t.flow = "none" /\ \E b \in {"text", "tool", "thinking"} : e = Event("open", 0, b)
      \/ fed # <<>> /\ t.flow = "none" /\ \E b \in {"stop", "tool_calls", "length"} : e = Event("finish", 0, b)
  BY <1>1 DEF NativeEvents, InBlock, Finishes
<1>3. \E kind \in {"begin", "open", "delta", "stop", "finish", "done"}, body \in EventBodies :
        /\ e = Event(kind, 0, body) /\ Fits(kind, body)
        /\ kind = "begin" <=> fed = <<>>
        /\ kind \in {"open", "done"} => t.flow = "none"
        /\ kind = "open" => body \in Flows
        /\ kind \in {"delta", "stop"} => body = t.flow /\ body \in Flows
        /\ kind = "done" => Fed("finish")
  <2>1. /\ {"text", "tool", "thinking"} \subseteq Flows /\ Flows \subseteq EventBodies /\ "plain" \in EventBodies
        /\ {"stop", "tool_calls", "length"} \subseteq EventBodies
        /\ {"begin", "open", "delta", "stop", "finish", "done"} \subseteq EventKinds
    BY DEF Flows, EventBodies, EventKinds
  <2> QED
    BY <1>2, <2>1 DEF Fits
<1>4. PICK kind \in {"begin", "open", "delta", "stop", "finish", "done"}, body \in EventBodies :
        /\ e = Event(kind, 0, body) /\ Fits(kind, body)
        /\ kind = "begin" <=> fed = <<>>
        /\ kind \in {"open", "done"} => t.flow = "none"
        /\ kind = "open" => body \in Flows
        /\ kind \in {"delta", "stop"} => body = t.flow /\ body \in Flows
        /\ kind = "done" => Fed("finish")
  BY <1>3
<1> DEFINE z == 0
<1>5. z \in Nat /\ e = Event(kind, z, body)
  BY <1>4
<1> HIDE DEF z
<1>6. e \in Events /\ e.kind = kind /\ e.body = body
  BY <1>4, <1>5, EventIs
<1> QED
  BY <1>1, <1>4, <1>6 DEF Fed, FedOf

-----------------------------------------------------------------------------
(* 4. What holds of a translator between two events.                       *)

Finished(F) == F # <<>> /\ LastOf(F) = "end"

\* EndIsEarned of the translator's frames F and the events q.
Earned(F, q) ==
  Finished(F) => (FedOf(q, "finish") \/ FedOf(q, "done")) /\ ~FedOf(q, "status") /\ ~FedOf(q, "failed")

\* What a step does to the frames E.
Moves(strict, E, u, q) ==
  /\ u.frames \in Seq(Frame) /\ Ordered(strict, u.frames)
  /\ Grows(E, u.frames)
  /\ Earned(u.frames, q)

\* Calls are told of exactly when the answer has some.
Tallied(F) == Finished(F) => Tells(F)

LEMMA GrowsSelf ==
  ASSUME NEW F \in Seq(Frame)
  PROVE  Grows(F, F)
BY LenProperties DEF Grows

LEMMA Unfinished ==
  ASSUME NEW strict, NEW F, Live(strict, F)
  PROVE  ~Finished(F)
<1> SUFFICES ASSUME F # <<>>
             PROVE  LastOf(F) # "end"
  BY DEF Finished
<1>1. F \in Seq(Frame)
  BY DEF Live
<1>2. Len(F) \in DOMAIN F
  BY <1>1, EmptySeq, LenProperties
<1> QED
  BY <1>2 DEF Live, LastOf

LEMMA LiveMoves ==
  ASSUME NEW strict, NEW E, NEW u, Writes(strict, E, u), NEW q
  PROVE  Moves(strict, E, u, q) /\ Tallied(u.frames) /\ ~Finished(u.frames)
<1>1. Live(strict, u.frames) /\ Grows(E, u.frames)
  BY DEF Writes
<1>2. ~Finished(u.frames)
  BY <1>1, Unfinished
<1> QED
  BY <1>1, <1>2 DEF Moves, Earned, Tallied, Live

LEMMA OverMoves ==
  ASSUME NEW strict, NEW E, NEW u, Over(strict, E, u), NEW q, Earned(u.frames, q)
  PROVE  Moves(strict, E, u, q)
BY DEF Over, Moves, Writer

LEMMA ErrorMoves ==
  ASSUME NEW strict, NEW E, NEW u, Over(strict, E, u), LastOf(u.frames) = "error", NEW q
  PROVE  Moves(strict, E, u, q) /\ Tallied(u.frames) /\ ~Finished(u.frames)
<1>1. ~Finished(u.frames)
  BY DEF Finished
<1> QED
  BY <1>1, OverMoves DEF Earned, Tallied

LEMMA ConcludedMoves ==
  ASSUME NEW strict, NEW E, NEW u, Concluded(strict, E, u), NEW q, Earned(u.frames, q)
  PROVE  Moves(strict, E, u, q) /\ Tallied(u.frames)
<1>1. Over(strict, E, u) /\ Tallied(u.frames)
  BY DEF Concluded, Tallied, Finished
<1> QED
  BY <1>1, OverMoves

\* A step may be counted from where it ended.
LEMMA Rebased ==
  ASSUME NEW strict, NEW E, NEW s
  PROVE  /\ Writes(strict, E, s) => Writes(strict, s.frames, s)
         /\ Over(strict, E, s) => Over(strict, s.frames, s)
<1>1. ASSUME Writes(strict, E, s)
      PROVE  Writes(strict, s.frames, s)
  <2>1. s.frames \in Seq(Frame)
    BY <1>1 DEF Writes, Live
  <2> QED
    BY <1>1, <2>1, GrowsSelf DEF Writes
<1>2. ASSUME Over(strict, E, s)
      PROVE  Over(strict, s.frames, s)
  <2>1. s.frames \in Seq(Frame)
    BY <1>2 DEF Over, Writer
  <2> QED
    BY <1>2, <2>1, GrowsSelf DEF Over
<1> QED
  BY <1>1, <1>2

LEMMA RebasedMore ==
  ASSUME NEW strict, NEW E, NEW s
  PROVE  /\ Chatting(strict, E, s) => Chatting(strict, s.frames, s)
         /\ Concluded(strict, E, s) => Concluded(strict, s.frames, s)
         /\ Responding(strict, E, s) => Responding(strict, s.frames, s)
         /\ Coding(strict, E, s) => Coding(strict, s.frames, s)
         /\ Closing(strict, E, s) => Closing(strict, s.frames, s)
         /\ NativeBooks(strict, E, s) => NativeBooks(strict, s.frames, s)
         /\ MarkBooks(strict, E, s) => MarkBooks(strict, s.frames, s)
<1>1. /\ Writes(strict, E, s) => Writes(strict, s.frames, s)
      /\ Over(strict, E, s) => Over(strict, s.frames, s)
  BY Rebased
<1> QED
  BY <1>1 DEF Chatting, Concluded, Responding, Coding, Closing, NativeBooks, MarkBooks

-----------------------------------------------------------------------------
(* A chat upstream, read by a Messages client.                             *)

ChatOpen(strict, s, q) ==
  /\ s.failed <=> FedOf(q, "status")
  /\ ~FedOf(q, "failed")
  /\ \/ /\ Chatting(strict, s.frames, s) /\ s.life # "failed"
        /\ s.life = "terminal" => FedOf(q, "finish") \/ FedOf(q, "done")
     \/ Concluded(strict, s.frames, s) /\ s.err = "none" /\ FedOf(q, "done")

LEMMA ChatReceives ==
  ASSUME NEW strict \in BOOLEAN, NEW s, NEW q \in Seq(Events), ChatOpen(strict, s, q),
         NEW e \in Events, e.kind \in ChatKinds, ~FedOf(q, "done"), ~FedOf(q, "status"),
         NEW p, p = Append(q, e), NEW u, u = ChatEvent(s, e)
  PROVE  /\ Moves(strict, s.frames, u, p) /\ Tallied(u.frames)
         /\ ChatOpen(strict, u, p)
         /\ u.err # "none" => Writes(strict, u.frames, u)
<1>1. /\ Chatting(strict, s.frames, s) /\ s.life # "failed" /\ ~s.failed
      /\ s.life = "terminal" => FedOf(q, "finish")
      /\ ~FedOf(q, "failed") /\ s.frames \in Seq(Frame) /\ s \in Writer
  BY DEF ChatOpen, Chatting, Writes, Live
<1>2. \A k : FedOf(p, k) <=> FedOf(q, k) \/ e.kind = k
  BY FedGrows
<1>3. /\ Chatting(strict, s.frames, u) \/ (Concluded(strict, s.frames, u) /\ u.err = "none" /\ e.kind = "done")
      /\ e.kind # "status" => Proceeds(s, e, u)
      /\ e.kind = "status" => u.failed /\ u.life = s.life
  BY <1>1, ChatEventIs
<1>4. /\ u.failed <=> FedOf(p, "status")
      /\ ~FedOf(p, "failed")
      /\ u.life # "failed"
      /\ u.life = "terminal" => FedOf(p, "finish") \/ FedOf(p, "done")
  BY <1>1, <1>2, <1>3 DEF Proceeds, ChatKinds
<1>5. CASE Chatting(strict, s.frames, u)
  <2>1. Writes(strict, s.frames, u) /\ Chatting(strict, u.frames, u)
    BY <1>5, RebasedMore DEF Chatting
  <2>2. Moves(strict, s.frames, u, p) /\ Tallied(u.frames)
    BY <2>1, LiveMoves
  <2> QED
    BY <1>4, <2>1, <2>2 DEF ChatOpen, Chatting
<1>6. CASE Concluded(strict, s.frames, u) /\ u.err = "none" /\ e.kind = "done"
  <2>1. Earned(u.frames, p)
    BY <1>2, <1>4, <1>6 DEF Earned
  <2>2. Moves(strict, s.frames, u, p) /\ Tallied(u.frames) /\ Concluded(strict, u.frames, u)
    BY <1>6, <2>1, ConcludedMoves, RebasedMore
  <2> QED
    BY <1>2, <1>4, <1>6, <2>2 DEF ChatOpen
<1> QED
  BY <1>3, <1>5, <1>6

LEMMA ChatEnds ==
  ASSUME NEW strict \in BOOLEAN, NEW s, NEW q, ChatOpen(strict, s, q), Earned(s.frames, q),
         NEW u, u = ChatFinalize(s)
  PROVE  Moves(strict, s.frames, u, q) /\ Tallied(u.frames)
<1>1. CASE Concluded(strict, s.frames, s)
  <2>1. u = s
    BY <1>1 DEF Concluded, ChatFinalize
  <2> QED
    BY <1>1, <2>1, ConcludedMoves
<1>2. CASE /\ Chatting(strict, s.frames, s) /\ s.life # "failed"
           /\ s.life = "terminal" => FedOf(q, "finish") \/ FedOf(q, "done")
  <2>1. s.frames \in Seq(Frame)
    BY <1>2 DEF Chatting, Writes, Live
  <2>2. \/ Chatting(strict, s.frames, u)
        \/ /\ Concluded(strict, s.frames, u)
           /\ LastOf(u.frames) = "end" => ~s.failed /\ s.life \in {"terminal", "failed"}
    BY <1>2, <2>1, ChatFinalizeIs
  <2>3. CASE Chatting(strict, s.frames, u)
    <3>1. Writes(strict, s.frames, u)
      BY <2>3 DEF Chatting
    <3> QED
      BY <3>1, LiveMoves
  <2>4. CASE /\ Concluded(strict, s.frames, u)
             /\ LastOf(u.frames) = "end" => ~s.failed /\ s.life \in {"terminal", "failed"}
    <3>1. Earned(u.frames, q)
      BY <1>2, <2>4 DEF Earned, Finished, ChatOpen
    <3> QED
      BY <2>4, <3>1, ConcludedMoves
  <2> QED
    BY <2>2, <2>3, <2>4
<1> QED
  BY <1>1, <1>2 DEF ChatOpen

-----------------------------------------------------------------------------
(* A Gemini upstream, read by a Messages client through both translators.  *)

GeminiOpen(strict, s, r, q) ==
  /\ Accepting(r)
  /\ r.closed => FedOf(q, "finish")
  /\ ~FedOf(q, "status") /\ ~FedOf(q, "failed") /\ ~s.failed
  /\ \/ /\ Chatting(strict, s.frames, s) /\ s.life # "failed"
        /\ s.life = "terminal" => FedOf(q, "finish")
     \/ Concluded(strict, s.frames, s) /\ s.err = "none" /\ r.closed

\* What becomes of the Messages translator s when the Gemini one is o after e.
GeminiTurns(s, r, e, o) == IF o.err # "none" THEN s ELSE ToMessagesClient(s, GeminiChunks(r, e))

LEMMA GeminiReceives ==
  ASSUME NEW strict \in BOOLEAN, NEW s, NEW r, NEW q \in Seq(Events), GeminiOpen(strict, s, r, q), Earned(s.frames, q),
         NEW e \in Events, e.kind \in GeminiKinds,
         NEW p, p = Append(q, e), NEW o, o = GeminiAccepts(r, e),
         NEW u, u = GeminiTurns(s, r, e, o)
  PROVE  /\ Moves(strict, s.frames, u, p) /\ Tallied(u.frames)
         /\ o.err = "none" => GeminiOpen(strict, u, o, p)
         /\ u.err # "none" => Writes(strict, u.frames, u)
<1>1. \A k : FedOf(p, k) <=> FedOf(q, k) \/ e.kind = k
  BY FedGrows
<1>2. ~FedOf(p, "status") /\ ~FedOf(p, "failed") /\ (FedOf(q, "finish") => FedOf(p, "finish"))
  BY <1>1 DEF GeminiOpen, GeminiKinds
<1>3. o.err # "none" \/ Accepted(r, e, o)
  BY GeminiAcceptsIs DEF GeminiOpen
<1>4. CASE o.err # "none"
  <2>1. u = s
    BY <1>4 DEF GeminiTurns
  <2>2. CASE Chatting(strict, s.frames, s)
    <3>1. Writes(strict, s.frames, u)
      BY <2>1, <2>2 DEF Chatting
    <3> QED
      BY <1>4, <2>1, <3>1, LiveMoves
  <2>3. CASE Concluded(strict, s.frames, s) /\ s.err = "none" /\ r.closed
    <3>1. Earned(u.frames, p)
      BY <1>2, <2>1, <2>3 DEF Earned, GeminiOpen
    <3> QED
      BY <1>4, <2>1, <2>3, <3>1, ConcludedMoves
  <2> QED
    BY <2>2, <2>3 DEF GeminiOpen
<1>5. CASE o.err = "none"
  <2>1. Accepted(r, e, o) /\ ~r.closed /\ (o.closed <=> e.kind = "finish") /\ Accepting(o)
    BY <1>3, <1>5 DEF Accepted
  <2>2. /\ Chatting(strict, s.frames, s) /\ s.life # "failed" /\ ~s.failed
        /\ s.life = "terminal" => FedOf(q, "finish")
    BY <2>1 DEF GeminiOpen
  <2>3. s.frames \in Seq(Frame) /\ r.calls \in Nat
    BY <2>2 DEF Chatting, Writes, Live, GeminiOpen, Accepting, Writer
  <2>4. u = ToMessagesClient(s, GeminiChunks(r, e))
    BY <1>5 DEF GeminiTurns
  <2>5. /\ ~u.failed /\ u.life # "failed"
        /\ u.life = "terminal" => s.life = "terminal" \/ e.kind = "finish"
        /\ Chatting(strict, s.frames, u) \/ (Concluded(strict, s.frames, u) /\ u.err = "none" /\ e.kind = "finish")
    BY <2>2, <2>3, <2>4, ToMessagesClientIs
  <2>6. CASE Chatting(strict, s.frames, u)
    <3>1. Writes(strict, s.frames, u) /\ Chatting(strict, u.frames, u)
      BY <2>6, RebasedMore DEF Chatting
    <3>2. Moves(strict, s.frames, u, p) /\ Tallied(u.frames) /\ Writes(strict, u.frames, u)
      BY <3>1, LiveMoves, Rebased
    <3> QED
      BY <1>1, <1>2, <2>1, <2>2, <2>5, <3>1, <3>2 DEF GeminiOpen
  <2>7. CASE Concluded(strict, s.frames, u) /\ u.err = "none" /\ e.kind = "finish"
    <3>1. Earned(u.frames, p)
      BY <1>1, <1>2, <2>7 DEF Earned
    <3>2. Moves(strict, s.frames, u, p) /\ Tallied(u.frames) /\ Concluded(strict, u.frames, u)
      BY <2>7, <3>1, ConcludedMoves, RebasedMore
    <3> QED
      BY <1>1, <1>2, <2>1, <2>5, <2>7, <3>2 DEF GeminiOpen
  <2> QED
    BY <2>5, <2>6, <2>7
<1> QED
  BY <1>4, <1>5

LEMMA GeminiEnds ==
  ASSUME NEW strict \in BOOLEAN, NEW s, NEW r, NEW q, GeminiOpen(strict, s, r, q), Earned(s.frames, q),
         NEW u, u = IF r.closed THEN ChatFinalize(s) ELSE [s EXCEPT !.err = EOF(r)]
  PROVE  Moves(strict, s.frames, u, q) /\ Tallied(u.frames)
<1>1. CASE r.closed
  <2>1. u = ChatFinalize(s)
    BY <1>1
  <2>2. CASE Concluded(strict, s.frames, s)
    <3>1. u = s
      BY <2>1, <2>2 DEF Concluded, ChatFinalize
    <3> QED
      BY <2>2, <3>1, ConcludedMoves
  <2>3. CASE Chatting(strict, s.frames, s)
    <3>1. s.frames \in Seq(Frame)
      BY <2>3 DEF Chatting, Writes, Live
    <3>2. Chatting(strict, s.frames, u) \/ Concluded(strict, s.frames, u)
      BY <2>1, <2>3, <3>1, ChatFinalizeIs
    <3>3. CASE Chatting(strict, s.frames, u)
      <4>1. Writes(strict, s.frames, u)
        BY <3>3 DEF Chatting
      <4> QED
        BY <4>1, LiveMoves
    <3>4. CASE Concluded(strict, s.frames, u)
      <4>1. Earned(u.frames, q)
        BY <1>1 DEF Earned, GeminiOpen
      <4> QED
        BY <3>4, <4>1, ConcludedMoves
    <3> QED
      BY <3>2, <3>3, <3>4
  <2> QED
    BY <2>2, <2>3 DEF GeminiOpen
<1>2. CASE ~r.closed
  <2>1. u = [s EXCEPT !.err = EOF(r)] /\ Chatting(strict, s.frames, s)
    BY <1>2 DEF GeminiOpen
  <2>2. s \in Writer /\ EOF(r) \in Errors
    BY <2>1 DEF Chatting, Writes, EOF, Errors
  <2>3. u \in Writer /\ u.frames = s.frames
    BY <2>1, <2>2 DEF Writer
  <2>4. Writes(strict, s.frames, u)
    BY <2>1, <2>3 DEF Chatting, Writes
  <2> QED
    BY <2>4, LiveMoves
<1> QED
  BY <1>1, <1>2

-----------------------------------------------------------------------------
(* A Gemini upstream, read by a chat client.                               *)

LEMMA Still ==
  ASSUME NEW strict, NEW s, s.frames \in Seq(Frame), Ordered(strict, s.frames), NEW q, Earned(s.frames, q),
         NEW u, u.frames = s.frames
  PROVE  Moves(strict, s.frames, u, q)
BY GrowsSelf DEF Moves

LEMMA EmptyIs ==
  ASSUME NEW strict, NEW q
  PROVE  <<>> \in Seq(Frame) /\ Ordered(strict, <<>>) /\ Earned(<<>>, q) /\ ~Finished(<<>>)
BY EmptySeq DEF Ordered, Earned, Finished

GeminiChatOpen(strict, s, r, q) ==
  /\ Accepting(r) /\ s \in Writer /\ s.err = "none"
  /\ r.closed => FedOf(q, "finish")
  /\ ~FedOf(q, "status") /\ ~FedOf(q, "failed")
  /\ \/ s.frames = <<>> /\ r = Fresh
     \/ CountedCalls(strict, s.frames, s, r.calls) /\ ~r.closed
     \/ Over(strict, s.frames, s) /\ LastOf(s.frames) = "end" /\ Tells(s.frames) /\ r.closed

LEMMA GeminiChatStands ==
  ASSUME NEW strict \in BOOLEAN, NEW s, NEW r, NEW q, GeminiChatOpen(strict, s, r, q)
  PROVE  s.frames \in Seq(Frame) /\ Ordered(strict, s.frames) /\ Tallied(s.frames)
<1>1. CASE s.frames = <<>>
  BY <1>1, EmptyIs DEF Tallied
<1>2. CASE Writes(strict, s.frames, s)
  BY <1>2, Unfinished DEF Writes, Live, Tallied
<1>3. CASE Over(strict, s.frames, s) /\ Tells(s.frames)
  BY <1>3 DEF Over, Writer, Tallied
<1> QED
  BY <1>1, <1>2, <1>3 DEF GeminiChatOpen, CountedCalls

GeminiChatTurns(s, r, e, o) == IF o.err # "none" THEN s ELSE ToChatClient(s, e, GeminiChunks(r, e))

LEMMA GeminiChatReceives ==
  ASSUME NEW strict \in BOOLEAN, ~strict, NEW s, NEW r, NEW q \in Seq(Events), GeminiChatOpen(strict, s, r, q),
         Earned(s.frames, q), NEW e \in Events, e.kind \in GeminiKinds,
         NEW p, p = Append(q, e), NEW o, o = GeminiAccepts(r, e),
         NEW u, u = GeminiChatTurns(s, r, e, o)
  PROVE  /\ Moves(strict, s.frames, u, p) /\ Tallied(u.frames)
         /\ o.err = "none" => GeminiChatOpen(strict, u, o, p)
         /\ u.err = "none"
<1>1. \A k : FedOf(p, k) <=> FedOf(q, k) \/ e.kind = k
  BY FedGrows
<1>2. ~FedOf(p, "status") /\ ~FedOf(p, "failed") /\ (FedOf(q, "finish") => FedOf(p, "finish"))
  BY <1>1 DEF GeminiChatOpen, GeminiKinds
<1>3. o.err # "none" \/ Accepted(r, e, o)
  BY GeminiAcceptsIs DEF GeminiChatOpen
<1>4. s.frames \in Seq(Frame) /\ Ordered(strict, s.frames) /\ Tallied(s.frames) /\ s \in Writer /\ s.err = "none"
  BY GeminiChatStands DEF GeminiChatOpen
<1>5. CASE o.err # "none"
  <2>1. u = s
    BY <1>5 DEF GeminiChatTurns
  <2>2. Earned(s.frames, p)
    BY <1>1, <1>2 DEF Earned
  <2> QED
    BY <1>4, <1>5, <2>1, <2>2, Still
<1>6. CASE o.err = "none"
  <2>1. Accepted(r, e, o) /\ ~r.closed /\ (o.closed <=> e.kind = "finish") /\ Accepting(o)
        /\ o.calls = IF e.kind = "call" THEN r.calls + 1 ELSE r.calls
    BY <1>3, <1>6 DEF Accepted
  <2> DEFINE n == r.calls
  <2>2. n \in Nat /\ ((s.frames = <<>> /\ n = 0) \/ CountedCalls(strict, s.frames, s, n))
    BY <2>1, FreshIs DEF GeminiChatOpen, Accepting, Writer
  <2>3. u = ToChatClient(s, e, GeminiChunks(r, e)) /\ r.calls = n /\ Grows(s.frames, s.frames)
    BY <1>4, <1>6, GrowsSelf DEF GeminiChatTurns
  <2> HIDE DEF n
  <2>4. /\ u.err = s.err
        /\ \/ e.kind # "finish" /\ CountedCalls(strict, s.frames, u, IF e.kind = "call" THEN n + 1 ELSE n)
           \/ e.kind = "finish" /\ Over(strict, s.frames, u) /\ LastOf(u.frames) = "end" /\ Tells(u.frames)
    BY <1>4, <2>2, <2>3, ToChatClientIs
  <2>5. o.calls = IF e.kind = "call" THEN n + 1 ELSE n
    BY <2>1, <2>3
  <2>6. CASE e.kind # "finish" /\ CountedCalls(strict, s.frames, u, o.calls)
    <3>1. Writes(strict, s.frames, u)
      BY <2>6 DEF CountedCalls
    <3>2. Moves(strict, s.frames, u, p) /\ Tallied(u.frames) /\ Writes(strict, u.frames, u) /\ u \in Writer
      BY <3>1, LiveMoves, Rebased DEF Writes
    <3>3. CountedCalls(strict, u.frames, u, o.calls)
      BY <2>6, <3>2 DEF CountedCalls
    <3> QED
      BY <1>2, <1>4, <2>1, <2>4, <2>6, <3>2, <3>3 DEF GeminiChatOpen
  <2>7. CASE e.kind = "finish" /\ Over(strict, s.frames, u) /\ LastOf(u.frames) = "end" /\ Tells(u.frames)
    <3>1. Earned(u.frames, p)
      BY <1>1, <1>2, <2>7 DEF Earned
    <3>2. Moves(strict, s.frames, u, p) /\ Over(strict, u.frames, u) /\ u \in Writer
      BY <2>7, <3>1, OverMoves, Rebased DEF Over
    <3> QED
      BY <1>1, <1>2, <1>4, <2>1, <2>4, <2>7, <3>2 DEF GeminiChatOpen, Tallied
  <2> QED
    BY <2>4, <2>5, <2>6, <2>7
<1> QED
  BY <1>5, <1>6

LEMMA GeminiChatEnds ==
  ASSUME NEW strict \in BOOLEAN, NEW s, NEW r, NEW q, GeminiChatOpen(strict, s, r, q), Earned(s.frames, q),
         NEW u, u = IF r.closed THEN s
                    ELSE IF r.output THEN Say([s EXCEPT !.err = EOF(r)], "error", "message")
                    ELSE [s EXCEPT !.err = EOF(r)]
  PROVE  Moves(strict, s.frames, u, q) /\ Tallied(u.frames)
<1>1. s.frames \in Seq(Frame) /\ Ordered(strict, s.frames) /\ Tallied(s.frames) /\ s \in Writer
  BY GeminiChatStands DEF GeminiChatOpen
<1>2. CASE u.frames = s.frames
  BY <1>1, <1>2, Still
<1>3. CASE ~r.closed /\ r.output
  <2>1. CountedCalls(strict, s.frames, s, r.calls)
    BY <1>3, FreshIs DEF GeminiChatOpen
  <2> DEFINE b == [s EXCEPT !.err = EOF(r)]
  <2>2. EOF(r) \in Errors
    BY DEF EOF, Errors
  <2>3. b \in Writer /\ b.frames = s.frames
    BY <1>1, <2>2 DEF Writer
  <2>4. u = Say(b, "error", "message")
    BY <1>3
  <2> HIDE DEF b
  <2>5. Writes(strict, s.frames, b)
    BY <2>1, <2>3 DEF CountedCalls, Writes
  <2>6. Over(strict, s.frames, u) /\ LastOf(u.frames) = "error"
    <3> DEFINE f == "error"
               E == s.frames
    <3>1. f \in {"end", "error"} /\ f # "end" /\ u = Say(b, f, "message")
      BY <2>4
    <3>2. E \in Seq(Frame) /\ Writes(strict, E, b)
      BY <1>1, <2>5
    <3> HIDE DEF f, E
    <3>3. Over(strict, E, Say(b, f, "message")) /\ LastOf(Say(b, f, "message").frames) = f
      BY <3>1, <3>2, LastIs
    <3> QED
      BY <3>1, <3>3 DEF f, E
  <2> QED
    BY <2>6, ErrorMoves
<1>4. CASE r.closed \/ ~r.output
  <2>1. u.frames = s.frames
    BY <1>1, <1>4 DEF Writer
  <2> QED
    BY <1>2, <2>1
<1> QED
  BY <1>3, <1>4

-----------------------------------------------------------------------------
(* A chat upstream, read by a Responses client.                            *)

\* Codex is told of no reason to finish.
Unreasoned(F) == Finished(F) => "tool_use" \notin Told(F)

CodexOpen(strict, s, q) ==
  /\ ~FedOf(q, "status") /\ ~FedOf(q, "failed")
  /\ \/ Coding(strict, s.frames, s)
     \/ Closing(strict, s.frames, s) /\ (FedOf(q, "finish") \/ FedOf(q, "done"))

CodexHalted(strict, s) == Coding(strict, s.frames, s) \/ s.closed

LEMMA CodexReceives ==
  ASSUME NEW strict \in BOOLEAN, NEW s, NEW q \in Seq(Events), CodexOpen(strict, s, q), Earned(s.frames, q),
         NEW e \in Events, e.kind \in {"text", "call", "finish", "done"}, e.kind = "call" => e.slot # 0,
         ~FedOf(q, "done"), FedOf(q, "finish") => e.kind = "done",
         NEW p, p = Append(q, e), NEW u, u = CodexEvent(s, e)
  PROVE  /\ Moves(strict, s.frames, u, p) /\ Unreasoned(u.frames)
         /\ u.err = "none" => CodexOpen(strict, u, p)
         /\ u.err # "none" => CodexHalted(strict, u)
<1>1. \A k : FedOf(p, k) <=> FedOf(q, k) \/ e.kind = k
  BY FedGrows
<1>2. ~FedOf(p, "status") /\ ~FedOf(p, "failed")
  BY <1>1 DEF CodexOpen
<1>3. CASE Closing(strict, s.frames, s)
  <2>1. Coding(strict, s.frames, s) => ~s.closed
    BY DEF Coding
  <2>2. e.kind = "done"
    BY <1>3, <2>1 DEF CodexOpen, Closing
  <2>3. u = s
    BY <1>3, <2>2, CodexOver
  <2>4. Earned(u.frames, p)
    BY <1>1, <1>2, <2>2 DEF Earned
  <2>5. Over(strict, s.frames, u) /\ u.closed /\ Unreasoned(u.frames)
    BY <1>3, <2>3 DEF Closing, Unreasoned
  <2>6. Moves(strict, s.frames, u, p)
    BY <2>4, <2>5, OverMoves
  <2> QED
    BY <1>1, <1>2, <1>3, <2>2, <2>3, <2>5, <2>6 DEF CodexOpen, CodexHalted
<1>4. CASE Coding(strict, s.frames, s)
  <2>1. s.frames \in Seq(Frame)
    BY <1>4 DEF Coding, Writes, Live
  <2>2. \/ Coding(strict, s.frames, u)
        \/ Stuck(strict, s.frames, u) /\ u.closed
        \/ Closing(strict, s.frames, u) /\ e.kind \in {"finish", "done"}
    BY <1>4, <2>1, CodexEventIs
  <2>3. CASE Coding(strict, s.frames, u)
    <3>1. Writes(strict, s.frames, u) /\ Coding(strict, u.frames, u)
      BY <2>3, RebasedMore DEF Coding
    <3>2. Moves(strict, s.frames, u, p) /\ ~Finished(u.frames)
      BY <3>1, LiveMoves
    <3> QED
      BY <1>2, <3>1, <3>2 DEF CodexOpen, CodexHalted, Unreasoned
  <2>4. CASE Stuck(strict, s.frames, u) /\ u.closed
    <3>1. Writes(strict, s.frames, u) /\ u.err # "none"
      BY <2>4 DEF Stuck
    <3>2. Moves(strict, s.frames, u, p) /\ ~Finished(u.frames)
      BY <3>1, LiveMoves
    <3> QED
      BY <2>4, <3>1, <3>2 DEF CodexHalted, Unreasoned
  <2>5. CASE Closing(strict, s.frames, u) /\ e.kind \in {"finish", "done"}
    <3>1. FedOf(p, "finish") \/ FedOf(p, "done")
      BY <1>1, <2>5
    <3>2. Earned(u.frames, p)
      BY <1>2, <3>1 DEF Earned
    <3>3. Over(strict, s.frames, u) /\ u.closed /\ Unreasoned(u.frames) /\ Closing(strict, u.frames, u)
      BY <2>5, RebasedMore DEF Closing, Unreasoned
    <3>4. Moves(strict, s.frames, u, p)
      BY <3>2, <3>3, OverMoves
    <3> QED
      BY <1>2, <3>1, <3>3, <3>4 DEF CodexOpen, CodexHalted
  <2> QED
    BY <2>2, <2>3, <2>4, <2>5
<1> QED
  BY <1>3, <1>4 DEF CodexOpen

\* Finalize, whether the stream is open or was refused.
LEMMA CodexEnds ==
  ASSUME NEW strict \in BOOLEAN, NEW s, NEW q, CodexHalted(strict, s), s.frames \in Seq(Frame),
         Ordered(strict, s.frames), Unreasoned(s.frames), Earned(s.frames, q),
         NEW u, u = CodexFinalize(s)
  PROVE  Moves(strict, s.frames, u, q) /\ Unreasoned(u.frames)
<1>1. CASE s.closed
  <2>1. u = s
    BY <1>1 DEF CodexFinalize
  <2> QED
    BY <2>1, Still
<1>2. CASE Coding(strict, s.frames, s)
  <2>1. Writes(strict, s.frames, u) \/ (Over(strict, s.frames, u) /\ LastOf(u.frames) = "error")
    BY <1>2, CodexFinalizeIs
  <2>2. Moves(strict, s.frames, u, q) /\ ~Finished(u.frames)
    BY <2>1, LiveMoves, ErrorMoves
  <2> QED
    BY <2>2 DEF Unreasoned
<1> QED
  BY <1>1, <1>2 DEF CodexHalted

-----------------------------------------------------------------------------
(* A Responses upstream, read by a Messages client.                        *)

\* Each open item was fed, with the kind it is open with.
Placed(s, q) ==
  \A j \in DOMAIN s.items : j # 0 /\ \E n \in DOMAIN q : q[n].slot = j /\ q[n].body = s.kinds[j]

ResponsesOpen(strict, s, q) ==
  /\ ~FedOf(q, "status") /\ Itemized(q)
  /\ \/ /\ Responding(strict, s.frames, s) /\ s.err = "none" /\ s.life # "failed"
        /\ s.life = "terminal" => FedOf(q, "finish")
        /\ ~FedOf(q, "failed")
        /\ Placed(s, q)
     \/ Concluded(strict, s.frames, s) /\ LastOf(s.frames) = "error" /\ s.err = "none"

LEMMA ItemizedGrows ==
  ASSUME NEW q \in Seq(Events), Itemized(q), NEW e \in Events,
         e.slot # 0 => e.kind \in {"added", "delta", "item"} /\ e.body \in ItemBodies,
         e.slot # 0 => \A n \in DOMAIN q : q[n].slot = e.slot => q[n].body = e.body,
         NEW p, p = Append(q, e)
  PROVE  Itemized(p)
<1>1. /\ DOMAIN p = DOMAIN q \cup {Len(q) + 1}
      /\ p[Len(q) + 1] = e /\ \A n \in DOMAIN q : p[n] = q[n]
  BY FedGrows
<1>2. ASSUME NEW n \in DOMAIN p, p[n].slot # 0
      PROVE  p[n].kind \in {"added", "delta", "item"} /\ p[n].body \in ItemBodies
  BY <1>1, <1>2 DEF Itemized
<1>3. ASSUME NEW m \in DOMAIN p, NEW n \in DOMAIN p, p[m].slot # 0, p[m].slot = p[n].slot
      PROVE  p[m].body = p[n].body
  <2>1. CASE m \in DOMAIN q /\ n \in DOMAIN q
    BY <1>1, <1>3, <2>1 DEF Itemized
  <2>2. CASE p[m] = e \/ p[n] = e
    BY <1>1, <1>3, <2>2
  <2> QED
    BY <1>1, <2>1, <2>2
<1> QED
  BY <1>2, <1>3 DEF Itemized

LEMMA PlacedGrows ==
  ASSUME NEW q \in Seq(Events), NEW s, Placed(s, q), NEW e \in Events, NEW p, p = Append(q, e), NEW u,
         \/ u.items = s.items /\ u.kinds = s.kinds
         \/ Itemizes(s, e, u) /\ e.slot # 0
  PROVE  Placed(u, p)
<1>1. /\ DOMAIN p = DOMAIN q \cup {Len(q) + 1}
      /\ p[Len(q) + 1] = e /\ \A n \in DOMAIN q : p[n] = q[n]
  BY FedGrows
<1>2. ASSUME NEW j \in DOMAIN u.items
      PROVE  j # 0 /\ \E n \in DOMAIN p : p[n].slot = j /\ p[n].body = u.kinds[j]
  <2>1. CASE j \in DOMAIN s.items /\ u.kinds[j] = s.kinds[j]
    <3>1. PICK n \in DOMAIN q : q[n].slot = j /\ q[n].body = s.kinds[j]
      BY <2>1 DEF Placed
    <3> QED
      BY <1>1, <2>1, <3>1 DEF Placed
  <2>2. CASE j = e.slot /\ u.kinds[j] = e.body /\ e.slot # 0
    BY <1>1, <2>2
  <2> QED
    BY <1>2, <2>1, <2>2 DEF Itemizes
<1> QED
  BY <1>2 DEF Placed

LEMMA ResponsesReceives ==
  ASSUME NEW strict \in BOOLEAN, NEW s, NEW q \in Seq(Events), ResponsesOpen(strict, s, q),
         NEW e \in Events, e.kind \in ResponsesKinds,
         e.kind \in {"added", "delta", "item"} => e.slot # 0 /\ e.body \in ItemBodies,
         e.slot # 0 => e.kind \in {"added", "delta", "item"},
         e.kind = "added" => \A n \in DOMAIN q : q[n].slot # e.slot,
         e.slot # 0 => \A n \in DOMAIN q : q[n].slot = e.slot => q[n].body = e.body,
         NEW p, p = Append(q, e), NEW u, u = ResponsesEvent(s, e)
  PROVE  /\ Moves(strict, s.frames, u, p) /\ Tallied(u.frames)
         /\ u.err = "none" => ResponsesOpen(strict, u, p)
         /\ u.err # "none" => Writes(strict, u.frames, u)
<1>1. \A k : FedOf(p, k) <=> FedOf(q, k) \/ e.kind = k
  BY FedGrows
<1>2. ~FedOf(p, "status")
  BY <1>1 DEF ResponsesOpen, ResponsesKinds
<1>3. Itemized(p)
  BY ItemizedGrows DEF ResponsesOpen
<1>4. CASE Concluded(strict, s.frames, s) /\ LastOf(s.frames) = "error" /\ s.err = "none"
  <2>1. u = s /\ Over(strict, s.frames, u)
    BY <1>4 DEF Concluded, ResponsesEvent
  <2>2. Moves(strict, s.frames, u, p) /\ Tallied(u.frames)
    BY <1>4, <2>1, ErrorMoves
  <2> QED
    BY <1>2, <1>3, <1>4, <2>1, <2>2 DEF ResponsesOpen
<1>5. CASE /\ Responding(strict, s.frames, s) /\ s.err = "none" /\ s.life # "failed"
           /\ s.life = "terminal" => FedOf(q, "finish")
           /\ ~FedOf(q, "failed")
           /\ Placed(s, q)
  <2>1. s.frames \in Seq(Frame)
    BY <1>5 DEF Responding, Writes, Live
  <2>2. e.kind = "added" => e.slot \notin DOMAIN s.items
    BY <1>5 DEF Placed
  <2>3. e.kind \in {"delta", "item"} /\ e.slot \in DOMAIN s.items => s.kinds[e.slot] = e.body
    <3>1. ASSUME e.kind \in {"delta", "item"}, e.slot \in DOMAIN s.items
          PROVE  s.kinds[e.slot] = e.body
      <4>1. PICK n \in DOMAIN q : q[n].slot = e.slot /\ q[n].body = s.kinds[e.slot]
        BY <1>5, <3>1 DEF Placed
      <4>2. e.slot # 0
        BY <3>1
      <4> QED
        BY <4>1, <4>2
    <3> QED
      BY <3>1
  <2>4. e.kind \in {"added", "delta", "item"} => e.body \in {"text", "thinking", "tool", "nameless"}
    BY DEF ItemBodies
  <2>5. \/ Stuck(strict, s.frames, u)
        \/ Concluded(strict, s.frames, u) /\ LastOf(u.frames) = "error" /\ u.err = "none" /\ e.kind = "failed"
        \/ /\ Responding(strict, s.frames, u) /\ u.err = "none" /\ e.kind # "failed"
           /\ u.life = s.life \/ (u.life = "terminal" /\ e.kind = "finish")
           /\ \/ u.items = s.items /\ u.kinds = s.kinds
              \/ Itemizes(s, e, u) /\ e.kind \in {"added", "delta", "item"}
    BY <1>5, <2>1, <2>2, <2>3, <2>4, ResponsesEventIs
  <2>6. CASE Stuck(strict, s.frames, u)
    <3>1. Writes(strict, s.frames, u) /\ u.err # "none"
      BY <2>6 DEF Stuck
    <3> QED
      BY <3>1, LiveMoves, Rebased
  <2>7. CASE Concluded(strict, s.frames, u) /\ LastOf(u.frames) = "error" /\ u.err = "none"
    <3>1. Over(strict, s.frames, u) /\ Concluded(strict, u.frames, u)
      BY <2>7, RebasedMore DEF Concluded
    <3>2. Moves(strict, s.frames, u, p) /\ Tallied(u.frames)
      BY <2>7, <3>1, ErrorMoves
    <3> QED
      BY <1>2, <1>3, <2>7, <3>1, <3>2 DEF ResponsesOpen
  <2>8. CASE /\ Responding(strict, s.frames, u) /\ u.err = "none" /\ e.kind # "failed"
             /\ u.life = s.life \/ (u.life = "terminal" /\ e.kind = "finish")
             /\ \/ u.items = s.items /\ u.kinds = s.kinds
                \/ Itemizes(s, e, u) /\ e.kind \in {"added", "delta", "item"}
    <3>1. Writes(strict, s.frames, u) /\ Responding(strict, u.frames, u)
      BY <2>8, RebasedMore DEF Responding
    <3>2. Moves(strict, s.frames, u, p) /\ Tallied(u.frames)
      BY <3>1, LiveMoves
    <3>3. Placed(u, p)
      BY <1>5, <2>8, PlacedGrows
    <3>4. u.life # "failed" /\ (u.life = "terminal" => FedOf(p, "finish")) /\ ~FedOf(p, "failed")
      BY <1>1, <1>5, <2>8
    <3> QED
      BY <1>2, <1>3, <2>8, <3>1, <3>2, <3>3, <3>4 DEF ResponsesOpen
  <2> QED
    BY <2>5, <2>6, <2>7, <2>8
<1> QED
  BY <1>4, <1>5 DEF ResponsesOpen

LEMMA ResponsesEnds ==
  ASSUME NEW strict \in BOOLEAN, NEW s, NEW q, ResponsesOpen(strict, s, q), NEW u, u = ResponsesFinalize(s)
  PROVE  Moves(strict, s.frames, u, q) /\ Tallied(u.frames)
<1>1. CASE Concluded(strict, s.frames, s) /\ LastOf(s.frames) = "error"
  <2>1. u = s /\ Over(strict, s.frames, u)
    BY <1>1 DEF Concluded, ResponsesFinalize
  <2> QED
    BY <1>1, <2>1, ErrorMoves
<1>2. CASE /\ Responding(strict, s.frames, s) /\ s.err = "none" /\ s.life # "failed"
           /\ s.life = "terminal" => FedOf(q, "finish")
           /\ ~FedOf(q, "failed")
  <2>1. s.frames \in Seq(Frame)
    BY <1>2 DEF Responding, Writes, Live
  <2>2. \/ Writes(strict, s.frames, u)
        \/ /\ Concluded(strict, s.frames, u)
           /\ LastOf(u.frames) = "end" => s.life \in {"terminal", "failed"}
    BY <1>2, <2>1, ResponsesFinalizeIs
  <2>3. CASE Writes(strict, s.frames, u)
    BY <2>3, LiveMoves
  <2>4. CASE /\ Concluded(strict, s.frames, u)
             /\ LastOf(u.frames) = "end" => s.life \in {"terminal", "failed"}
    <3>1. Earned(u.frames, q)
      BY <1>2, <2>4 DEF Earned, Finished, ResponsesOpen
    <3> QED
      BY <2>4, <3>1, ConcludedMoves
  <2> QED
    BY <2>2, <2>3, <2>4
<1> QED
  BY <1>1, <1>2 DEF ResponsesOpen

-----------------------------------------------------------------------------
(* A Messages upstream, read by a chat client or a Messages client.        *)

\* The event e continues the events q, of which the block s.flow is open.
Continues(s, q, e) ==
  /\ ~FedOf(q, "done")
  /\ e.kind \in {"begin", "open", "delta", "stop", "finish", "done"}
  /\ e.kind = "begin" <=> q = <<>>
  /\ e.kind \in {"open", "done"} => s.flow = "none"
  /\ e.kind = "open" => e.body \in Flows
  /\ e.kind \in {"delta", "stop"} => e.body = s.flow /\ e.body \in Flows

Unharmed(q) == ~FedOf(q, "status") /\ ~FedOf(q, "failed")

LEMMA ContinuesIs ==
  ASSUME NEW q \in Seq(Events), Unharmed(q), NEW e \in Events, NEW s, Continues(s, q, e), NEW p, p = Append(q, e)
  PROVE  p # <<>> /\ Unharmed(p) /\ (FedOf(p, "done") <=> e.kind = "done")
<1>1. p # <<>> /\ \A k : FedOf(p, k) <=> FedOf(q, k) \/ e.kind = k
  BY FedGrows
<1> QED
  BY <1>1 DEF Unharmed, Continues

NativeOpen(strict, s, q) ==
  /\ Unharmed(q) /\ s.err = "none"
  /\ \/ q = <<>> /\ s = Fresh
     \/ q # <<>> /\ NativeBooks(strict, s.frames, s)
     \/ /\ q # <<>> /\ Over(strict, s.frames, s) /\ LastOf(s.frames) = "end" /\ s.life = "terminal"
        /\ FedOf(q, "done")

LEMMA NativeReceives ==
  ASSUME NEW strict \in BOOLEAN, ~strict, NEW s, NEW q \in Seq(Events), NativeOpen(strict, s, q),
         NEW e \in Events, Continues(s, q, e), NEW p, p = Append(q, e), NEW u, u = NativeEvent(s, e)
  PROVE  /\ Moves(strict, s.frames, u, p)
         /\ u.err = "none" => NativeOpen(strict, u, p)
         /\ u.err # "none" => Writes(strict, u.frames, u)
<1>1. p # <<>> /\ Unharmed(p) /\ (FedOf(p, "done") <=> e.kind = "done")
  BY ContinuesIs DEF NativeOpen
<1> DEFINE E == s.frames
<1>2. E \in Seq(Frame) /\ (Stuck(strict, E, u) \/ NativeStep(strict, E, e, u))
  <2>1. CASE q = <<>> /\ s = Fresh
    <3>1. E \in Seq(Frame) /\ Grows(E, <<>>) /\ e.kind = "begin"
      BY <2>1, FreshIs, EmptySeq, GrowsSelf DEF Continues
    <3>2. NativeBooks(strict, E, u) /\ u.err = "none"
      <4> HIDE DEF E
      <4> QED
        BY <2>1, <3>1, NativeBeginIs
    <3> QED
      BY <3>1, <3>2 DEF NativeStep
  <2>2. CASE q # <<>> /\ NativeBooks(strict, s.frames, s)
    <3>1. E \in Seq(Frame) /\ NativeBooks(strict, E, s) /\ s.err = "none"
      BY <2>2 DEF NativeBooks, Writes, Live, NativeOpen
    <3>2. /\ e.kind \in {"open", "delta", "stop", "finish", "done"}
          /\ e.kind = "open" => s.flow = "none" /\ e.body \in Flows
          /\ e.kind = "delta" => e.body = s.flow /\ e.body \in Flows
      BY <2>2 DEF Continues
    <3> HIDE DEF E
    <3>3. NativeStep(strict, E, e, u)
      BY <3>1, <3>2, NativeEventIs
    <3> QED
      BY <3>1, <3>3
  <2> QED
    BY <2>1, <2>2 DEF NativeOpen, Continues
<1> HIDE DEF E
<1>3. CASE Stuck(strict, E, u)
  <2>1. Writes(strict, E, u) /\ u.err # "none"
    BY <1>3 DEF Stuck
  <2> QED
    BY <2>1, LiveMoves, Rebased DEF E
<1>4. CASE NativeBooks(strict, E, u) /\ u.err = "none"
  <2>1. Writes(strict, E, u) /\ NativeBooks(strict, u.frames, u)
    BY <1>4, RebasedMore DEF NativeBooks
  <2>2. Moves(strict, E, u, p)
    BY <2>1, LiveMoves
  <2> QED
    BY <1>1, <1>4, <2>1, <2>2 DEF NativeOpen, E
<1>5. CASE Over(strict, E, u) /\ LastOf(u.frames) = "end" /\ u.life = "terminal" /\ u.err = "none" /\ e.kind = "done"
  <2>1. Earned(u.frames, p)
    BY <1>1, <1>5 DEF Earned, Unharmed
  <2>2. Moves(strict, E, u, p) /\ Over(strict, u.frames, u)
    BY <1>5, <2>1, OverMoves, Rebased
  <2> QED
    BY <1>1, <1>5, <2>2 DEF NativeOpen, E
<1> QED
  BY <1>2, <1>3, <1>4, <1>5 DEF NativeStep

LEMMA NativeEnds ==
  ASSUME NEW strict \in BOOLEAN, NEW s, NEW q, NativeOpen(strict, s, q), Earned(s.frames, q),
         NEW u, u = ChatClientFinalize(s)
  PROVE  Moves(strict, s.frames, u, q)
<1>1. CASE s = Fresh
  <2>1. s \in Writer /\ EOF(s) = "empty" /\ ~s.output /\ s.frames = <<>>
    BY <1>1, FreshIs DEF EOF
  <2>2. u = [s EXCEPT !.err = EOF(s)]
    BY <2>1 DEF ChatClientFinalize
  <2>3. u.frames = s.frames
    BY <2>1, <2>2 DEF Writer
  <2> QED
    BY <2>1, <2>3, EmptyIs, Still
<1>2. CASE NativeBooks(strict, s.frames, s)
  <2> DEFINE E == s.frames
  <2>1. Writes(strict, E, s) /\ E \in Seq(Frame)
    BY <1>2 DEF NativeBooks, Writes, Live
  <2> HIDE DEF E
  <2>2. Writes(strict, E, u) \/ (Over(strict, E, u) /\ LastOf(u.frames) = "error")
    BY <2>1, ChatClientFinalizeIs
  <2>3. Moves(strict, E, u, q)
    BY <2>2, LiveMoves, ErrorMoves
  <2> QED
    BY <2>3 DEF E
<1>3. CASE Over(strict, s.frames, s) /\ s.life = "terminal"
  <2>1. u = s
    BY <1>3 DEF ChatClientFinalize, EOF
  <2>2. s.frames \in Seq(Frame) /\ Ordered(strict, s.frames)
    BY <1>3 DEF Over, Writer
  <2> QED
    BY <2>1, <2>2, Still
<1> QED
  BY <1>1, <1>2, <1>3 DEF NativeOpen

MarkedOpen(strict, s, q) ==
  /\ Unharmed(q) /\ s \in Writer /\ s.err = "none"
  /\ \/ /\ q = <<>> /\ s.flow = "none"
        /\ Marker => Writes(strict, s.frames, s) /\ Count(s.frames) = 1 /\ Shut(s)
        /\ ~Marker => s.frames = <<>>
     \/ q # <<>> /\ MarkBooks(strict, s.frames, s)
     \/ q # <<>> /\ Over(strict, s.frames, s) /\ FedOf(q, "done")

LEMMA MarkedStands ==
  ASSUME NEW strict \in BOOLEAN, NEW s, NEW q, MarkedOpen(strict, s, q)
  PROVE  s.frames \in Seq(Frame) /\ Ordered(strict, s.frames)
<1>1. CASE s.frames = <<>>
  BY <1>1, EmptyIs
<1>2. CASE Writes(strict, s.frames, s)
  BY <1>2 DEF Writes, Live
<1>3. CASE Over(strict, s.frames, s)
  BY <1>3 DEF Over, Writer
<1> QED
  BY <1>1, <1>2, <1>3, StreamsAssumption DEF MarkedOpen, MarkBooks

LEMMA MarkedReceives ==
  ASSUME NEW strict \in BOOLEAN, NEW s, NEW q \in Seq(Events), MarkedOpen(strict, s, q),
         NEW e \in Events, Continues(s, q, e), NEW p, p = Append(q, e), NEW u, u = MarkedEvent(s, e)
  PROVE  Moves(strict, s.frames, u, p) /\ MarkedOpen(strict, u, p) /\ u.err = "none"
<1>1. p # <<>> /\ Unharmed(p) /\ (FedOf(p, "done") <=> e.kind = "done")
  BY ContinuesIs DEF MarkedOpen
<1> DEFINE E == s.frames
<1>2. E \in Seq(Frame)
  BY MarkedStands
<1>3. \/ MarkBooks(strict, E, u)
      \/ Over(strict, E, u) /\ u.err = "none" /\ e.kind = "done"
  <2>1. CASE q = <<>>
    <3>1. /\ s \in Writer /\ s.err = "none" /\ s.flow = "none" /\ e.kind = "begin"
          /\ Marker => Writes(strict, E, s) /\ Count(s.frames) = 1 /\ \A b, k : ~IsOpen(s.frames, b, k)
          /\ ~Marker => s.frames = <<>> /\ Grows(E, s.frames)
      BY <1>2, <2>1, GrowsSelf DEF MarkedOpen, Continues, Shut
    <3> HIDE DEF E
    <3>2. MarkBooks(strict, E, u)
      BY <1>2, <3>1, MarkedBeginIs
    <3> QED
      BY <3>2
  <2>2. CASE q # <<>>
    <3>1. MarkBooks(strict, E, s)
      BY <2>2 DEF MarkedOpen, Continues
    <3>2. /\ e.kind \in {"open", "delta", "stop", "finish", "done"}
          /\ e.kind \in {"open", "done"} => s.flow = "none"
          /\ e.kind = "open" => e.body \in Flows
          /\ e.kind \in {"delta", "stop"} => e.body = s.flow /\ e.body \in Flows
      BY <2>2 DEF Continues
    <3> HIDE DEF E
    <3> QED
      BY <1>2, <3>1, <3>2, MarkedEventIs
  <2> QED
    BY <2>1, <2>2
<1> HIDE DEF E
<1>4. CASE MarkBooks(strict, E, u)
  <2>1. Writes(strict, E, u) /\ MarkBooks(strict, u.frames, u) /\ u \in Writer /\ u.err = "none"
    BY <1>4, RebasedMore DEF MarkBooks, Writes
  <2>2. Moves(strict, E, u, p)
    BY <2>1, LiveMoves
  <2> QED
    BY <1>1, <2>1, <2>2 DEF MarkedOpen, E
<1>5. CASE Over(strict, E, u) /\ u.err = "none" /\ e.kind = "done"
  <2>1. Earned(u.frames, p)
    BY <1>1, <1>5 DEF Earned, Unharmed
  <2>2. Moves(strict, E, u, p) /\ Over(strict, u.frames, u) /\ u \in Writer
    BY <1>5, <2>1, OverMoves, Rebased DEF Over
  <2> QED
    BY <1>1, <1>5, <2>2 DEF MarkedOpen, E
<1> QED
  BY <1>3, <1>4, <1>5

-----------------------------------------------------------------------------
(* The inductive invariant.                                                *)

\* What the end says of the calls, where a client is told of them.
Agrees(F) ==
  /\ path = "codex" => Unreasoned(F)
  /\ path \in {"chat", "gemini", "responses", "geminiChat"} => Tallied(F)

\* The translator between two events,
Going ==
  /\ path = "chat" => ChatOpen(Bracketed, t, fed)
  /\ path = "gemini" => GeminiOpen(Bracketed, t, g, fed)
  /\ path = "geminiChat" => GeminiChatOpen(Bracketed, t, g, fed)
  /\ path = "codex" => CodexOpen(Bracketed, t, fed)
  /\ path = "responses" => ResponsesOpen(Bracketed, t, fed)
  /\ path = "native" => NativeOpen(Bracketed, t, fed)
  /\ path = "marked" => MarkedOpen(Bracketed, t, fed)

\* and after an error of Write: the dispatch may still frame it.
Halted ==
  /\ path = "codex" => CodexHalted(Bracketed, t)
  /\ path # "codex" /\ t.err # "none" => Writes(Bracketed, t.frames, t)

IInv ==
  /\ path \in Paths /\ fed \in Seq(Events)
  /\ t.frames \in Seq(Frame) /\ Ordered(Bracketed, t.frames)
  /\ Trails(t.frames, foot)
  /\ Earned(t.frames, fed) /\ Agrees(t.frames)
  /\ state = "open" => Going
  /\ state = "refused" => Halted

\* What is shown of each step.
Delivers ==
  /\ path' = path /\ fed' \in Seq(Events)
  /\ Moves(Bracketed, t.frames, t', fed') /\ Agrees(t'.frames)
  /\ state' = "open" => Going'
  /\ state' = "refused" => Halted'

LEMMA BracketedIs ==
  Bracketed \in BOOLEAN
BY DEF Bracketed

LEMMA Delivered ==
  ASSUME IInv, Delivers, foot' = Footed(foot, t, t')
  PROVE  IInv'
<1>1. /\ path' = path /\ path \in Paths /\ fed' \in Seq(Events)
      /\ t'.frames \in Seq(Frame) /\ Ordered(Bracketed, t'.frames) /\ Grows(t.frames, t'.frames)
      /\ Earned(t'.frames, fed') /\ Agrees(t'.frames)
      /\ t.frames \in Seq(Frame) /\ Trails(t.frames, foot)
  BY DEF IInv, Delivers, Moves
<1> DEFINE u == t'
           v == foot'
<1>2. v = Footed(foot, t, u) /\ u.frames \in Seq(Frame) /\ Grows(t.frames, u.frames) /\ Ordered(Bracketed, u.frames)
  BY <1>1
<1>3. Trails(u.frames, v)
  <2> HIDE DEF u, v
  <2> QED
    BY <1>1, <1>2, FootedIs
<1>4. (Bracketed' <=> Bracketed) /\ (MessagesClient' <=> MessagesClient)
  BY <1>1 DEF Bracketed, MessagesClient
<1>5. Bracketed' = Bracketed
  BY <1>4, BracketedIs DEF Bracketed
<1>6. Trails(t.frames, foot)'
  BY <1>3, <1>4, <1>5 DEF Trails, Holding
<1>7. Agrees(t.frames)' /\ Ordered(Bracketed, t.frames)'
  BY <1>1, <1>5 DEF Agrees
<1> QED
  BY <1>1, <1>6, <1>7 DEF IInv, Delivers

LEMMA ReceivesChat ==
  ASSUME IInv, state = "open", path = "chat", path' = path, NEW e \in Sendable, fed' = Append(fed, e),
         Translate(e) \/ TranslateGemini(e)
  PROVE  Delivers
<1> DEFINE strict == Bracketed
           p == fed'
           u == t'
<1>1. strict \in BOOLEAN /\ fed \in Seq(Events) /\ ChatOpen(strict, t, fed)
  BY BracketedIs DEF IInv, Going
<1>2. e \in ChatEvents
  BY DEF Sendable
<1>3. e \in Events /\ e.kind \in ChatKinds /\ ~FedOf(fed, "done") /\ ~FedOf(fed, "status")
  BY <1>1, <1>2, ChatEventsAre
<1>4. u = ChatEvent(t, e) /\ state' = IF u.err = "none" THEN "open" ELSE "refused"
  BY DEF Translate, TranslateGemini, Translated, Took
<1>5. p = Append(fed, e) /\ p \in Seq(Events)
  BY <1>1, <1>3, FedGrows
<1> HIDE DEF strict, p, u
<1>6. /\ Moves(strict, t.frames, u, p) /\ Tallied(u.frames)
      /\ ChatOpen(strict, u, p)
      /\ u.err # "none" => Writes(strict, u.frames, u)
  BY <1>1, <1>3, <1>4, <1>5, ChatReceives
<1>7. Bracketed' = Bracketed
  BY DEF Bracketed
<1> QED
  BY <1>4, <1>5, <1>6, <1>7 DEF Delivers, Agrees, Going, Halted, strict, p, u

LEMMA ReceivesGemini ==
  ASSUME IInv, state = "open", path = "gemini", path' = path, NEW e \in Sendable, fed' = Append(fed, e),
         Translate(e) \/ TranslateGemini(e)
  PROVE  Delivers
<1> DEFINE strict == Bracketed
           p == fed'
           u == t'
           o == g'
<1>1. strict \in BOOLEAN /\ fed \in Seq(Events) /\ GeminiOpen(strict, t, g, fed) /\ Earned(t.frames, fed)
  BY BracketedIs DEF IInv, Going
<1>2. e \in GeminiEvents
  BY DEF Sendable
<1>3. e \in Events /\ e.kind \in GeminiKinds
  BY <1>1, <1>2, GeminiEventsAre
<1>4. /\ o = GeminiAccepts(g, e)
      /\ u = GeminiTurns(t, g, e, o)
      /\ state' = IF o.err = "none" /\ u.err = "none" THEN "open" ELSE "refused"
  BY DEF Translate, TranslateGemini, GeminiTurns
<1>5. p = Append(fed, e) /\ p \in Seq(Events)
  BY <1>1, <1>3, FedGrows
<1> HIDE DEF strict, p, u, o
<1>6. /\ Moves(strict, t.frames, u, p) /\ Tallied(u.frames)
      /\ o.err = "none" => GeminiOpen(strict, u, o, p)
      /\ u.err # "none" => Writes(strict, u.frames, u)
  BY <1>1, <1>3, <1>4, <1>5, GeminiReceives
<1>7. Bracketed' = Bracketed
  BY DEF Bracketed
<1> QED
  BY <1>4, <1>5, <1>6, <1>7 DEF Delivers, Agrees, Going, Halted, strict, p, u, o

LEMMA ReceivesGeminiChat ==
  ASSUME IInv, state = "open", path = "geminiChat", path' = path, NEW e \in Sendable, fed' = Append(fed, e),
         Translate(e) \/ TranslateGemini(e)
  PROVE  Delivers
<1> DEFINE strict == Bracketed
           p == fed'
           u == t'
           o == g'
<1>1. strict \in BOOLEAN /\ fed \in Seq(Events) /\ GeminiChatOpen(strict, t, g, fed) /\ Earned(t.frames, fed)
  BY BracketedIs DEF IInv, Going
<1>2. e \in GeminiEvents /\ ~strict
  BY DEF Sendable, Bracketed
<1>3. e \in Events /\ e.kind \in GeminiKinds
  BY <1>1, <1>2, GeminiEventsAre
<1>4. /\ o = GeminiAccepts(g, e)
      /\ u = GeminiChatTurns(t, g, e, o)
      /\ state' = IF o.err = "none" /\ u.err = "none" THEN "open" ELSE "refused"
  BY DEF Translate, TranslateGemini, GeminiChatTurns
<1>5. p = Append(fed, e) /\ p \in Seq(Events)
  BY <1>1, <1>3, FedGrows
<1> HIDE DEF strict, p, u, o
<1>6. /\ Moves(strict, t.frames, u, p) /\ Tallied(u.frames)
      /\ o.err = "none" => GeminiChatOpen(strict, u, o, p)
      /\ u.err = "none"
  BY <1>1, <1>2, <1>3, <1>4, <1>5, GeminiChatReceives
<1>7. Bracketed' = Bracketed
  BY DEF Bracketed
<1> QED
  BY <1>4, <1>5, <1>6, <1>7 DEF Delivers, Agrees, Going, Halted, strict, p, u, o

LEMMA ReceivesCodex ==
  ASSUME IInv, state = "open", path = "codex", path' = path, NEW e \in Sendable, fed' = Append(fed, e),
         Translate(e) \/ TranslateGemini(e)
  PROVE  Delivers
<1> DEFINE strict == Bracketed
           p == fed'
           u == t'
<1>1. strict \in BOOLEAN /\ fed \in Seq(Events) /\ CodexOpen(strict, t, fed) /\ Earned(t.frames, fed)
  BY BracketedIs DEF IInv, Going
<1>2. e \in CodexEvents
  BY DEF Sendable
<1>3. /\ e \in Events /\ e.kind \in {"text", "call", "finish", "done"}
      /\ e.kind = "call" => e.slot # 0
      /\ ~FedOf(fed, "done")
      /\ FedOf(fed, "finish") => e.kind = "done"
  BY <1>1, <1>2, CodexEventsAre
<1>4. u = CodexEvent(t, e) /\ state' = IF u.err = "none" THEN "open" ELSE "refused"
  BY DEF Translate, TranslateGemini, Translated, Took
<1>5. p = Append(fed, e) /\ p \in Seq(Events)
  BY <1>1, <1>3, FedGrows
<1> HIDE DEF strict, p, u
<1>6. /\ Moves(strict, t.frames, u, p) /\ Unreasoned(u.frames)
      /\ u.err = "none" => CodexOpen(strict, u, p)
      /\ u.err # "none" => CodexHalted(strict, u)
  BY <1>1, <1>3, <1>4, <1>5, CodexReceives
<1>7. Bracketed' = Bracketed
  BY DEF Bracketed
<1> QED
  BY <1>4, <1>5, <1>6, <1>7 DEF Delivers, Agrees, Going, Halted, strict, p, u

LEMMA ReceivesResponses ==
  ASSUME IInv, state = "open", path = "responses", path' = path, NEW e \in Sendable, fed' = Append(fed, e),
         Translate(e) \/ TranslateGemini(e)
  PROVE  Delivers
<1> DEFINE strict == Bracketed
           p == fed'
           u == t'
<1>1. strict \in BOOLEAN /\ fed \in Seq(Events) /\ ResponsesOpen(strict, t, fed) /\ Itemized(fed)
  BY BracketedIs DEF IInv, Going, ResponsesOpen
<1>2. e \in ResponsesEvents
  BY DEF Sendable
<1>3. /\ e \in Events /\ e.kind \in ResponsesKinds
      /\ e.kind \in {"added", "delta", "item"} => e.slot # 0 /\ e.body \in ItemBodies
      /\ e.slot # 0 => e.kind \in {"added", "delta", "item"}
      /\ e.kind = "added" => \A n \in DOMAIN fed : fed[n].slot # e.slot
      /\ e.slot # 0 => \A n \in DOMAIN fed : fed[n].slot = e.slot => fed[n].body = e.body
  BY <1>1, <1>2, ResponsesEventsAre
<1>4. u = ResponsesEvent(t, e) /\ state' = IF u.err = "none" THEN "open" ELSE "refused"
  BY DEF Translate, TranslateGemini, Translated, Took
<1>5. p = Append(fed, e) /\ p \in Seq(Events)
  BY <1>1, <1>3, FedGrows
<1> HIDE DEF strict, p, u
<1>6. /\ Moves(strict, t.frames, u, p) /\ Tallied(u.frames)
      /\ u.err = "none" => ResponsesOpen(strict, u, p)
      /\ u.err # "none" => Writes(strict, u.frames, u)
  BY <1>1, <1>3, <1>4, <1>5, ResponsesReceives
<1>7. Bracketed' = Bracketed
  BY DEF Bracketed
<1> QED
  BY <1>4, <1>5, <1>6, <1>7 DEF Delivers, Agrees, Going, Halted, strict, p, u

LEMMA ReceivesNative ==
  ASSUME IInv, state = "open", path = "native", path' = path, NEW e \in Sendable, fed' = Append(fed, e),
         Translate(e) \/ TranslateGemini(e)
  PROVE  Delivers
<1> DEFINE strict == Bracketed
           p == fed'
           u == t'
<1>1. strict \in BOOLEAN /\ ~strict /\ fed \in Seq(Events) /\ NativeOpen(strict, t, fed)
  BY BracketedIs DEF IInv, Going, Bracketed
<1>2. e \in NativeEvents /\ t.flow \in Flows \cup {"none"}
  <2>1. t \in Writer
    BY <1>1, FreshIs DEF NativeOpen, NativeBooks, Writes, Over
  <2> QED
    BY <2>1 DEF Sendable, Writer
<1>3. e \in Events /\ Continues(t, fed, e)
  BY <1>1, <1>2, NativeEventsAre DEF Continues
<1>4. u = NativeEvent(t, e) /\ state' = IF u.err = "none" THEN "open" ELSE "refused"
  BY DEF Translate, TranslateGemini, Translated, Took
<1>5. p = Append(fed, e) /\ p \in Seq(Events)
  BY <1>1, <1>3, FedGrows
<1> HIDE DEF strict, p, u
<1>6. /\ Moves(strict, t.frames, u, p)
      /\ u.err = "none" => NativeOpen(strict, u, p)
      /\ u.err # "none" => Writes(strict, u.frames, u)
  BY <1>1, <1>3, <1>4, <1>5, NativeReceives
<1>7. Bracketed' = Bracketed
  BY DEF Bracketed
<1> QED
  BY <1>4, <1>5, <1>6, <1>7 DEF Delivers, Agrees, Going, Halted, strict, p, u

LEMMA ReceivesMarked ==
  ASSUME IInv, state = "open", path = "marked", path' = path, NEW e \in Sendable, fed' = Append(fed, e),
         Translate(e) \/ TranslateGemini(e)
  PROVE  Delivers
<1> DEFINE strict == Bracketed
           p == fed'
           u == t'
<1>1. strict \in BOOLEAN /\ fed \in Seq(Events) /\ MarkedOpen(strict, t, fed)
  BY BracketedIs DEF IInv, Going
<1>2. e \in NativeEvents /\ t.flow \in Flows \cup {"none"}
  BY <1>1 DEF Sendable, MarkedOpen, Writer
<1>3. e \in Events /\ Continues(t, fed, e)
  BY <1>1, <1>2, NativeEventsAre DEF Continues
<1>4. u = MarkedEvent(t, e) /\ state' = IF u.err = "none" THEN "open" ELSE "refused"
  BY DEF Translate, TranslateGemini, Translated, Took
<1>5. p = Append(fed, e) /\ p \in Seq(Events)
  BY <1>1, <1>3, FedGrows
<1> HIDE DEF strict, p, u
<1>6. Moves(strict, t.frames, u, p) /\ MarkedOpen(strict, u, p) /\ u.err = "none"
  BY <1>1, <1>3, <1>4, <1>5, MarkedReceives
<1>7. Bracketed' = Bracketed
  BY DEF Bracketed
<1> QED
  BY <1>4, <1>5, <1>6, <1>7 DEF Delivers, Agrees, Going, Halted, strict, p, u

LEMMA ReceivePreserves ==
  ASSUME IInv, Receive
  PROVE  IInv'
<1>1. PICK e \in Sendable : fed' = Append(fed, e) /\ (Translate(e) \/ TranslateGemini(e))
  BY DEF Receive
<1>2. state = "open" /\ path' = path /\ foot' = Footed(foot, t, t')
  BY DEF Receive
<1>3. path \in {"chat", "gemini", "responses", "codex", "geminiChat", "native", "marked"}
  BY StreamsAssumption DEF IInv
<1>4. Delivers
  BY <1>1, <1>2, <1>3, ReceivesChat, ReceivesGemini, ReceivesGeminiChat, ReceivesCodex, ReceivesResponses,
     ReceivesNative, ReceivesMarked
<1> QED
  BY <1>2, <1>4, Delivered

LEMMA FinalizePreserves ==
  ASSUME IInv, Finalize
  PROVE  IInv'
<1> DEFINE strict == Bracketed
           u == t'
<1>1. /\ strict \in BOOLEAN /\ fed \in Seq(Events) /\ Earned(t.frames, fed) /\ Going
      /\ t.frames \in Seq(Frame) /\ Ordered(strict, t.frames) /\ Agrees(t.frames)
  BY BracketedIs DEF IInv, Finalize
<1>2. /\ u = Finalized /\ foot' = Footed(foot, t, t')
      /\ path' = path /\ fed' = fed /\ state' \notin {"open", "refused"}
  BY DEF Finalize
<1>3. path \in {"chat", "gemini", "responses", "codex", "geminiChat", "native", "marked"}
  BY StreamsAssumption DEF IInv
<1> HIDE DEF strict, u
<1>4. Moves(strict, t.frames, u, fed) /\ Agrees(u.frames)
  <2>1. CASE path = "chat"
    <3>1. ChatOpen(strict, t, fed) /\ u = ChatFinalize(t)
      BY <1>1, <1>2, <2>1 DEF Going, Finalized, strict
    <3>2. Moves(strict, t.frames, u, fed) /\ Tallied(u.frames)
      BY <1>1, <3>1, ChatEnds
    <3> QED
      BY <2>1, <3>2 DEF Agrees
  <2>2. CASE path = "gemini"
    <3>1. /\ GeminiOpen(strict, t, g, fed)
          /\ u = IF g.closed THEN ChatFinalize(t) ELSE [t EXCEPT !.err = EOF(g)]
      BY <1>1, <1>2, <2>2 DEF Going, Finalized, strict
    <3>2. Moves(strict, t.frames, u, fed) /\ Tallied(u.frames)
      BY <1>1, <3>1, GeminiEnds
    <3> QED
      BY <2>2, <3>2 DEF Agrees
  <2>3. CASE path = "geminiChat"
    <3>1. /\ GeminiChatOpen(strict, t, g, fed)
          /\ u = IF g.closed THEN t
                 ELSE IF g.output THEN Say([t EXCEPT !.err = EOF(g)], "error", "message")
                 ELSE [t EXCEPT !.err = EOF(g)]
      BY <1>1, <1>2, <2>3 DEF Going, Finalized, strict
    <3>2. Moves(strict, t.frames, u, fed) /\ Tallied(u.frames)
      BY <1>1, <3>1, GeminiChatEnds
    <3> QED
      BY <2>3, <3>2 DEF Agrees
  <2>4. CASE path = "codex"
    <3>1. CodexOpen(strict, t, fed) /\ u = CodexFinalize(t)
      BY <1>1, <1>2, <2>4 DEF Going, Finalized, strict
    <3>2. CodexHalted(strict, t) /\ Unreasoned(t.frames)
      BY <1>1, <2>4, <3>1 DEF CodexOpen, CodexHalted, Closing, Agrees
    <3>3. Moves(strict, t.frames, u, fed) /\ Unreasoned(u.frames)
      BY <1>1, <3>1, <3>2, CodexEnds
    <3> QED
      BY <2>4, <3>3 DEF Agrees
  <2>5. CASE path = "responses"
    <3>1. ResponsesOpen(strict, t, fed) /\ u = ResponsesFinalize(t)
      BY <1>1, <1>2, <2>5 DEF Going, Finalized, strict
    <3>2. Moves(strict, t.frames, u, fed) /\ Tallied(u.frames)
      BY <1>1, <3>1, ResponsesEnds
    <3> QED
      BY <2>5, <3>2 DEF Agrees
  <2>6. CASE path = "native"
    <3>1. NativeOpen(strict, t, fed) /\ u = ChatClientFinalize(t)
      BY <1>1, <1>2, <2>6 DEF Going, Finalized, strict
    <3>2. Moves(strict, t.frames, u, fed)
      BY <1>1, <3>1, NativeEnds
    <3> QED
      BY <2>6, <3>2 DEF Agrees
  <2>7. CASE path = "marked"
    <3>1. u = t
      BY <1>2, <2>7 DEF Finalized
    <3> QED
      BY <1>1, <3>1, Still
  <2> QED
    BY <1>3, <2>1, <2>2, <2>3, <2>4, <2>5, <2>6, <2>7
<1>5. Delivers
  BY <1>1, <1>2, <1>4 DEF Delivers, strict, u
<1> QED
  BY <1>2, <1>5, Delivered

LEMMA DispatchedPreserves ==
  ASSUME IInv, Dispatched
  PROVE  IInv'
<1> DEFINE strict == Bracketed
           u == t'
<1>1. /\ strict \in BOOLEAN /\ fed \in Seq(Events) /\ Earned(t.frames, fed) /\ Halted
      /\ t.frames \in Seq(Frame) /\ Ordered(strict, t.frames) /\ Agrees(t.frames)
  BY BracketedIs DEF IInv, Dispatched
<1>2. /\ foot' = Footed(foot, t, t')
      /\ path' = path /\ fed' = fed /\ state' \notin {"open", "refused"}
  BY DEF Dispatched
<1>3. \/ path = "codex" /\ u = CodexFinalize(t)
      \/ path # "codex" /\ t.err = "upstream" /\ u = ErrorFrame(t)
      \/ path # "codex" /\ u = t
  <2>1. CASE path = "codex"
    BY <2>1 DEF Dispatched
  <2>2. CASE path # "codex" /\ t.err = "upstream" /\ Len(t.frames) > PreludeLength
    BY <2>2 DEF Dispatched
  <2>3. CASE path # "codex" /\ ~(t.err = "upstream" /\ Len(t.frames) > PreludeLength)
    BY <2>3 DEF Dispatched
  <2> QED
    BY <2>1, <2>2, <2>3
<1> HIDE DEF strict, u
<1>4. Moves(strict, t.frames, u, fed) /\ Agrees(u.frames)
  <2>1. CASE path = "codex" /\ u = CodexFinalize(t)
    <3>1. CodexHalted(strict, t) /\ Unreasoned(t.frames)
      BY <1>1, <2>1 DEF Halted, Agrees, strict
    <3>2. Moves(strict, t.frames, u, fed) /\ Unreasoned(u.frames)
      BY <1>1, <2>1, <3>1, CodexEnds
    <3> QED
      BY <2>1, <3>2 DEF Agrees
  <2>2. CASE path # "codex" /\ t.err = "upstream" /\ u = ErrorFrame(t)
    <3>1. Writes(strict, t.frames, t)
      BY <1>1, <2>2 DEF Halted, strict
    <3>2. Concluded(strict, t.frames, u) /\ LastOf(u.frames) = "error"
      BY <1>1, <2>2, <3>1, ErrorConcludes
    <3>3. Moves(strict, t.frames, u, fed) /\ Tallied(u.frames)
      BY <3>2, ErrorMoves DEF Concluded
    <3> QED
      BY <2>2, <3>3 DEF Agrees
  <2>3. CASE path # "codex" /\ u = t
    BY <1>1, <2>3, Still
  <2> QED
    BY <1>3, <2>1, <2>2, <2>3
<1>5. Delivers
  BY <1>1, <1>2, <1>4 DEF Delivers, strict, u
<1> QED
  BY <1>2, <1>5, Delivered

\* The message starts before the upstream is called.
LEMMA MessageStarts ==
  ASSUME NEW strict \in BOOLEAN, NEW s, s = MessageStart(Start(Fresh))
  PROVE  /\ Writes(strict, <<>>, s) /\ Count(s.frames) = s.next /\ Shut(s) /\ Untold(s)
         /\ s.life = "started" /\ s.err = "none" /\ s.started /\ ~s.closed /\ ~s.failed /\ s.flow = "none"
         /\ DOMAIN s.items = {}
<1> DEFINE b == Start(Fresh)
           E == <<>>
<1>1. /\ b \in Writer /\ OnlyLife(Fresh, b) /\ b.life = "started" /\ b.err = "none"
  BY FreshIs, StartIs
<1>2. /\ b.frames = <<>> /\ b.next = 0 /\ ~b.failed /\ ~b.closed /\ b.flow = "none" /\ b.calls = 0
      /\ DOMAIN b.items = {}
  BY <1>1, FreshIs, OnlyLifeMeans
<1>3. E \in Seq(Frame) /\ Grows(E, b.frames)
  BY <1>2, EmptySeq, GrowsSelf
<1> HIDE DEF b, E
<1>4. /\ Writes(strict, E, s)
      /\ s = [b EXCEPT !.started = TRUE, !.frames = s.frames, !.next = s.next]
      /\ Count(s.frames) = s.next
      /\ \A c, k : ~IsOpen(s.frames, c, k)
      /\ Told(s.frames) = {}
      /\ ~Called(s.frames)
  BY <1>1, <1>2, <1>3, MessageStartIs DEF b
<1>5. /\ s.life = "started" /\ s.err = "none" /\ s.started /\ ~s.closed /\ ~s.failed /\ s.flow = "none"
      /\ s.calls = 0 /\ s.items = b.items
  BY <1>1, <1>2, <1>4 DEF Writer
<1> QED
  BY <1>2, <1>4, <1>5 DEF Shut, Untold, E

LEMMA InitOpens ==
  ASSUME Init
  PROVE  Moves(Bracketed, <<>>, t, fed) /\ Agrees(t.frames) /\ Going
<1> DEFINE strict == Bracketed
           E == <<>>
<1>1. /\ strict \in BOOLEAN /\ fed = <<>> /\ g = Fresh
      /\ path \in {"chat", "gemini", "responses", "codex", "geminiChat", "native", "marked"}
  BY BracketedIs, StreamsAssumption DEF Init
<1>2. \A k : ~FedOf(fed, k)
  BY <1>1 DEF FedOf
<1>3. Unharmed(fed)
  BY <1>2 DEF Unharmed
<1>4. E \in Seq(Frame) /\ Grows(E, <<>>)
  BY EmptySeq, GrowsSelf
<1>5. Accepting(g) /\ ~g.closed /\ Fresh \in Writer /\ Fresh.frames = <<>> /\ Fresh.err = "none" /\ Fresh.flow = "none"
  BY <1>1, FreshIs DEF Accepting
<1> HIDE DEF strict, E
<1>6. CASE path \in {"chat", "gemini", "responses"}
  <2>1. t = MessageStart(Start(Fresh))
    BY <1>6 DEF Init
  <2>2. /\ Writes(strict, <<>>, t) /\ Count(t.frames) = t.next /\ Shut(t) /\ Untold(t)
        /\ t.life = "started" /\ t.err = "none" /\ t.started /\ ~t.closed /\ ~t.failed /\ t.flow = "none"
        /\ DOMAIN t.items = {}
    BY <1>1, <2>1, MessageStarts
  <2>3. Moves(strict, <<>>, t, fed) /\ Tallied(t.frames) /\ Writes(strict, t.frames, t)
    BY <2>2, LiveMoves, Rebased
  <2>4. IsFiniteSet(DOMAIN t.items)
    BY <2>2, FS_EmptySet
  <2>5. Chatting(strict, t.frames, t)
    BY <2>2, <2>3, <2>4 DEF Chatting, ChatBlocks, Shut
  <2>6. Responding(strict, t.frames, t)
    BY <2>2, <2>3, <2>4 DEF Responding, ItemBlocks, Shut
  <2>7. ChatOpen(strict, t, fed)
    BY <1>2, <2>2, <2>5 DEF ChatOpen
  <2>8. GeminiOpen(strict, t, g, fed)
    BY <1>2, <1>5, <2>2, <2>5 DEF GeminiOpen
  <2>9. ResponsesOpen(strict, t, fed)
    BY <1>1, <1>2, <2>2, <2>6 DEF ResponsesOpen, Itemized, Placed
  <2> QED
    BY <1>6, <2>3, <2>7, <2>8, <2>9 DEF Going, Agrees, strict
<1>7. CASE path = "codex"
  <2> DEFINE b == Start(Fresh)
  <2>1. t = Say(b, "start", "message")
    BY <1>7 DEF Init
  <2>2. /\ b \in Writer /\ b.frames = <<>> /\ b.next = 0 /\ ~b.closed /\ DOMAIN b.items = {} /\ DOMAIN b.kinds = {}
    BY FreshIs, StartIs, OnlyLifeMeans
  <2> HIDE DEF b
  <2>3. /\ Writes(strict, E, t) /\ OnlyFrames(b, t) /\ t.next = b.next
        /\ Count(t.frames) = 0 /\ Told(t.frames) = {}
        /\ \A c, k : ~IsOpen(t.frames, c, k)
    BY <1>1, <1>4, <2>1, <2>2, BeginIs
  <2>4. ~t.closed /\ t.items = b.items /\ t.kinds = b.kinds
    BY <2>2, <2>3, OnlyFramesMeans
  <2>5. Moves(strict, E, t, fed) /\ ~Finished(t.frames) /\ Writes(strict, t.frames, t)
    BY <2>3, LiveMoves, Rebased
  <2>6. Coding(strict, t.frames, t)
    BY <2>2, <2>3, <2>4, <2>5, FS_EmptySet DEF Coding, CodexBlocks
  <2> QED
    BY <1>2, <1>7, <2>5, <2>6 DEF Going, Agrees, Unreasoned, CodexOpen, strict, E
<1>8. CASE path \in {"geminiChat", "native"}
  <2>1. t = Fresh
    BY <1>8 DEF Init
  <2>2. Moves(strict, <<>>, t, fed) /\ Tallied(t.frames)
    BY <1>5, <2>1, EmptyIs, Still DEF Tallied
  <2>3. GeminiChatOpen(strict, t, g, fed) /\ NativeOpen(strict, t, fed)
    BY <1>1, <1>2, <1>3, <1>5, <2>1 DEF GeminiChatOpen, NativeOpen
  <2> QED
    BY <1>8, <2>2, <2>3 DEF Going, Agrees, strict
<1>9. CASE path = "marked"
  <2>1. t = IF Marker THEN MessageStart(Fresh) ELSE Fresh
    BY <1>9, StreamsAssumption DEF Init
  <2>2. CASE Marker
    <3> DEFINE b == Fresh
    <3>1. t = MessageStart(b) /\ b \in Writer /\ b.frames = <<>> /\ b.next = 0 /\ b.flow = "none" /\ b.err = "none"
      BY <2>1, <2>2, FreshIs
    <3> HIDE DEF b
    <3>2. /\ Writes(strict, E, t)
          /\ t = [b EXCEPT !.started = TRUE, !.frames = t.frames, !.next = t.next]
          /\ Count(t.frames) = t.next
          /\ t.next = IF Marker THEN 1 ELSE 0
          /\ \A c, k : ~IsOpen(t.frames, c, k)
      BY <1>1, <1>4, <3>1, MessageStartIs
    <3>3. t.flow = "none" /\ t.err = "none" /\ t \in Writer
      BY <3>1, <3>2 DEF Writer, Writes
    <3>4. Moves(strict, E, t, fed) /\ Writes(strict, t.frames, t)
      BY <3>2, LiveMoves, Rebased
    <3>5. MarkedOpen(strict, t, fed)
      BY <1>1, <1>3, <2>2, <3>2, <3>3, <3>4 DEF MarkedOpen, Shut
    <3> QED
      BY <1>9, <3>4, <3>5 DEF Going, Agrees, strict, E
  <2>3. CASE ~Marker
    <3>1. t = Fresh
      BY <2>1, <2>3
    <3>2. Moves(strict, <<>>, t, fed)
      BY <1>5, <3>1, EmptyIs, Still
    <3>3. MarkedOpen(strict, t, fed)
      BY <1>1, <1>3, <1>5, <2>3, <3>1 DEF MarkedOpen
    <3> QED
      BY <1>9, <3>2, <3>3 DEF Going, Agrees, strict
  <2> QED
    BY <2>2, <2>3
<1> QED
  BY <1>1, <1>6, <1>7, <1>8, <1>9

LEMMA InitIInv ==
  ASSUME Init
  PROVE  IInv
<1> DEFINE w == [out |-> <<>>, held |-> <<>>]
           s == Fresh
           u == t
           v == foot
<1>1. /\ path \in Paths /\ fed = <<>> /\ v = Footed(w, s, u) /\ state = "open"
      /\ s.frames = <<>>
  BY FreshIs DEF Init
<1>2. Moves(Bracketed, <<>>, u, fed) /\ Agrees(u.frames) /\ Going
  BY InitOpens
<1>3. w \in Footing /\ w.out = <<>> /\ w.held = <<>>
  BY EmptySeq DEF Footing
<1>4. Trails(<<>>, w)
  <2>1. Live(Bracketed, <<>>)
    BY EmptySeq DEF Live, Ordered
  <2>2. Alike(Bracketed, <<>>, <<>>)
    BY <2>1, EmptySeq DEF Alike, AsOpen, Live
  <2> HIDE DEF w
  <2> QED
    BY <1>3, <2>2 DEF Trails
<1>5. /\ s.frames \in Seq(Frame) /\ u.frames \in Seq(Frame) /\ Grows(s.frames, u.frames)
      /\ Ordered(Bracketed, u.frames) /\ Trails(s.frames, w)
  BY <1>1, <1>2, <1>4, EmptySeq DEF Moves
<1>6. Trails(u.frames, v)
  <2> HIDE DEF w, s, u, v
  <2> QED
    BY <1>1, <1>5, FootedIs
<1>7. fed \in Seq(Events)
  BY <1>1, EmptySeq
<1> QED
  BY <1>1, <1>2, <1>5, <1>6, <1>7 DEF IInv, Moves

LEMMA NextIInv ==
  ASSUME IInv, [Next]_vars
  PROVE  IInv'
<1>1. CASE Receive
  BY <1>1, ReceivePreserves
<1>2. CASE Finalize
  BY <1>2, FinalizePreserves
<1>3. CASE Dispatched
  BY <1>3, DispatchedPreserves
<1>4. CASE UNCHANGED vars
  BY <1>4 DEF vars, IInv, Going, Halted, Agrees, Trails, Holding, Bracketed, MessagesClient
<1> QED
  BY <1>1, <1>2, <1>3, <1>4 DEF Next

-----------------------------------------------------------------------------
(* The theorems.                                                           *)

\* The client's frames are in place, and agree with the translator's on how
\* the answer ends.
LEMMA TrailsDelivers ==
  ASSUME NEW F, F \in Seq(Frame), Ordered(Bracketed, F), Trails(F, foot)
  PROVE  /\ foot.out \in Seq(Frame) /\ Ordered(Bracketed, foot.out)
         /\ Finished(foot.out) => /\ Finished(F)
                                  /\ Told(foot.out) = Told(F) /\ (Called(foot.out) <=> Called(F))
<1> DEFINE G == foot.out
<1>1. CASE Alike(Bracketed, F, G)
  <2>1. /\ G \in Seq(Frame) /\ Ordered(Bracketed, G) /\ (F = <<>> <=> G = <<>>)
        /\ Live(Bracketed, F) => Live(Bracketed, G)
        /\ Live(Bracketed, F) \/ LastOf(G) = LastOf(F)
        /\ Told(G) = Told(F) /\ (Called(G) <=> Called(F))
    BY <1>1 DEF Alike
  <2> HIDE DEF G
  <2>2. Live(Bracketed, G) => ~Finished(G)
    BY Unfinished
  <2>3. Finished(G) => Finished(F)
    BY <2>1, <2>2 DEF Finished
  <2> QED
    BY <2>1, <2>3 DEF G
<1>2. CASE Holding(F, foot)
  <2>1. PICK E \in Seq(Frame), h \in Frame : F = Append(E, h) /\ Alike(Bracketed, E, G)
    BY <1>2 DEF Holding
  <2>2. Grows(E, F) /\ Len(E) < Len(F)
    BY <2>1, AppendGrows
  <2>3. Live(Bracketed, E)
    BY <2>2, BracketedIs, OrderedPrefix
  <2>4. G \in Seq(Frame) /\ Ordered(Bracketed, G) /\ Live(Bracketed, G)
    BY <2>1, <2>3 DEF Alike
  <2> HIDE DEF G
  <2>5. ~Finished(G)
    BY <2>4, Unfinished
  <2> QED
    BY <2>4, <2>5 DEF G
<1> QED
  BY <1>1, <1>2 DEF Trails

LEMMA IInvBracketed ==
  ASSUME IInv
  PROVE  BlocksAreBracketed
<1> DEFINE G == foot.out
<1>1. G \in Seq(Frame) /\ Ordered(Bracketed, G)
  BY TrailsDelivers DEF IInv
<1> SUFFICES ASSUME NEW n \in DOMAIN G
             PROVE  LET f == G[n] IN
                    /\ n = 1 <=> f.frame = "start"
                    /\ f.frame \in {"end", "error"} => n = Len(G)
                    /\ f.frame = "open" => f.block = Cardinality(Opens(n))
                    /\ f.frame = "stop" \/ (f.frame = "delta" /\ (Bracketed \/ f.kind = "tool")) =>
                         /\ \E m \in Before(n, "open", f.block) :
                              G[m].kind \in (IF f.kind = "footer" THEN {"text", "marker"} ELSE {f.kind})
                         /\ Before(n, "stop", f.block) = {}
                    /\ f.frame = "end" /\ Bracketed =>
                         \A m \in Opens(n) : Before(n, "stop", G[m].block) # {}
  BY DEF BlocksAreBracketed, Frames
<1>2. InPlace(Bracketed, G, n)
  BY <1>1 DEF Ordered
<1>3. /\ Opens(n) = {m \in Earlier(n) : G[m].frame = "open"}
      /\ \A c, b : Before(n, c, b) = {m \in Earlier(n) : G[m].frame = c /\ G[m].block = b}
  BY DEF Opens, Before, Frames, Earlier
<1> HIDE DEF G
<1> DEFINE f == G[n]
<1>4. f.frame = "open" => f.block = Cardinality(Opens(n))
  BY <1>2, <1>3 DEF InPlace
<1>5. f.frame = "stop" \/ (f.frame = "delta" /\ (Bracketed \/ f.kind = "tool")) =>
         /\ \E m \in Before(n, "open", f.block) : G[m].kind \in Holds(f.kind)
         /\ Before(n, "stop", f.block) = {}
  BY <1>2, <1>3 DEF InPlace
<1>6. f.frame = "end" /\ Bracketed => \A m \in Opens(n) : Before(n, "stop", G[m].block) # {}
  BY <1>2, <1>3 DEF InPlace
<1>7. (n = 1 <=> f.frame = "start") /\ (f.frame \in {"end", "error"} => n = Len(G))
  BY <1>2 DEF InPlace
<1> QED
  BY <1>4, <1>5, <1>6, <1>7 DEF Holds

LEMMA IInvEarned ==
  ASSUME IInv
  PROVE  EndIsEarned
<1> DEFINE G == foot.out
           F == t.frames
<1>1. Finished(G) => /\ Finished(F)
                     /\ Told(G) = Told(F) /\ (Called(G) <=> Called(F))
  BY TrailsDelivers DEF IInv
<1>2. /\ Ended <=> Finished(G)
      /\ \A k : Fed(k) <=> FedOf(fed, k)
  BY DEF Ended, Finished, LastOf, Frames, Fed, FedOf
<1>3. Earned(F, fed) /\ Agrees(F) /\ path \in {"chat", "gemini", "responses", "codex", "geminiChat", "native", "marked"}
  BY StreamsAssumption DEF IInv
<1>4. Said("finish", {"tool_use"}) <=> "tool_use" \in Told(G)
  BY DEF Said, Told, Frames
<1>5. Said("open", {"tool", "nudge"}) <=> Called(G)
  BY DEF Said, Called, Frames
<1> HIDE DEF G, F
<1> QED
  BY <1>1, <1>2, <1>3, <1>4, <1>5 DEF EndIsEarned, Earned, Agrees, Unreasoned, Tallied, Tells

LEMMA InvariantIInv ==
  Spec => []IInv
BY InitIInv, NextIInv, PTL DEF Spec

\* What every client's parser relies on, whatever the upstream sends, however it
\* ends and whatever Write refuses: BlocksAreBracketed, after the footer writer.
THEOREM BlocksAlwaysBracketed ==
  Spec => []BlocksAreBracketed
BY InvariantIInv, IInvBracketed, PTL

\* No client is told that an answer is complete unless the upstream said so, and
\* none of calls it was not sent: EndIsEarned.
THEOREM EndAlwaysEarned ==
  Spec => []EndIsEarned
BY InvariantIInv, IInvEarned, PTL
=============================================================================
