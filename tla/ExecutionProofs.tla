-------------------------- MODULE ExecutionProofs --------------------------
(***************************************************************************)
(* What holds of Execution for any documents, however deep, and any number *)
(* of streams and rows.                                                    *)
(*                                                                         *)
(* The answer is a tree over positions; a resolver puts a smaller tree in  *)
(* the place of a node that waits.  Positions and the tables of the schema *)
(* come first, then the trees that resolvers give (Graft), the answer as a *)
(* whole (Tree), the stream around a position (Source) and the invariant   *)
(* (IInv).  Then every step keeps it, resolver by resolver, and never      *)
(* takes back an answer; the properties follow.                            *)
(***************************************************************************)
EXTENDS Execution, SequenceTheorems, FiniteSetTheorems, WellFoundedInduction,
        TLAPS

-----------------------------------------------------------------------------
(* Positions *)

(* Appending to a path or to the ids, and what Front and Last find then *)
LEMMA AppendFacts ==
  ASSUME NEW S, NEW s \in Seq(S), NEW e \in S
  PROVE  /\ Append(s, e) \in Seq(S)
         /\ Len(Append(s, e)) = Len(s) + 1
         /\ Append(s, e)[Len(s) + 1] = e
         /\ \A i \in 1 .. Len(s) : Append(s, e)[i] = s[i]
         /\ Front(Append(s, e)) = s
         /\ Last(Append(s, e)) = e
  <1>1. /\ Append(s, e) \in Seq(S)
        /\ Len(Append(s, e)) = Len(s) + 1
        /\ Append(s, e)[Len(s) + 1] = e
        /\ \A i \in 1 .. Len(s) : Append(s, e)[i] = s[i]
    OBVIOUS
  <1>2. Last(Append(s, e)) = e
    BY <1>1 DEF Last
  <1>3. Front(Append(s, e)) = SubSeq(Append(s, e), 1, Len(s))
    BY <1>1 DEF Front
  <1>4. /\ SubSeq(Append(s, e), 1, Len(s)) \in Seq(S)
        /\ Len(SubSeq(Append(s, e), 1, Len(s))) = Len(s)
        /\ \A i \in 1 .. Len(s) : SubSeq(Append(s, e), 1, Len(s))[i] = s[i]
    BY <1>1
  <1>5. SubSeq(Append(s, e), 1, Len(s)) = s
    BY <1>4, SeqEqual
  <1> QED  BY <1>1, <1>2, <1>3, <1>5

LEMMA FrontFacts ==
  ASSUME NEW S, NEW s \in Seq(S), s # << >>
  PROVE  /\ Front(s) \in Seq(S)
         /\ Last(s) \in S
         /\ Len(s) \in Nat \ {0}
         /\ Len(Front(s)) = Len(s) - 1
         /\ s = Append(Front(s), Last(s))
  <1>1. Len(s) \in Nat \ {0} /\ Last(s) \in S
    BY EmptySeq DEF Last
  <1>2. /\ Front(s) \in Seq(S)
        /\ Len(Front(s)) = Len(s) - 1
        /\ \A i \in 1 .. Len(s) - 1 : Front(s)[i] = s[i]
    <2> DEFINE n == Len(s) - 1
    <2>1. n \in Nat /\ n < Len(s) /\ Front(s) = SubSeq(s, 1, n)
      BY <1>1 DEF Front
    <2> HIDE DEF n
    <2>2. /\ SubSeq(s, 1, n) \in Seq(S)
          /\ Len(SubSeq(s, 1, n)) = n
          /\ \A i \in 1 .. n : SubSeq(s, 1, n)[i] = s[i]
      BY <1>1, <2>1
    <2> QED  BY <2>1, <2>2 DEF n
  <1>3. s = Append(Front(s), Last(s))
    <2>1. /\ Append(Front(s), Last(s)) \in Seq(S)
          /\ Len(Append(Front(s), Last(s))) = Len(s)
          /\ \A i \in 1 .. Len(s) : Append(Front(s), Last(s))[i] = s[i]
      BY <1>1, <1>2 DEF Last
    <2> QED  BY <2>1, SeqEqual
  <1> QED  BY <1>1, <1>2, <1>3

(* A prefix agrees element by element. *)
LEMMA PrefixPointwise ==
  ASSUME NEW S, NEW s \in Seq(S), NEW t \in Seq(S)
  PROVE  IsPrefix(s, t) <=>
           /\ Len(s) <= Len(t)
           /\ \A i \in 1 .. Len(s) : s[i] = t[i]
  <1>1. ASSUME Len(s) <= Len(t)
        PROVE  /\ SubSeq(t, 1, Len(s)) \in Seq(S)
               /\ Len(SubSeq(t, 1, Len(s))) = Len(s)
               /\ \A i \in 1 .. Len(s) : SubSeq(t, 1, Len(s))[i] = t[i]
    BY <1>1
  <1>2. SubSeq(s, 1, Len(s)) = s
    BY SubSeqFull
  <1>3. ASSUME IsPrefix(s, t)
        PROVE  Len(s) <= Len(t) /\ \A i \in 1 .. Len(s) : s[i] = t[i]
    <2>1. Len(s) <= Len(t) /\ s = SubSeq(t, 1, Len(s))
      BY <1>2, <1>3 DEF IsPrefix
    <2> QED  BY <1>1, <2>1
  <1>4. ASSUME Len(s) <= Len(t), \A i \in 1 .. Len(s) : s[i] = t[i]
        PROVE  IsPrefix(s, t)
    <2>1. s = SubSeq(t, 1, Len(s))
      BY <1>1, <1>4, SeqEqual
    <2> QED  BY <1>2, <1>4, <2>1 DEF IsPrefix
  <1> QED  BY <1>3, <1>4

LEMMA PrefixTransitive ==
  ASSUME NEW S, NEW r \in Seq(S), NEW s \in Seq(S), NEW t \in Seq(S),
         IsPrefix(r, s), IsPrefix(s, t)
  PROVE  IsPrefix(r, t)
  <1>1. /\ Len(r) <= Len(s) /\ Len(s) <= Len(t)
        /\ \A i \in 1 .. Len(r) : r[i] = s[i]
        /\ \A i \in 1 .. Len(s) : s[i] = t[i]
    BY PrefixPointwise
  <1>2. Len(r) <= Len(t) /\ \A i \in 1 .. Len(r) : r[i] = t[i]
    BY <1>1
  <1> QED  BY <1>2, PrefixPointwise

(* The names of fields, and of the elements of a list *)
Names == {"item"} \cup UNION {DOMAIN Fields[type] : type \in DOMAIN Fields}

LEMMA ItemName == "item" \in Names
  BY DEF Names

(* A position has an id for each element of a list on its path. *)
Places(p) == {i \in 1 .. Len(p) : p[i] = "item"}
Items(p) == Cardinality(Places(p))
Position ==
  {z \in [path : Seq(Names), at : Seq(Nat)] : Len(z.at) = Items(z.path)}

(* A path with as many ids as it has elements of lists is a position. *)
LEMMA NewPosition ==
  ASSUME NEW p \in Seq(Names), NEW a \in Seq(Nat), Len(a) = Items(p)
  PROVE  [path |-> p, at |-> a] \in Position
  <1> DEFINE z == [path |-> p, at |-> a]
  <1>1. /\ z \in [path : Seq(Names), at : Seq(Nat)]
        /\ z.path = p /\ z.at = a
    OBVIOUS
  <1> QED  BY <1>1 DEF Position

LEMMA ItemsType ==
  ASSUME NEW p \in Seq(Names)
  PROVE  IsFiniteSet(Places(p)) /\ Items(p) \in Nat
  <1>1. Places(p) \in SUBSET (1 .. Len(p)) /\ IsFiniteSet(1 .. Len(p))
    BY FS_Interval DEF Places
  <1> QED  BY <1>1, FS_Subset, FS_CardinalityType DEF Items

(* Only a step into a list needs one more id. *)
LEMMA ItemsAppend ==
  ASSUME NEW p \in Seq(Names), NEW f \in Names
  PROVE  /\ f = "item" => Items(Append(p, f)) = Items(p) + 1
         /\ f # "item" => Items(Append(p, f)) = Items(p)
  <1>1. CASE f = "item"
    <2>1. Places(Append(p, f)) = Places(p) \cup {Len(p) + 1}
      BY <1>1 DEF Places
    <2>2. Len(p) + 1 \notin Places(p)
      BY DEF Places
    <2> QED  BY <1>1, <2>1, <2>2, ItemsType, FS_AddElement DEF Items
  <1>2. CASE f # "item"
    <2>1. Places(Append(p, f)) = Places(p)
      BY <1>2 DEF Places
    <2> QED  BY <1>2, <2>1 DEF Items
  <1> QED  BY <1>1, <1>2

LEMMA ItemsPrefix ==
  ASSUME NEW p \in Seq(Names), NEW q \in Seq(Names), IsPrefix(p, q)
  PROVE  Items(p) <= Items(q)
  <1>1. Places(p) \in SUBSET Places(q)
    BY PrefixPointwise DEF Places
  <1> QED  BY <1>1, ItemsType, FS_Subset DEF Items

LEMMA RootPosition == Root \in Position
  <1>1. Places(<< >>) = {}
    BY DEF Places
  <1> QED  BY <1>1, FS_EmptySet DEF Root, Position, Items

(* What holds of the position y of a field or an element below x *)
Under(y, x, name, at) ==
  /\ y \in Position
  /\ y = [path |-> Append(x.path, name), at |-> at]
  /\ y.path = Append(x.path, name)
  /\ y.at = at
  /\ NameOf(y) = name
  /\ Parent(y) = x
  /\ Len(y.path) = Len(x.path) + 1
  /\ Len(x.path) \in Nat

(* Child and Item lead one step down, and Parent back. *)
LEMMA ChildPosition ==
  ASSUME NEW x \in Position, NEW f \in Names, f # "item"
  PROVE  Under(Child(x, f), x, f, x.at)
  <1>1. x.path \in Seq(Names) /\ x.at \in Seq(Nat) /\ Len(x.at) = Items(x.path)
        /\ x = [path |-> x.path, at |-> x.at]
    BY DEF Position
  <1>2. Child(x, f) = [path |-> Append(x.path, f), at |-> x.at]
    BY <1>1 DEF Child
  <1>3. /\ Child(x, f).path = Append(x.path, f)
        /\ Child(x, f).at = x.at
    BY <1>2
  <1>4. Child(x, f) \in Position
    <2>1. Items(Append(x.path, f)) = Items(x.path)
      BY <1>1, ItemsAppend
    <2>2. Append(x.path, f) \in Seq(Names)
      BY <1>1
    <2> QED  BY <1>1, <1>2, <2>1, <2>2, NewPosition
  <1>5. NameOf(Child(x, f)) = f /\ Front(Child(x, f).path) = x.path
    BY <1>1, <1>3, AppendFacts DEF NameOf
  <1>6. Parent(Child(x, f)) = x
    BY <1>1, <1>3, <1>5 DEF Parent
  <1>7. Len(Child(x, f).path) = Len(x.path) + 1 /\ Len(x.path) \in Nat
    BY <1>1, <1>3
  <1> QED  BY <1>2, <1>3, <1>4, <1>5, <1>6, <1>7 DEF Under

LEMMA ItemPosition ==
  ASSUME NEW x \in Position, NEW r \in Nat
  PROVE  Under(Item(x, r), x, "item", Append(x.at, r))
  <1>1. x.path \in Seq(Names) /\ x.at \in Seq(Nat) /\ Len(x.at) = Items(x.path)
        /\ x = [path |-> x.path, at |-> x.at]
    BY DEF Position
  <1>3. /\ Item(x, r) = [path |-> Append(x.path, "item"), at |-> Append(x.at, r)]
        /\ Item(x, r).path = Append(x.path, "item")
        /\ Item(x, r).at = Append(x.at, r)
    BY DEF Item
  <1>4. Item(x, r) \in Position
    <2>1. Items(Append(x.path, "item")) = Items(x.path) + 1
      BY <1>1, ItemName, ItemsAppend
    <2>2. /\ Append(x.path, "item") \in Seq(Names)
          /\ Append(x.at, r) \in Seq(Nat)
          /\ Len(Append(x.at, r)) = Len(x.at) + 1
      BY <1>1, ItemName
    <2> QED  BY <1>1, <1>3, <2>1, <2>2, NewPosition
  <1>5. /\ NameOf(Item(x, r)) = "item"
        /\ Front(Item(x, r).path) = x.path
        /\ Front(Item(x, r).at) = x.at
    BY <1>1, <1>3, ItemName, AppendFacts DEF NameOf
  <1>6. Parent(Item(x, r)) = x
    BY <1>1, <1>3, <1>5 DEF Parent
  <1>7. Len(Item(x, r).path) = Len(x.path) + 1 /\ Len(x.path) \in Nat
    BY <1>1, <1>3
  <1> QED  BY <1>3, <1>4, <1>5, <1>6, <1>7 DEF Under

(* Every position but the root is one or the other. *)
LEMMA PositionUnder ==
  ASSUME NEW y \in Position, y # Root
  PROVE  /\ Parent(y) \in Position
         /\ NameOf(y) \in Names
         /\ Under(y, Parent(y), NameOf(y), y.at)
         /\ \/ NameOf(y) # "item" /\ y = Child(Parent(y), NameOf(y))
            \/ \E r \in Nat : NameOf(y) = "item" /\ y = Item(Parent(y), r)
  <1>1. y.path \in Seq(Names) /\ y.at \in Seq(Nat) /\ Len(y.at) = Items(y.path)
        /\ y = [path |-> y.path, at |-> y.at]
    BY DEF Position
  <1>2. y.path # << >>
    <2> SUFFICES ASSUME y.path = << >> PROVE FALSE
      OBVIOUS
    <2>1. Len(y.at) = Len(Root.at)
      BY <1>1, RootPosition DEF Root, Position
    <2>2. y.at = << >>
      BY <1>1, <2>1, EmptySeq DEF Root
    <2> QED  BY <1>1, <2>2 DEF Root
  <1>3. /\ Front(y.path) \in Seq(Names) /\ NameOf(y) \in Names
        /\ y.path = Append(Front(y.path), NameOf(y))
    BY <1>1, <1>2, FrontFacts DEF NameOf
  <1>4. CASE NameOf(y) # "item"
    <2>1. Parent(y) = [path |-> Front(y.path), at |-> y.at]
      BY <1>4 DEF Parent
    <2>2. Parent(y) \in Position
      BY <1>1, <1>3, <1>4, <2>1, ItemsAppend, NewPosition
    <2>3. y = Child(Parent(y), NameOf(y))
      BY <1>1, <1>3, <2>1 DEF Child
    <2>4. Parent(y).at = y.at
      BY <2>1
    <2> QED  BY <1>3, <1>4, <2>2, <2>3, <2>4, ChildPosition
  <1>5. CASE NameOf(y) = "item"
    <2>1. Items(y.path) = Items(Front(y.path)) + 1 /\ Items(Front(y.path)) \in Nat
      BY <1>3, <1>5, ItemsAppend, ItemsType
    <2>2. y.at # << >>
      BY <1>1, <2>1
    <2>3. /\ Front(y.at) \in Seq(Nat) /\ Last(y.at) \in Nat
          /\ Len(Front(y.at)) = Len(y.at) - 1
          /\ y.at = Append(Front(y.at), Last(y.at))
      BY <1>1, <2>2, FrontFacts
    <2>4. Parent(y) = [path |-> Front(y.path), at |-> Front(y.at)]
      BY <1>5 DEF Parent
    <2>5. Parent(y) \in Position
      BY <1>1, <1>3, <2>1, <2>3, <2>4, NewPosition
    <2>6. y = Item(Parent(y), Last(y.at))
      BY <1>1, <1>3, <1>5, <2>3, <2>4 DEF Item
    <2>7. y.at = Append(Parent(y).at, Last(y.at))
      BY <2>3, <2>4
    <2> QED  BY <1>3, <1>5, <2>3, <2>5, <2>6, <2>7, ItemPosition
  <1> QED  BY <1>4, <1>5

(* a is above x in the answer. *)
Above(a, x) == IsStrictPrefix(a.path, x.path) /\ IsPrefix(a.at, x.at)

(* What is above has a shorter path. *)
LEMMA AboveLen ==
  ASSUME NEW a \in Position, NEW x \in Position, Above(a, x)
  PROVE  Len(a.path) < Len(x.path) /\ Len(a.path) \in Nat /\ Len(x.path) \in Nat
  <1>1. a.path \in Seq(Names) /\ x.path \in Seq(Names)
    BY DEF Position
  <1>2. /\ Len(a.path) <= Len(x.path) /\ a.path # x.path
        /\ \A i \in 1 .. Len(a.path) : a.path[i] = x.path[i]
    BY <1>1, PrefixPointwise DEF Above, IsStrictPrefix
  <1>3. Len(a.path) # Len(x.path)
    BY <1>1, <1>2, SeqEqual
  <1> QED  BY <1>1, <1>2, <1>3

LEMMA AboveTransitive ==
  ASSUME NEW a \in Position, NEW b \in Position, NEW c \in Position,
         Above(a, b), Above(b, c)
  PROVE  Above(a, c)
  <1>1. /\ a.path \in Seq(Names) /\ b.path \in Seq(Names)
        /\ c.path \in Seq(Names)
        /\ a.at \in Seq(Nat) /\ b.at \in Seq(Nat) /\ c.at \in Seq(Nat)
    BY DEF Position
  <1>2. Len(a.path) < Len(b.path) /\ Len(b.path) < Len(c.path)
    BY AboveLen
  <1>3. IsPrefix(a.path, c.path)
    BY <1>1, PrefixTransitive DEF Above, IsStrictPrefix
  <1>4. IsPrefix(a.at, c.at)
    BY <1>1, PrefixTransitive DEF Above
  <1>5. a.path # c.path
    BY <1>1, <1>2
  <1> QED  BY <1>3, <1>4, <1>5 DEF Above, IsStrictPrefix

(* What is above y is its parent or above it. *)
LEMMA AboveUnder ==
  ASSUME NEW x \in Position, NEW y \in Position, NEW a \in Position,
         NEW f \in Names, NEW at, Under(y, x, f, at),
         \/ f # "item" /\ y.at = x.at
         \/ \E r \in Nat : y.at = Append(x.at, r)
  PROVE  /\ Above(x, y)
         /\ Above(a, y) => a = x \/ Above(a, x)
  <1>1. /\ a.path \in Seq(Names) /\ x.path \in Seq(Names)
        /\ a.at \in Seq(Nat) /\ x.at \in Seq(Nat) /\ y.at \in Seq(Nat)
        /\ y.path \in Seq(Names)
        /\ Len(a.at) = Items(a.path) /\ Len(x.at) = Items(x.path)
        /\ a = [path |-> a.path, at |-> a.at]
        /\ x = [path |-> x.path, at |-> x.at]
    BY DEF Position
  <1>2. /\ y.path = Append(x.path, f)
        /\ Len(y.path) = Len(x.path) + 1
    BY DEF Under
  <1>3. \A i \in 1 .. Len(x.path) : y.path[i] = x.path[i]
    BY <1>1, <1>2
  <1>4. /\ Len(x.at) <= Len(y.at)
        /\ \A i \in 1 .. Len(x.at) : y.at[i] = x.at[i]
    <2>1. CASE y.at = x.at
      BY <1>1, <2>1
    <2>2. ASSUME NEW r \in Nat, y.at = Append(x.at, r)
          PROVE  /\ Len(x.at) <= Len(y.at)
                 /\ \A i \in 1 .. Len(x.at) : y.at[i] = x.at[i]
      BY ONLY <1>1, <2>2
    <2> QED  BY <2>1, <2>2
  <1>5. Above(x, y)
    <2>1. IsPrefix(x.path, y.path)
      <3>1. Len(x.path) <= Len(y.path)
        BY <1>1, <1>2
      <3> QED  BY ONLY <1>1, <1>3, <3>1, PrefixPointwise
    <2>2. IsPrefix(x.at, y.at)
      BY ONLY <1>1, <1>4, PrefixPointwise
    <2>3. x.path # y.path
      BY <1>1, <1>2
    <2> QED  BY <2>1, <2>2, <2>3 DEF Above, IsStrictPrefix
  <1>6. ASSUME Above(a, y) PROVE a = x \/ Above(a, x)
    <2>1. Len(a.path) <= Len(x.path)
      BY <1>2, <1>6, AboveLen
    <2>2. /\ \A i \in 1 .. Len(a.path) : a.path[i] = x.path[i]
          /\ Len(a.at) <= Len(y.at)
          /\ \A i \in 1 .. Len(a.at) : a.at[i] = y.at[i]
      <3>1. IsPrefix(a.path, y.path) /\ IsPrefix(a.at, y.at)
        BY <1>6 DEF Above, IsStrictPrefix
      <3>2. \A i \in 1 .. Len(a.path) : a.path[i] = y.path[i]
        BY <1>1, <3>1, PrefixPointwise
      <3>3. Len(a.at) <= Len(y.at) /\ \A i \in 1 .. Len(a.at) : a.at[i] = y.at[i]
        BY <1>1, <3>1, PrefixPointwise
      <3> QED  BY <1>1, <1>3, <2>1, <3>2, <3>3
    <2>3. IsPrefix(a.path, x.path)
      BY <1>1, <2>1, <2>2, PrefixPointwise
    <2>4. Len(a.at) <= Len(x.at)
      BY <1>1, <2>3, ItemsPrefix
    <2>5. \A i \in 1 .. Len(a.at) : a.at[i] = x.at[i]
      BY <1>1, <1>4, <2>2, <2>4
    <2>6. IsPrefix(a.at, x.at)
      BY <1>1, <2>4, <2>5, PrefixPointwise
    <2>7. CASE a.path = x.path
      <3>1. Len(a.at) = Len(x.at)
        BY <1>1, <2>7
      <3>2. a.at = x.at
        BY ONLY <1>1, <2>5, <3>1, SeqEqual
      <3> QED  BY <1>1, <2>7, <3>2
    <2>8. CASE a.path # x.path
      BY <2>3, <2>6, <2>8 DEF Above, IsStrictPrefix
    <2> QED  BY <2>7, <2>8
  <1> QED  BY <1>5, <1>6

(* Above a field or an element is its parent, and what is above that. *)
LEMMA AboveChild ==
  ASSUME NEW x \in Position, NEW a \in Position, NEW f \in Names, f # "item"
  PROVE  /\ Above(x, Child(x, f))
         /\ Above(a, Child(x, f)) => a = x \/ Above(a, x)
  <1>1. Under(Child(x, f), x, f, x.at) /\ Child(x, f) \in Position
        /\ Child(x, f).at = x.at
    BY ChildPosition DEF Under
  <1> QED  BY <1>1, AboveUnder

LEMMA AboveItem ==
  ASSUME NEW x \in Position, NEW a \in Position, NEW r \in Nat
  PROVE  /\ Above(x, Item(x, r))
         /\ Above(a, Item(x, r)) => a = x \/ Above(a, x)
  <1>1. Under(Item(x, r), x, "item", Append(x.at, r)) /\ Item(x, r) \in Position
        /\ Item(x, r).at = Append(x.at, r)
    BY ItemPosition DEF Under
  <1> QED  BY <1>1, ItemName, AboveUnder

LEMMA AboveParent ==
  ASSUME NEW y \in Position, NEW a \in Position, y # Root
  PROVE  /\ Above(Parent(y), y)
         /\ Above(a, y) => a = Parent(y) \/ Above(a, Parent(y))
  BY PositionUnder, AboveChild, AboveItem

-----------------------------------------------------------------------------
(* The tables *)

(* The types by what stands behind them: a row, a page, an operation *)
Entities == {"Chunk", "Stream", "Transmission", "Transcription"}
Connections ==
  {"ChunksConnection", "StreamsConnection", "TransmissionsConnection"}
Operations == {"Query", "Mutation", "Subscription"}
Types == {Scalar} \cup DOMAIN Lists \cup DOMAIN Fields

(* The types of the schema by what they are *)
LEMMA TypeNames ==
  /\ DOMAIN Fields = Entities \cup Connections \cup Operations \cup {"PageInfo"}
  /\ DOMAIN Lists = {"Chunks", "Streams", "Transmissions"}
  /\ Lists["Chunks"] = "Chunk"
  /\ Lists["Streams"] = "Stream"
  /\ Lists["Transmissions"] = "Transmission"
  <1>1. DOMAIN Fields = Entities \cup Connections \cup Operations \cup {"PageInfo"}
    BY DEF Fields, Entities, Connections, Operations
  <1>2. /\ DOMAIN Lists = {"Chunks", "Streams", "Transmissions"}
        /\ Lists["Chunks"] = "Chunk"
        /\ Lists["Streams"] = "Stream"
        /\ Lists["Transmissions"] = "Transmission"
    BY DEF Lists, ChunkList, StreamList, TransmissionList, ++
  <1> QED  BY <1>1, <1>2

LEMMA FieldParts ==
  ASSUME NEW type, NEW asks, NEW nullable
  PROVE  /\ Field(type, asks, nullable).of = type
         /\ Field(type, asks, nullable).asks = asks
         /\ Field(type, asks, nullable).nullable = nullable
  BY DEF Field

(* The fields of each type, as the tables of GraphSchema give them *)
LEMMA ChunkTable ==
  /\ DOMAIN Fields["Chunk"] =
       {"id", "createdAt", "updatedAt", "timestamp", "sha256",
        "downloadUrl", "transmissions", "stream"}
  /\ \A f \in {"id", "createdAt", "updatedAt", "timestamp", "sha256"} :
       Fields["Chunk"][f] = Field(Scalar, FALSE, FALSE)
  /\ Fields["Chunk"]["downloadUrl"] = Field(Scalar, TRUE, TRUE)
  /\ Fields["Chunk"]["transmissions"] =
       Field("TransmissionsConnection", TRUE, FALSE)
  /\ Fields["Chunk"]["stream"] = Field("Stream", TRUE, FALSE)
  <1>1. Fields["Chunk"] = ChunkScalars ++ ChunkLinks
    BY DEF Fields
  <1> QED  BY <1>1 DEF ++, ChunkScalars, ChunkLinks, Reads, NodeFields, Asks,
                        AsksOrNull

LEMMA StreamTable ==
  /\ DOMAIN Fields["Stream"] =
       {"id", "createdAt", "updatedAt", "displayName", "url",
        "chunks", "transmissions"}
  /\ \A f \in {"id", "createdAt", "updatedAt", "displayName", "url"} :
       Fields["Stream"][f] = Field(Scalar, FALSE, FALSE)
  /\ Fields["Stream"]["chunks"] = Field("ChunksConnection", TRUE, FALSE)
  /\ Fields["Stream"]["transmissions"] =
       Field("TransmissionsConnection", TRUE, FALSE)
  <1>1. Fields["Stream"] = StreamScalars ++ StreamLinks
    BY DEF Fields
  <1> QED  BY <1>1 DEF ++, StreamScalars, StreamLinks, Reads, NodeFields, Asks

LEMMA TransmissionTable ==
  /\ DOMAIN Fields["Transmission"] =
       {"id", "createdAt", "updatedAt", "timestamp", "length", "sha256",
        "downloadUrl", "transcription", "chunk"}
  /\ \A f \in {"id", "createdAt", "updatedAt", "timestamp", "length", "sha256"} :
       Fields["Transmission"][f] = Field(Scalar, FALSE, FALSE)
  /\ Fields["Transmission"]["downloadUrl"] = Field(Scalar, TRUE, TRUE)
  /\ Fields["Transmission"]["transcription"] = Field("Transcription", TRUE, TRUE)
  /\ Fields["Transmission"]["chunk"] = Field("Chunk", TRUE, FALSE)
  <1>1. Fields["Transmission"] = TransmissionScalars ++ TransmissionLinks
    BY DEF Fields
  <1> QED  BY <1>1 DEF ++, TransmissionScalars, TransmissionLinks, Reads,
                        NodeFields, Asks, AsksOrNull

LEMMA TranscriptionTable ==
  /\ DOMAIN Fields["Transcription"] =
       {"id", "createdAt", "updatedAt", "content", "transmission"}
  /\ \A f \in {"id", "createdAt", "updatedAt", "content"} :
       Fields["Transcription"][f] = Field(Scalar, FALSE, FALSE)
  /\ Fields["Transcription"]["transmission"] = Field("Transmission", TRUE, FALSE)
  <1>1. Fields["Transcription"] = TranscriptionScalars ++ TranscriptionLinks
    BY DEF Fields
  <1> QED  BY <1>1 DEF ++, TranscriptionScalars, TranscriptionLinks, Reads,
                        NodeFields, Asks

LEMMA PageInfoTable ==
  /\ DOMAIN Fields["PageInfo"] = {"hasNextPage", "length", "endCursor"}
  /\ \A f \in {"hasNextPage", "length"} :
       Fields["PageInfo"][f] = Field(Scalar, FALSE, FALSE)
  /\ Fields["PageInfo"]["endCursor"] = Field(Scalar, FALSE, TRUE)
  <1>1. Fields["PageInfo"] = PageInfoFields
    BY DEF Fields
  <1> QED  BY <1>1 DEF ++, PageInfoFields, Reads

ListOf ==
  [ChunksConnection |-> "Chunks", StreamsConnection |-> "Streams",
   TransmissionsConnection |-> "Transmissions"]

(* A connection has edges and a page info; both are there at once. *)
LEMMA ConnectionTables ==
  \A type \in Connections :
    /\ DOMAIN Fields[type] = {"edges", "pageInfo"}
    /\ Fields[type]["edges"] = Field(ListOf[type], FALSE, TRUE)
    /\ Fields[type]["pageInfo"] = Field("PageInfo", FALSE, FALSE)
  <1>1. \A type \in Connections : Fields[type] = ConnectionTo(ListOf[type])
    BY DEF Fields, Connections, ListOf, ChunksConnectionFields,
           StreamsConnectionFields, TransmissionsConnectionFields
  <1>2. \A list :
          /\ DOMAIN ConnectionTo(list) = {"edges", "pageInfo"}
          /\ ConnectionTo(list)["edges"] = Field(list, FALSE, TRUE)
          /\ ConnectionTo(list)["pageInfo"] = Field("PageInfo", FALSE, FALSE)
    BY DEF ConnectionTo
  <1> QED  BY <1>1, <1>2

LEMMA QueryTable ==
  /\ DOMAIN Fields["Query"] =
       {"getStreams", "getStreamById", "getChunkById", "getTransmissionById"}
  /\ Fields["Query"]["getStreams"] = Field("StreamsConnection", TRUE, FALSE)
  /\ Fields["Query"]["getStreamById"] = Field("Stream", TRUE, TRUE)
  /\ Fields["Query"]["getChunkById"] = Field("Chunk", TRUE, TRUE)
  /\ Fields["Query"]["getTransmissionById"] = Field("Transmission", TRUE, TRUE)
  <1>1. Fields["Query"] = QueryPages ++ QueryLookups
    BY DEF Fields
  <1> QED  BY <1>1 DEF ++, QueryPages, QueryLookups, Asks, AsksOrNull

LEMMA MutationTable ==
  /\ DOMAIN Fields["Mutation"] = {"registerStream", "removeStream"}
  /\ Fields["Mutation"]["registerStream"] = Field("Stream", TRUE, FALSE)
  /\ Fields["Mutation"]["removeStream"] = Field("Stream", TRUE, FALSE)
  <1>1. Fields["Mutation"] = RegisterStreamField ++ RemoveStreamField
    BY DEF Fields
  <1> QED  BY <1>1 DEF ++, RegisterStreamField, RemoveStreamField, Asks

LEMMA SubscriptionTable ==
  /\ DOMAIN Fields["Subscription"] =
       {"chunks", "allTransmissions", "allTranscriptions", "transmissions",
        "transcriptions"}
  /\ Fields["Subscription"]["chunks"] = Field("Chunk", TRUE, FALSE)
  /\ \A f \in {"allTransmissions", "transmissions"} :
       Fields["Subscription"][f] = Field("Transmission", TRUE, FALSE)
  /\ \A f \in {"allTranscriptions", "transcriptions"} :
       Fields["Subscription"][f] = Field("Transcription", TRUE, FALSE)
  <1>1. Fields["Subscription"] = SubscriptionToAll ++ SubscriptionToStream
    BY DEF Fields
  <1> QED  BY <1>1 DEF ++, SubscriptionToAll, SubscriptionToStream, Asks

(* What the proofs go by: *)
(* - no field is called like the elements of a list, or gives an operation; *)
(* - an object's other fields are scalars; *)
(* - what a transmission calls its transcription is one, and who else has one *)
LEMMA FieldsTyped ==
  ASSUME NEW type \in DOMAIN Fields, NEW f \in DOMAIN Fields[type]
  PROVE  /\ f # "item" /\ f \in Names
         /\ Fields[type][f].of \in Types \ Operations
         /\ (type \in Entities /\ ~Fields[type][f].asks) =>
              Fields[type][f].of = Scalar
         /\ type \in Operations => Fields[type][f].asks
         /\ Fields[type][f].of = "Transcription" =>
              type = "Subscription" \/ (type = "Transmission" /\ f = "transcription")
         /\ f = "transcription" => Fields[type][f].of = "Transcription"
  <1>1. f \in Names
    BY DEF Names
  <1> DEFINE Answers == Types \ Operations
  <1>3. /\ Scalar \in Answers /\ "Chunk" \in Answers /\ "Stream" \in Answers
        /\ "Transmission" \in Answers /\ "Transcription" \in Answers
        /\ "ChunksConnection" \in Answers /\ "StreamsConnection" \in Answers
        /\ "TransmissionsConnection" \in Answers /\ "PageInfo" \in Answers
        /\ "Chunks" \in Answers /\ "Streams" \in Answers
        /\ "Transmissions" \in Answers
    BY TypeNames DEF Types, Scalar, Entities, Connections, Operations
  <1> HIDE DEF Answers
  <1>4. \/ type = "Chunk" \/ type = "Stream" \/ type = "Transmission"
        \/ type = "Transcription" \/ type = "PageInfo" \/ type \in Connections
        \/ type = "Query" \/ type = "Mutation" \/ type = "Subscription"
    BY TypeNames DEF Entities, Operations
  <1>5. CASE type = "Chunk"
    <2>2. Fields[type][f].of \in Answers
      BY <1>3, <1>5, ChunkTable DEF Field, Entities, Connections
    <2>4. type \in Entities /\ ~Fields[type][f].asks =>
            Fields[type][f].of = Scalar
      BY <1>5, ChunkTable DEF Field, Entities, Connections
    <2>5. type \in Operations => Fields[type][f].asks
      BY <1>5, ChunkTable DEF Field, Operations, Connections
    <2>6. Fields[type][f].of = "Transcription" =>
            type = "Subscription" \/ (type = "Transmission" /\ f = "transcription")
      BY <1>5, ChunkTable DEF Field, Scalar, Connections
    <2>7. f # "item" /\ (f = "transcription" => Fields[type][f].of = "Transcription")
      BY <1>5, ChunkTable DEF Field, Connections
    <2> QED  BY <1>1, <2>2, <2>4, <2>5, <2>6, <2>7 DEF Answers
  <1>6. CASE type = "Stream"
    <2>2. Fields[type][f].of \in Answers
      BY <1>3, <1>6, StreamTable DEF Field, Entities, Connections
    <2>4. type \in Entities /\ ~Fields[type][f].asks =>
            Fields[type][f].of = Scalar
      BY <1>6, StreamTable DEF Field, Entities, Connections
    <2>5. type \in Operations => Fields[type][f].asks
      BY <1>6, StreamTable DEF Field, Operations, Connections
    <2>6. Fields[type][f].of = "Transcription" =>
            type = "Subscription" \/ (type = "Transmission" /\ f = "transcription")
      BY <1>6, StreamTable DEF Field, Scalar, Connections
    <2>7. f # "item" /\ (f = "transcription" => Fields[type][f].of = "Transcription")
      BY <1>6, StreamTable DEF Field, Connections
    <2> QED  BY <1>1, <2>2, <2>4, <2>5, <2>6, <2>7 DEF Answers
  <1>7. CASE type = "Transmission"
    <2>2. Fields[type][f].of \in Answers
      BY <1>3, <1>7, TransmissionTable DEF Field, Entities, Connections
    <2>4. type \in Entities /\ ~Fields[type][f].asks =>
            Fields[type][f].of = Scalar
      BY <1>7, TransmissionTable DEF Field, Entities, Connections
    <2>5. type \in Operations => Fields[type][f].asks
      BY <1>7, TransmissionTable DEF Field, Operations, Connections
    <2>6. Fields[type][f].of = "Transcription" =>
            type = "Subscription" \/ (type = "Transmission" /\ f = "transcription")
      BY <1>7, TransmissionTable DEF Field, Scalar, Connections
    <2>7. f # "item" /\ (f = "transcription" => Fields[type][f].of = "Transcription")
      BY <1>7, TransmissionTable DEF Field, Connections
    <2> QED  BY <1>1, <2>2, <2>4, <2>5, <2>6, <2>7 DEF Answers
  <1>8. CASE type = "Transcription"
    <2>2. Fields[type][f].of \in Answers
      BY <1>3, <1>8, TranscriptionTable DEF Field, Entities, Connections
    <2>4. type \in Entities /\ ~Fields[type][f].asks =>
            Fields[type][f].of = Scalar
      BY <1>8, TranscriptionTable DEF Field, Entities, Connections
    <2>5. type \in Operations => Fields[type][f].asks
      BY <1>8, TranscriptionTable DEF Field, Operations, Connections
    <2>6. Fields[type][f].of = "Transcription" =>
            type = "Subscription" \/ (type = "Transmission" /\ f = "transcription")
      BY <1>8, TranscriptionTable DEF Field, Scalar, Connections
    <2>7. f # "item" /\ (f = "transcription" => Fields[type][f].of = "Transcription")
      BY <1>8, TranscriptionTable DEF Field, Connections
    <2> QED  BY <1>1, <2>2, <2>4, <2>5, <2>6, <2>7 DEF Answers
  <1>9. CASE type = "PageInfo"
    <2>2. Fields[type][f].of \in Answers
      BY <1>3, <1>9, PageInfoTable DEF Field, Entities, Connections
    <2>4. type \in Entities /\ ~Fields[type][f].asks =>
            Fields[type][f].of = Scalar
      BY <1>9, PageInfoTable DEF Field, Entities, Connections
    <2>5. type \in Operations => Fields[type][f].asks
      BY <1>9, PageInfoTable DEF Field, Operations, Connections
    <2>6. Fields[type][f].of = "Transcription" =>
            type = "Subscription" \/ (type = "Transmission" /\ f = "transcription")
      BY <1>9, PageInfoTable DEF Field, Scalar, Connections
    <2>7. f # "item" /\ (f = "transcription" => Fields[type][f].of = "Transcription")
      BY <1>9, PageInfoTable DEF Field, Connections
    <2> QED  BY <1>1, <2>2, <2>4, <2>5, <2>6, <2>7 DEF Answers
  <1>10. CASE type \in Connections
    <2>2. Fields[type][f].of \in Answers
      BY <1>3, <1>10, ConnectionTables DEF Field, Entities, Connections, ListOf
    <2>4. type \in Entities /\ ~Fields[type][f].asks =>
            Fields[type][f].of = Scalar
      BY <1>10, ConnectionTables DEF Field, Entities, Connections
    <2>5. type \in Operations => Fields[type][f].asks
      BY <1>10, ConnectionTables DEF Field, Operations, Connections
    <2>6. Fields[type][f].of = "Transcription" =>
            type = "Subscription" \/ (type = "Transmission" /\ f = "transcription")
      BY <1>10, ConnectionTables DEF Field, Scalar, Connections, ListOf
    <2>7. f # "item" /\ (f = "transcription" => Fields[type][f].of = "Transcription")
      BY <1>10, ConnectionTables DEF Field, Connections
    <2> QED  BY <1>1, <2>2, <2>4, <2>5, <2>6, <2>7 DEF Answers
  <1>11. CASE type = "Query"
    <2>2. Fields[type][f].of \in Answers
      BY <1>3, <1>11, QueryTable DEF Field, Entities, Connections
    <2>4. type \in Entities /\ ~Fields[type][f].asks =>
            Fields[type][f].of = Scalar
      BY <1>11, QueryTable DEF Field, Entities, Connections
    <2>5. type \in Operations => Fields[type][f].asks
      BY <1>11, QueryTable DEF Field, Operations, Connections
    <2>6. Fields[type][f].of = "Transcription" =>
            type = "Subscription" \/ (type = "Transmission" /\ f = "transcription")
      BY <1>11, QueryTable DEF Field, Scalar, Connections
    <2>7. f # "item" /\ (f = "transcription" => Fields[type][f].of = "Transcription")
      BY <1>11, QueryTable DEF Field, Connections
    <2> QED  BY <1>1, <2>2, <2>4, <2>5, <2>6, <2>7 DEF Answers
  <1>12. CASE type = "Mutation"
    <2>2. Fields[type][f].of \in Answers
      BY <1>3, <1>12, MutationTable DEF Field, Entities, Connections
    <2>4. type \in Entities /\ ~Fields[type][f].asks =>
            Fields[type][f].of = Scalar
      BY <1>12, MutationTable DEF Field, Entities, Connections
    <2>5. type \in Operations => Fields[type][f].asks
      BY <1>12, MutationTable DEF Field, Operations, Connections
    <2>6. Fields[type][f].of = "Transcription" =>
            type = "Subscription" \/ (type = "Transmission" /\ f = "transcription")
      BY <1>12, MutationTable DEF Field, Scalar, Connections
    <2>7. f # "item" /\ (f = "transcription" => Fields[type][f].of = "Transcription")
      BY <1>12, MutationTable DEF Field, Connections
    <2> QED  BY <1>1, <2>2, <2>4, <2>5, <2>6, <2>7 DEF Answers
  <1>13. CASE type = "Subscription"
    <2>2. Fields[type][f].of \in Answers
      BY <1>3, <1>13, SubscriptionTable DEF Field, Entities, Connections
    <2>4. type \in Entities /\ ~Fields[type][f].asks =>
            Fields[type][f].of = Scalar
      BY <1>13, SubscriptionTable DEF Field, Entities, Connections
    <2>5. type \in Operations => Fields[type][f].asks
      BY <1>13, SubscriptionTable DEF Field, Operations, Connections
    <2>6. Fields[type][f].of = "Transcription" =>
            type = "Subscription" \/ (type = "Transmission" /\ f = "transcription")
      BY <1>13, SubscriptionTable DEF Field, Scalar, Connections
    <2>7. f # "item" /\ (f = "transcription" => Fields[type][f].of = "Transcription")
      BY <1>13, SubscriptionTable DEF Field, Connections
    <2> QED  BY <1>1, <2>2, <2>4, <2>5, <2>6, <2>7 DEF Answers
  <1> QED
    BY <1>4, <1>5, <1>6, <1>7, <1>8, <1>9, <1>10, <1>11, <1>12, <1>13

(* What an object function counts is what schema.graphql requires. *)
LEMMA CountsRequired ==
  \A type \in DOMAIN Fields :
    IF type = "Subscription" THEN Counts[type] = {}
    ELSE Counts[type] = NonNull[type]
  <1> SUFFICES ASSUME NEW type \in DOMAIN Fields
               PROVE  IF type = "Subscription" THEN Counts[type] = {}
                      ELSE Counts[type] = NonNull[type]
    OBVIOUS
  <1>1. /\ DOMAIN ChunkScalars = NodeFields \cup {"timestamp", "sha256"}
        /\ DOMAIN StreamScalars = NodeFields \cup {"displayName", "url"}
        /\ DOMAIN TransmissionScalars =
             NodeFields \cup {"timestamp", "length", "sha256"}
        /\ DOMAIN TranscriptionScalars = NodeFields \cup {"content"}
    BY DEF ChunkScalars, StreamScalars, TransmissionScalars,
           TranscriptionScalars, Reads
  <1>2. /\ Counts["Chunk"] = ChunkCounts
        /\ Counts["Stream"] = StreamCounts
        /\ Counts["Transmission"] = TransmissionCounts
        /\ Counts["Transcription"] = TranscriptionCounts
        /\ Counts["PageInfo"] = {"hasNextPage", "length"}
        /\ Counts["Query"] = {"getStreams"}
        /\ Counts["Mutation"] = {"registerStream", "removeStream"}
        /\ Counts["Subscription"] = {}
        /\ \A c \in Connections : Counts[c] = {"pageInfo"}
    BY DEF Counts, Connections, PageInfoCounts, ChunksConnectionCounts,
           StreamsConnectionCounts, TransmissionsConnectionCounts, QueryCounts,
           MutationCounts, SubscriptionCounts
  <1>3. /\ NonNull["Chunk"] =
             {"id", "createdAt", "updatedAt", "timestamp", "sha256",
              "transmissions", "stream"}
        /\ NonNull["Stream"] =
             {"id", "createdAt", "updatedAt", "displayName", "url", "chunks",
              "transmissions"}
        /\ NonNull["Transmission"] =
             {"id", "createdAt", "updatedAt", "timestamp", "length", "sha256",
              "chunk"}
        /\ NonNull["Transcription"] =
             {"id", "createdAt", "updatedAt", "content", "transmission"}
        /\ NonNull["PageInfo"] = {"hasNextPage", "length"}
        /\ NonNull["Query"] = {"getStreams"}
        /\ NonNull["Mutation"] = {"registerStream", "removeStream"}
        /\ \A c \in Connections : NonNull[c] = {"pageInfo"}
    BY DEF NonNull, Connections
  <1>4. /\ ChunkCounts = NonNull["Chunk"]
        /\ StreamCounts = NonNull["Stream"]
        /\ TransmissionCounts = NonNull["Transmission"]
        /\ TranscriptionCounts = NonNull["Transcription"]
    BY <1>1, <1>3 DEF NodeFields, ChunkCounts, StreamCounts,
                      TransmissionCounts, TranscriptionCounts
  <1>5. \/ type = "Chunk" \/ type = "Stream" \/ type = "Transmission"
        \/ type = "Transcription" \/ type = "PageInfo" \/ type \in Connections
        \/ type = "Query" \/ type = "Mutation" \/ type = "Subscription"
    BY TypeNames DEF Entities, Operations
  <1>6. "Subscription" \notin Connections
    BY DEF Connections
  <1> QED  BY <1>2, <1>3, <1>4, <1>5, <1>6

-----------------------------------------------------------------------------
(* Parts of the answer *)

Nodes ==
  [is : {"waiting", "open", "done", "null"}, of : Types, row : Nat]

(* The node n at y is of the type that its parent p has there. *)
Fits(y, n, p) ==
  IF NameOf(y) = "item"
  THEN p.of \in DOMAIN Lists /\ n.of = Lists[p.of]
  ELSE /\ p.of \in DOMAIN Fields
       /\ NameOf(y) \in DOMAIN Fields[p.of]
       /\ n.of = Fields[p.of][NameOf(y)].of

(* What a resolver gives for x: x, and what is below it *)
Graft(new, x) ==
  /\ x \in DOMAIN new
  /\ new[x].is # "waiting"
  /\ \A y \in DOMAIN new : y \in Position /\ new[y] \in Nodes
  /\ \A y \in DOMAIN new \ {x} :
       /\ y # Root
       /\ Above(x, y)
       /\ Parent(y) \in DOMAIN new
       /\ new[Parent(y)].is = "open"
       /\ Fits(y, new[y], new[Parent(y)])
       /\ new[y].is = "waiting" => new[y].row = new[Parent(y)].row
       /\ \A a \in Position :
            Above(a, y) =>
              Above(a, x) \/ (a \in DOMAIN new /\ new[a].is # "waiting")

LEMMA NewNode ==
  ASSUME NEW is \in {"waiting", "open", "done", "null"}, NEW type \in Types,
         NEW row \in Nat
  PROVE  /\ Node(is, type, row) \in Nodes
         /\ Node(is, type, row).is = is
         /\ Node(is, type, row).of = type
         /\ Node(is, type, row).row = row
  BY DEF Node, Nodes

(* Each way a resolver answers is a part that can be put in its place: a   *)
(* single node, ...                                                        *)
LEMMA OnlyGraft ==
  ASSUME NEW x \in Position, NEW n \in Nodes, n.is # "waiting"
  PROVE  /\ Graft(Only(x, n), x)
         /\ DOMAIN Only(x, n) = {x}
         /\ Only(x, n)[x] = n
  BY DEF Only, Graft

(* new is the object x over the parts at kid *)
Assembled(new, x, I, kid, part) ==
  /\ DOMAIN new = {x} \cup UNION {DOMAIN part[i] : i \in I}
  /\ new[x] \in Nodes
  /\ new[x].is # "waiting"
  /\ I # {} => new[x].is = "open"
  /\ \A i \in I :
       /\ kid[i] \in Position /\ kid[i] # Root /\ Parent(kid[i]) = x
       /\ Graft(part[i], kid[i])
       /\ \A y \in DOMAIN part[i] : new[y] = part[i][y]
       /\ Fits(kid[i], new[kid[i]], new[x])

(* ... whatever is assembled of such parts, ... *)
LEMMA GraftOver ==
  ASSUME NEW new, NEW x \in Position, NEW I, NEW kid, NEW part,
         Assembled(new, x, I, kid, part)
  PROVE  Graft(new, x)
  <1>1. x \in DOMAIN new
    BY DEF Assembled
  <1>2. ASSUME NEW y \in DOMAIN new, NEW i \in I, y \in DOMAIN part[i]
        PROVE  /\ y \in Position /\ new[y] \in Nodes
               /\ y # Root
               /\ Above(x, y)
               /\ Parent(y) \in DOMAIN new
               /\ new[Parent(y)].is = "open"
               /\ Fits(y, new[y], new[Parent(y)])
               /\ new[y].is = "waiting" => new[y].row = new[Parent(y)].row
               /\ \A a \in Position :
                    Above(a, y) =>
                      Above(a, x) \/ (a \in DOMAIN new /\ new[a].is # "waiting")
    <2> DEFINE k == kid[i]
               p == part[i]
    <2>1. /\ k \in Position /\ k # Root /\ Parent(k) = x
          /\ Graft(p, k)
          /\ \A z \in DOMAIN p : new[z] = p[z] /\ z \in DOMAIN new
          /\ Fits(k, new[k], new[x])
      BY DEF Assembled
    <2>2. /\ Above(x, k)
          /\ \A a \in Position : Above(a, k) => a = x \/ Above(a, x)
      BY <2>1, AboveParent
    <2>3. y \in DOMAIN p /\ new[x].is = "open"
      BY <1>2 DEF Assembled
    <2> HIDE DEF k, p
    <2>4. y \in Position /\ new[y] \in Nodes
      BY <2>1, <2>3 DEF Graft
    <2>5. CASE y = k
      <3>1. new[y].is # "waiting"
        BY <2>1, <2>3, <2>5 DEF Graft
      <3> QED  BY <1>1, <2>1, <2>2, <2>3, <2>4, <2>5, <3>1
    <2>6. CASE y # k
      <3>1. /\ y # Root /\ Above(k, y) /\ Parent(y) \in DOMAIN p
            /\ p[Parent(y)].is = "open"
            /\ Fits(y, p[y], p[Parent(y)])
            /\ p[y].is = "waiting" => p[y].row = p[Parent(y)].row
            /\ \A a \in Position :
                 Above(a, y) =>
                   Above(a, k) \/ (a \in DOMAIN p /\ p[a].is # "waiting")
        BY <2>1, <2>3, <2>6 DEF Graft
      <3>2. Above(x, y)
        BY <2>1, <2>2, <2>4, <3>1, AboveTransitive
      <3>3. ASSUME NEW a \in Position, Above(a, y)
            PROVE  Above(a, x) \/ (a \in DOMAIN new /\ new[a].is # "waiting")
        BY <1>1, <2>1, <2>2, <2>3, <3>1, <3>3
      <3> QED  BY <2>1, <2>3, <2>4, <3>1, <3>2, <3>3
    <2> QED  BY <2>5, <2>6
  <1>3. \A y \in DOMAIN new \ {x} : \E i \in I : y \in DOMAIN part[i]
    BY DEF Assembled
  <1>4. new[x] \in Nodes /\ new[x].is # "waiting"
    BY DEF Assembled
  <1> QED  BY <1>1, <1>2, <1>3, <1>4 DEF Graft

(* The nodes of an object and of its fields *)
LEMMA ObjectShape ==
  ASSUME NEW d, NEW x \in Position, NEW type \in DOMAIN Fields, NEW row \in Nat,
         NEW new, new = Object(d, x, type, row)
  PROVE  /\ x \in DOMAIN new
         /\ new[x] = Node("open", type, row)
         /\ \A y \in DOMAIN new \ {x} :
              \E f \in DOMAIN Fields[type] :
                /\ y = Child(x, f)
                /\ new[y] = Node(IF Fields[type][f].asks THEN "waiting"
                                 ELSE IF row = NoRow /\ f \in Times
                                 THEN "null" ELSE "done",
                                 Fields[type][f].of, row)
  <1> DEFINE fields == Selected(d, x) \cap DOMAIN Fields[type]
  <1>1. DOMAIN new = {x} \cup {Child(x, f) : f \in fields}
    BY DEF Object
  <1>2. new[x] = Node("open", type, row)
    BY DEF Object
  <1>3. ASSUME NEW y \in DOMAIN new \ {x}
        PROVE  \E f \in DOMAIN Fields[type] :
                 /\ y = Child(x, f)
                 /\ new[y] = Node(IF Fields[type][f].asks THEN "waiting"
                                  ELSE IF row = NoRow /\ f \in Times
                                  THEN "null" ELSE "done",
                                  Fields[type][f].of, row)
    <2>1. PICK f \in fields : y = Child(x, f)
      BY <1>1, <1>3
    <2>2. f \in DOMAIN Fields[type] /\ f \in Names /\ f # "item"
      BY FieldsTyped
    <2>3. NameOf(y) = f
      BY <2>1, <2>2, ChildPosition DEF Under
    <2>4. new[y] = Node(IF Fields[type][NameOf(y)].asks THEN "waiting"
                        ELSE IF NameOf(y) \in (IF row = NoRow THEN Times ELSE {})
                        THEN "null" ELSE "done",
                        Fields[type][NameOf(y)].of, row)
      BY <1>3 DEF Object
    <2>5. f \in (IF row = NoRow THEN Times ELSE {}) <=> row = NoRow /\ f \in Times
      OBVIOUS
    <2> QED  BY <2>1, <2>2, <2>3, <2>4, <2>5
  <1> QED  BY <1>1, <1>2, <1>3

(* What is not asked for is a scalar; nulls are times of an empty object. *)
LEMMA ObjectGraft ==
  ASSUME NEW d, NEW x \in Position, NEW type \in Entities \cup Operations,
         NEW row \in Nat, NEW new, new = Object(d, x, type, row)
  PROVE  /\ Graft(new, x)
         /\ new[x] = Node("open", type, row)
         /\ \A y \in DOMAIN new \ {x} :
              /\ Parent(y) = x
              /\ new[y].is \in {"waiting", "done", "null"}
              /\ new[y].is # "waiting" => type \in Entities /\ new[y].of = Scalar
              /\ new[y].is = "null" => row = NoRow
  <1>1. type \in DOMAIN Fields /\ type \in Types
    BY TypeNames DEF Types
  <1>2. /\ x \in DOMAIN new
        /\ new[x] = Node("open", type, row)
        /\ new[x] \in Nodes /\ new[x].is = "open"
        /\ new[x].of = type /\ new[x].row = row
    BY <1>1, ObjectShape, NewNode
  <1>3. ASSUME NEW y \in DOMAIN new \ {x}
        PROVE  /\ y \in Position /\ new[y] \in Nodes /\ y # Root
               /\ Above(x, y) /\ Parent(y) = x
               /\ Fits(y, new[y], new[x])
               /\ new[y].row = row
               /\ \A a \in Position : Above(a, y) => a = x \/ Above(a, x)
               /\ new[y].is \in {"waiting", "done", "null"}
               /\ new[y].is # "waiting" => type \in Entities /\ new[y].of = Scalar
               /\ new[y].is = "null" => row = NoRow
    <2>1. PICK f \in DOMAIN Fields[type] :
            /\ y = Child(x, f)
            /\ new[y] = Node(IF Fields[type][f].asks THEN "waiting"
                             ELSE IF row = NoRow /\ f \in Times
                             THEN "null" ELSE "done",
                             Fields[type][f].of, row)
      BY <1>1, <1>3, ObjectShape
    <2>2. /\ f # "item" /\ f \in Names
          /\ Fields[type][f].of \in Types
          /\ (type \in Entities /\ ~Fields[type][f].asks) =>
               Fields[type][f].of = Scalar
          /\ type \in Operations => Fields[type][f].asks
      BY <1>1, FieldsTyped
    <2>3. /\ y \in Position /\ NameOf(y) = f /\ Parent(y) = x
          /\ Len(y.path) = Len(x.path) + 1 /\ Len(x.path) \in Nat
      BY <2>1, <2>2, ChildPosition DEF Under
    <2>4. y # Root
      <3>1. Len(Root.path) = 0
        BY DEF Root
      <3> QED  BY <2>3, <3>1
    <2>5. /\ Above(x, y)
          /\ \A a \in Position : Above(a, y) => a = x \/ Above(a, x)
      BY <2>1, <2>2, AboveChild
    <2> DEFINE is == IF Fields[type][f].asks THEN "waiting"
                     ELSE IF row = NoRow /\ f \in Times THEN "null" ELSE "done"
    <2>6. /\ is \in {"waiting", "done", "null"}
          /\ is # "waiting" => ~Fields[type][f].asks
          /\ is = "null" => row = NoRow
      OBVIOUS
    <2> HIDE DEF is
    <2>7. new[y] = Node(is, Fields[type][f].of, row)
      BY <2>1 DEF is
    <2>8. /\ new[y] \in Nodes /\ new[y].is = is
          /\ new[y].of = Fields[type][f].of /\ new[y].row = row
      BY <2>2, <2>6, <2>7, NewNode
    <2>9. Fits(y, new[y], new[x])
      BY <1>1, <1>2, <2>2, <2>3, <2>8 DEF Fits
    <2> QED  BY <2>2, <2>3, <2>4, <2>5, <2>6, <2>8, <2>9
  <1>4. Graft(new, x)
    BY <1>2, <1>3 DEF Graft
  <1> QED  BY <1>2, <1>3, <1>4

(* Below two different positions nothing is shared. *)
LEMMA BelowStarts ==
  ASSUME NEW k \in Position, NEW y \in Position, y = k \/ Above(k, y)
  PROVE  /\ \A i \in 1 .. Len(k.path) : y.path[i] = k.path[i]
         /\ \A i \in 1 .. Len(k.at) : y.at[i] = k.at[i]
  <1>1. /\ k.path \in Seq(Names) /\ y.path \in Seq(Names)
        /\ k.at \in Seq(Nat) /\ y.at \in Seq(Nat)
    BY DEF Position
  <1>2. CASE Above(k, y)
    <2>1. IsPrefix(k.path, y.path) /\ IsPrefix(k.at, y.at)
      BY <1>2 DEF Above, IsStrictPrefix
    <2>2. \A i \in 1 .. Len(k.path) : y.path[i] = k.path[i]
      BY ONLY <1>1, <2>1, PrefixPointwise
    <2>3. \A i \in 1 .. Len(k.at) : y.at[i] = k.at[i]
      BY ONLY <1>1, <2>1, PrefixPointwise
    <2> QED  BY <2>2, <2>3
  <1> QED  BY <1>2

LEMMA AboveNot ==
  ASSUME NEW x \in Position
  PROVE  ~Above(x, x)
  BY DEF Above, IsStrictPrefix

(* ... a page info, ... *)
LEMMA PageInfoGraft ==
  ASSUME NEW x \in Position, NEW rows, NEW new, new = PageInfo(x, rows)
  PROVE  /\ Graft(new, x)
         /\ new[x] = Node("open", "PageInfo", NoRow)
         /\ \A y \in DOMAIN new \ {x} :
              /\ Parent(y) = x
              /\ new[y].is \in {"done", "null"}
              /\ new[y].of = Scalar
              /\ new[y].is = "null" => NameOf(y) = "endCursor"
  <1> DEFINE fields == Selected(doc, x) \cap DOMAIN Fields["PageInfo"]
  <1>1. "PageInfo" \in DOMAIN Fields /\ "PageInfo" \in Types /\ Scalar \in Types
        /\ NoRow \in Nat
    BY TypeNames DEF Types, NoRow
  <1>2. /\ DOMAIN new = {x} \cup {Child(x, f) : f \in fields}
        /\ new[x] = Node("open", "PageInfo", NoRow)
    BY DEF PageInfo
  <1>3. /\ new[x] \in Nodes /\ new[x].is = "open" /\ new[x].of = "PageInfo"
        /\ new[x].row = NoRow
    BY <1>1, <1>2, NewNode
  <1>4. ASSUME NEW y \in DOMAIN new \ {x}
        PROVE  /\ y \in Position /\ new[y] \in Nodes /\ y # Root
               /\ Above(x, y) /\ Parent(y) = x
               /\ Fits(y, new[y], new[x])
               /\ \A a \in Position : Above(a, y) => a = x \/ Above(a, x)
               /\ new[y].is \in {"done", "null"}
               /\ new[y].of = Scalar
               /\ new[y].is = "null" => NameOf(y) = "endCursor"
    <2>1. PICK f \in fields : y = Child(x, f)
      BY <1>2, <1>4
    <2>2. f \in DOMAIN Fields["PageInfo"] /\ f # "item" /\ f \in Names
      BY <1>1, FieldsTyped
    <2>3. Fields["PageInfo"][f].of = Scalar
      BY <2>2, PageInfoTable DEF Field
    <2>4. /\ y \in Position /\ NameOf(y) = f /\ Parent(y) = x
          /\ Len(y.path) = Len(x.path) + 1 /\ Len(x.path) \in Nat
      BY <2>1, <2>2, ChildPosition DEF Under
    <2>5. y # Root
      <3>1. Len(Root.path) = 0
        BY DEF Root
      <3> QED  BY <2>4, <3>1
    <2>6. /\ Above(x, y)
          /\ \A a \in Position : Above(a, y) => a = x \/ Above(a, x)
      BY <2>1, <2>2, AboveChild
    <2> DEFINE is == IF NameOf(y) = "endCursor" /\ rows = {} THEN "null" ELSE "done"
    <2>7. new[y] = Node(is, Scalar, NoRow)
      BY <1>4 DEF PageInfo
    <2>8. is \in {"done", "null"} /\ (is = "null" => NameOf(y) = "endCursor")
      OBVIOUS
    <2> HIDE DEF is
    <2>9. new[y] \in Nodes /\ new[y].is = is /\ new[y].of = Scalar
      BY <1>1, <2>7, <2>8, NewNode
    <2>10. Fits(y, new[y], new[x])
      BY <1>1, <1>3, <2>2, <2>3, <2>4, <2>9 DEF Fits
    <2> QED  BY <2>4, <2>5, <2>6, <2>8, <2>9, <2>10
  <1>5. Graft(new, x)
    BY <1>2, <1>3, <1>4 DEF Graft
  <1> QED  BY <1>2, <1>4, <1>5

(* ... a list with its elements, ... *)
LEMMA ListGraft ==
  ASSUME NEW x \in Position, NEW type \in DOMAIN Lists, NEW rows \in SUBSET Nat,
         NoRow \notin rows, NEW new, new = List(x, type, rows)
  PROVE  /\ Graft(new, x)
         /\ new[x] = Node(IF rows = {} THEN "null" ELSE "open", type, NoRow)
         /\ \A y \in DOMAIN new \ {x} :
              /\ new[y].is # "null"
              /\ \/ new[y].is = "waiting" \/ new[y].of = Scalar
                 \/ /\ y = Item(x, new[y].row)
                    /\ new[y].is = "open"
                    /\ new[y].of = Lists[type]
                    /\ new[y].row \in rows
  <1> DEFINE kid  == [r \in rows |-> Item(x, r)]
             part == [r \in rows |-> Object(doc, Item(x, r), Lists[type], r)]
             key(y) == y.at[Len(x.at) + 1]
  <1>1. /\ Lists[type] \in Entities /\ type \in Types /\ NoRow \in Nat
        /\ Lists[type] \in Types
    BY TypeNames DEF Types, NoRow, Entities
  <1>2. /\ DOMAIN new = {x} \cup UNION {DOMAIN part[r] : r \in rows}
        /\ new[x] = Node(IF rows = {} THEN "null" ELSE "open", type, NoRow)
        /\ \A y \in DOMAIN new \ {x} : new[y] = part[key(y)][y]
    <2>1. new = [y \in {x} \cup UNION {DOMAIN part[r] : r \in rows} |->
                   IF y = x
                   THEN Node(IF rows = {} THEN "null" ELSE "open", type, NoRow)
                   ELSE part[key(y)][y]]
      BY DEF List
    <2> HIDE DEF part, key
    <2> QED  BY <2>1
  <1>3. /\ new[x] \in Nodes /\ new[x].is # "waiting" /\ new[x].of = type
        /\ rows # {} => new[x].is = "open"
    <2> DEFINE is == IF rows = {} THEN "null" ELSE "open"
    <2>1. is \in {"open", "null"} /\ (rows # {} => is = "open")
      OBVIOUS
    <2>2. new[x] = Node(is, type, NoRow)
      BY <1>2
    <2> HIDE DEF is
    <2> QED  BY <1>1, <2>1, <2>2, NewNode
  <1>4. ASSUME NEW r \in rows
        PROVE  /\ kid[r] = Item(x, r) /\ kid[r] \in Position /\ kid[r] # Root
               /\ Parent(kid[r]) = x /\ NameOf(kid[r]) = "item"
               /\ Graft(part[r], kid[r])
               /\ part[r][kid[r]] = Node("open", Lists[type], r)
               /\ \A y \in DOMAIN part[r] : y # x /\ y \in DOMAIN new
               /\ \A y \in DOMAIN part[r] : new[y] = part[r][y]
               /\ \A y \in DOMAIN part[r] \ {kid[r]} :
                    /\ new[y].is # "null"
                    /\ new[y].is = "waiting" \/ new[y].of = Scalar
    <2>1. r \in Nat /\ kid[r] = Item(x, r)
      OBVIOUS
    <2>2. /\ Item(x, r) \in Position /\ Parent(Item(x, r)) = x
          /\ NameOf(Item(x, r)) = "item" /\ Item(x, r).at = Append(x.at, r)
          /\ Len(Item(x, r).path) = Len(x.path) + 1 /\ Len(x.path) \in Nat
      BY <2>1, ItemPosition DEF Under
    <2>3. Item(x, r) # Root
      <3>1. Len(Root.path) = 0
        BY DEF Root
      <3> QED  BY <2>2, <3>1
    <2>4. part[r] = Object(doc, Item(x, r), Lists[type], r)
      BY <1>4
    <2> HIDE DEF part
    <2>5. /\ Graft(part[r], Item(x, r))
          /\ part[r][Item(x, r)] = Node("open", Lists[type], r)
          /\ \A y \in DOMAIN part[r] \ {Item(x, r)} :
               /\ part[r][y].is \in {"waiting", "done", "null"}
               /\ part[r][y].is # "waiting" => part[r][y].of = Scalar
               /\ part[r][y].is = "null" => r = NoRow
      BY <1>1, <2>1, <2>2, <2>4, ObjectGraft
    <2>6. ASSUME NEW y \in DOMAIN part[r]
          PROVE  y # x /\ y \in DOMAIN new /\ new[y] = part[r][y]
      <3>1. y \in Position /\ (y = Item(x, r) \/ Above(Item(x, r), y))
        BY <2>5 DEF Graft
      <3>2. Above(x, y)
        BY <2>1, <2>2, <3>1, AboveItem, AboveTransitive
      <3>3. y # x
        BY <3>2, AboveNot
      <3>4. key(y) = r
        <4>1. Len(x.at) \in Nat /\ x.at \in Seq(Nat)
          BY DEF Position
        <4>2. /\ Append(x.at, r)[Len(x.at) + 1] = r
              /\ Len(x.at) + 1 \in 1 .. Len(Append(x.at, r))
          BY <2>1, <4>1
        <4>3. \A i \in 1 .. Len(Append(x.at, r)) : y.at[i] = Append(x.at, r)[i]
          BY <2>2, <3>1, BelowStarts
        <4> QED  BY <4>2, <4>3
      <3>5. y \in DOMAIN new
        BY <1>2
      <3> QED  BY <1>2, <3>3, <3>4, <3>5
    <2>7. r # NoRow
      OBVIOUS
    <2> QED  BY <2>1, <2>2, <2>3, <2>5, <2>6, <2>7
  <1>5. \A r \in rows : /\ new[kid[r]] = Node("open", Lists[type], r)
                        /\ new[kid[r]].is = "open"
                        /\ new[kid[r]].of = Lists[type]
                        /\ new[kid[r]].row = r
    <2> SUFFICES ASSUME NEW r \in rows
                 PROVE  /\ new[kid[r]] = Node("open", Lists[type], r)
                        /\ new[kid[r]].is = "open"
                        /\ new[kid[r]].of = Lists[type]
                        /\ new[kid[r]].row = r
      OBVIOUS
    <2>1. kid[r] \in DOMAIN part[r]
      BY <1>4 DEF Graft
    <2>2. new[kid[r]] = Node("open", Lists[type], r)
      BY <1>4, <2>1
    <2> QED  BY <1>1, <2>2, NewNode
  <1>6. \A r \in rows : Fits(kid[r], new[kid[r]], new[x])
    BY <1>3, <1>4, <1>5 DEF Fits
  <1> HIDE DEF kid, part, key
  <1>7. Graft(new, x)
    <2>1. Assembled(new, x, rows, kid, part)
      BY <1>2, <1>3, <1>4, <1>6 DEF Assembled
    <2> QED  BY <2>1, GraftOver
  <1>8. ASSUME NEW y \in DOMAIN new \ {x}
        PROVE  /\ new[y].is # "null"
               /\ \/ new[y].is = "waiting" \/ new[y].of = Scalar
                  \/ /\ y = Item(x, new[y].row)
                     /\ new[y].is = "open"
                     /\ new[y].of = Lists[type]
                     /\ new[y].row \in rows
    <2>1. PICK r \in rows : y \in DOMAIN part[r]
      BY <1>2, <1>8
    <2>2. CASE y = kid[r]
      BY <1>4, <1>5, <2>2
    <2>3. CASE y # kid[r]
      BY <1>4, <2>1, <2>3
    <2> QED  BY <2>2, <2>3
  <1> QED  BY <1>2, <1>7, <1>8

(* ... and a page of a connection.  Only its cursor and an empty list are  *)
(* null.                                                                   *)
LEMMA ConnectionGraft ==
  ASSUME NEW x \in Position, NEW type \in Connections, NEW rows \in SUBSET Nat,
         NoRow \notin rows, NEW new, new = Connection(x, type, rows)
  PROVE  /\ Graft(new, x)
         /\ new[x] = Node("open", type, NoRow)
         /\ \A y \in DOMAIN new \ {x} :
              /\ new[y].is = "null" =>
                   /\ new[Parent(y)].of \in DOMAIN Fields
                   /\ NameOf(y) \in DOMAIN Fields[new[Parent(y)].of]
                   /\ Fields[new[Parent(y)].of][NameOf(y)].nullable
              /\ \/ new[y].is = "waiting" \/ new[y].of \notin Entities
                 \/ /\ y = Item(Child(x, "edges"), new[y].row)
                    /\ new[y].is = "open"
                    /\ new[y].of = Lists[ListOf[type]]
                    /\ new[y].row \in rows
  <1> DEFINE names == Selected(doc, x) \cap DOMAIN Fields[type]
             kid  == [f \in names |-> Child(x, f)]
             part == [f \in names |->
                        IF f = "edges"
                        THEN List(Child(x, f), Fields[type][f].of, rows)
                        ELSE PageInfo(Child(x, f), rows)]
             key(y) == y.path[Len(x.path) + 1]
  <1>1. /\ type \in DOMAIN Fields /\ type \in Types /\ NoRow \in Nat
        /\ names \subseteq {"edges", "pageInfo"}
        /\ names \subseteq DOMAIN Fields[type]
        /\ Fields[type]["edges"].of = ListOf[type]
        /\ Fields[type]["edges"].nullable
        /\ Fields[type]["pageInfo"].of = "PageInfo"
        /\ ListOf[type] \in DOMAIN Lists
        /\ Scalar \notin Entities
    BY TypeNames, ConnectionTables
       DEF Types, NoRow, Field, ListOf, Connections, Scalar, Entities
  <1>2. /\ DOMAIN new = {x} \cup UNION {DOMAIN part[f] : f \in names}
        /\ new[x] = Node("open", type, NoRow)
        /\ \A y \in DOMAIN new \ {x} : new[y] = part[key(y)][y]
    <2>1. new = [y \in {x} \cup UNION {DOMAIN part[f] : f \in names} |->
                   IF y = x THEN Node("open", type, NoRow)
                   ELSE part[key(y)][y]]
      BY DEF Connection
    <2> HIDE DEF part, key, names
    <2> QED  BY <2>1
  <1>3. new[x] \in Nodes /\ new[x].is = "open" /\ new[x].of = type
    <2>1. x \in DOMAIN new /\ new[x] = Node("open", type, NoRow)
      BY <1>2
    <2> QED  BY <1>1, <2>1, NewNode
  <1>4. \A f \in names : /\ kid[f] = Child(x, f)
                         /\ f = "edges" => part[f] = List(kid[f], ListOf[type], rows)
                         /\ f # "edges" => part[f] = PageInfo(kid[f], rows)
                         /\ f # "item" /\ f \in Names
    BY <1>1, FieldsTyped
  <1> HIDE DEF part, kid
  <1>5. ASSUME NEW f \in names
        PROVE  /\ kid[f] \in Position /\ kid[f] # Root
               /\ Parent(kid[f]) = x /\ NameOf(kid[f]) = f
               /\ Graft(part[f], kid[f])
               /\ \A y \in DOMAIN part[f] : y # x /\ y \in DOMAIN new
               /\ \A y \in DOMAIN part[f] : new[y] = part[f][y]
    <2>1. /\ kid[f] = Child(x, f) /\ f # "item" /\ f \in Names
      BY <1>4
    <2>2. /\ kid[f] \in Position /\ Parent(kid[f]) = x
          /\ NameOf(kid[f]) = f /\ kid[f].path = Append(x.path, f)
          /\ Len(kid[f].path) = Len(x.path) + 1 /\ Len(x.path) \in Nat
      BY <2>1, ChildPosition DEF Under
    <2>3. kid[f] # Root
      <3>1. Len(Root.path) = 0
        BY DEF Root
      <3> QED  BY <2>2, <3>1
    <2>5. Graft(part[f], kid[f])
      <3>1. CASE f = "edges"
        BY <1>1, <1>4, <2>2, <3>1, ListGraft
      <3>2. CASE f # "edges"
        BY <1>1, <1>4, <2>2, <3>2, PageInfoGraft
      <3> QED  BY <3>1, <3>2
    <2>6. ASSUME NEW y \in DOMAIN part[f]
          PROVE  y # x /\ y \in DOMAIN new /\ new[y] = part[f][y]
      <3>1. y \in Position /\ (y = kid[f] \/ Above(kid[f], y))
        BY <2>5 DEF Graft
      <3>2. Above(x, y)
        BY <2>1, <2>2, <3>1, AboveChild, AboveTransitive
      <3>3. y # x
        BY <3>2, AboveNot
      <3>4. key(y) = f
        <4>1. Len(x.path) \in Nat /\ x.path \in Seq(Names)
          BY DEF Position
        <4>2. /\ Append(x.path, f)[Len(x.path) + 1] = f
              /\ Len(x.path) + 1 \in 1 .. Len(Append(x.path, f))
          BY <2>1, <4>1
        <4>3. \A i \in 1 .. Len(Append(x.path, f)) : y.path[i] = Append(x.path, f)[i]
          BY <2>2, <3>1, BelowStarts
        <4> QED  BY <4>2, <4>3
      <3>5. y \in DOMAIN new
        BY <1>2
      <3> QED  BY <1>2, <3>3, <3>4, <3>5
    <2> QED  BY <2>2, <2>3, <2>5, <2>6
  <1> HIDE DEF names, key
  <1>6. ASSUME NEW f \in names
        PROVE  /\ Fits(kid[f], new[kid[f]], new[x])
               /\ f = "edges" => new[kid[f]].of = ListOf[type]
               /\ f = "pageInfo" =>
                    new[kid[f]].of = "PageInfo" /\ new[kid[f]].is = "open"
    <2>1. kid[f] \in DOMAIN part[f]
      BY <1>5 DEF Graft
    <2>2. f = "edges" =>
            new[kid[f]] = Node(IF rows = {} THEN "null" ELSE "open",
                               ListOf[type], NoRow)
      BY <1>1, <1>4, <1>5, <2>1, ListGraft
    <2>3. f = "pageInfo" => new[kid[f]] = Node("open", "PageInfo", NoRow)
      BY <1>4, <1>5, <2>1, PageInfoGraft
    <2>4. new[kid[f]].of = Fields[type][f].of
      BY <1>1, <2>2, <2>3 DEF Node
    <2>5. NameOf(kid[f]) = f /\ f # "item" /\ f \in DOMAIN Fields[type]
      BY <1>1, <1>4, <1>5
    <2>6. Fits(kid[f], new[kid[f]], new[x])
      BY <1>1, <1>3, <2>4, <2>5 DEF Fits
    <2> QED  BY <2>2, <2>3, <2>6 DEF Node
  <1>7. Graft(new, x)
    <2>1. Assembled(new, x, names, kid, part)
      BY <1>2, <1>3, <1>5, <1>6 DEF Assembled
    <2> QED  BY <2>1, GraftOver
  <1>8. ASSUME NEW y \in DOMAIN new \ {x}
        PROVE  /\ new[y].is = "null" =>
                    /\ new[Parent(y)].of \in DOMAIN Fields
                    /\ NameOf(y) \in DOMAIN Fields[new[Parent(y)].of]
                    /\ Fields[new[Parent(y)].of][NameOf(y)].nullable
               /\ \/ new[y].is = "waiting" \/ new[y].of \notin Entities
                  \/ /\ y = Item(Child(x, "edges"), new[y].row)
                     /\ new[y].is = "open"
                     /\ new[y].of = Lists[ListOf[type]]
                     /\ new[y].row \in rows
    <2>1. PICK f \in names : y \in DOMAIN part[f]
      BY <1>2, <1>8
    <2>2. new[y] = part[f][y]
      BY <1>5, <2>1
    <2>3. CASE y = kid[f] /\ f = "edges"
      <3>1. /\ new[y].of = ListOf[type]
            /\ NameOf(y) = "edges" /\ Parent(y) = x
        BY <1>5, <1>6, <2>3
      <3>2. ListOf[type] \notin Entities
        BY <1>1, TypeNames DEF Entities
      <3> QED  BY <1>1, <1>3, <2>3, <3>1, <3>2
    <2>4. CASE y = kid[f] /\ f # "edges"
      <3>1. f = "pageInfo"
        BY <1>1, <2>4
      <3>2. new[y].of = "PageInfo" /\ new[y].is = "open"
        BY <1>6, <2>4, <3>1
      <3> QED  BY <3>2 DEF Entities
    <2>5. CASE y # kid[f] /\ f = "edges"
      <3>1. /\ new[y].is # "null"
            /\ \/ new[y].is = "waiting" \/ new[y].of = Scalar
               \/ /\ y = Item(kid[f], new[y].row)
                  /\ new[y].is = "open"
                  /\ new[y].of = Lists[ListOf[type]]
                  /\ new[y].row \in rows
        BY <1>1, <1>4, <1>5, <2>1, <2>2, <2>5, ListGraft
      <3> QED  BY <1>1, <1>4, <2>5, <3>1
    <2>6. CASE y # kid[f] /\ f # "edges"
      <3>1. /\ Parent(y) = kid[f]
            /\ new[y].is \in {"done", "null"}
            /\ new[y].of = Scalar
            /\ new[y].is = "null" => NameOf(y) = "endCursor"
        BY <1>4, <1>5, <2>1, <2>2, <2>6, PageInfoGraft
      <3>2. f = "pageInfo"
        BY <1>1, <2>6
      <3>3. new[Parent(y)].of = "PageInfo"
        BY <1>6, <3>1, <3>2
      <3>4. /\ "PageInfo" \in DOMAIN Fields
            /\ "endCursor" \in DOMAIN Fields["PageInfo"]
            /\ Fields["PageInfo"]["endCursor"].nullable
        BY TypeNames, PageInfoTable DEF Field
      <3> QED  BY <1>1, <3>1, <3>3, <3>4
    <2> QED  BY <2>3, <2>4, <2>5, <2>6
  <1> QED  BY <1>2, <1>7, <1>8

-----------------------------------------------------------------------------
(* The answer as a whole *)

(* A node that is answered *)
Closed(is) == is \in {"done", "null"}

(* An answer has the shape of its document: a node is of the type that its *)
(* parent has for it, what waits has its parent's row, and nothing is      *)
(* above it or above any other node that waits itself; what is written is  *)
(* written down to its scalars.                                            *)
Tree(t) ==
  /\ \A x \in DOMAIN t : x \in Position /\ t[x] \in Nodes
  /\ Root \in DOMAIN t =>
       t[Root].is # "waiting" /\ t[Root].of \in Operations
  /\ \A y \in DOMAIN t \ {Root} :
       /\ Parent(y) \in DOMAIN t
       /\ t[Parent(y)].is # "waiting"
       /\ Fits(y, t[y], t[Parent(y)])
       /\ t[y].is = "waiting" => t[y].row = t[Parent(y)].row
       /\ Closed(t[Parent(y)].is) => Closed(t[y].is)
  /\ \A y \in DOMAIN t, a \in Position :
       Above(a, y) => a \in DOMAIN t /\ t[a].is # "waiting"

(* What waits for its resolver stands below an object that is open. *)
LEMMA WaitingParent ==
  ASSUME NEW t, Tree(t), NEW x \in DOMAIN t, t[x].is = "waiting"
  PROVE  /\ x \in Position /\ x # Root
         /\ Parent(x) \in DOMAIN t /\ Parent(x) # x
         /\ t[Parent(x)].is = "open"
         /\ Fits(x, t[x], t[Parent(x)])
         /\ t[x].row = t[Parent(x)].row
         /\ NameOf(x) # "item" => t[Parent(x)].of \in DOMAIN Fields
  <1>1. x \in Position /\ x # Root
    BY DEF Tree
  <1>2. /\ Parent(x) \in DOMAIN t /\ t[Parent(x)].is # "waiting"
        /\ Fits(x, t[x], t[Parent(x)])
        /\ t[x].row = t[Parent(x)].row
        /\ Closed(t[Parent(x)].is) => Closed(t[x].is)
    BY <1>1 DEF Tree
  <1>3. t[Parent(x)].is \in {"waiting", "open", "done", "null"}
    BY <1>2 DEF Tree, Nodes
  <1>4. t[Parent(x)].is = "open"
    BY <1>2, <1>3 DEF Closed
  <1> QED  BY <1>1, <1>2, <1>4 DEF Fits

(* u is t after new was put at x, which has waited for it. *)
Planted(u, t, new, x) ==
  /\ Tree(t) /\ x \in DOMAIN t /\ t[x].is = "waiting"
  /\ Graft(new, x) /\ new[x].of = t[x].of
  /\ u = new ++ t

(* Putting an answer in its place keeps the shape of the whole. *)
LEMMA PutTree ==
  ASSUME NEW u, NEW t, NEW new, NEW x, Planted(u, t, new, x)
  PROVE  /\ DOMAIN u = DOMAIN t \cup DOMAIN new
         /\ \A y \in DOMAIN new : u[y] = new[y]
         /\ \A y \in DOMAIN t \ {x} : y \notin DOMAIN new /\ u[y] = t[y]
         /\ Tree(u)
  <1> USE DEF Planted
  <1>1. /\ DOMAIN u = DOMAIN t \cup DOMAIN new
        /\ \A y \in DOMAIN new : u[y] = new[y]
        /\ \A y \in DOMAIN t \ DOMAIN new : u[y] = t[y]
    BY DEF ++
  <1>2. /\ x \in Position /\ x # Root /\ Parent(x) \in DOMAIN t
        /\ Parent(x) # x /\ t[Parent(x)].is = "open"
        /\ Fits(x, t[x], t[Parent(x)])
    BY WaitingParent
  <1>3. \A y \in DOMAIN new \ {x} : y \notin DOMAIN t
    BY <1>2 DEF Graft, Tree
  <1>4. \A y \in DOMAIN t \ {x} : y \notin DOMAIN new /\ u[y] = t[y]
    BY <1>1, <1>3
  <1>5. \A y \in DOMAIN u : y \in Position /\ u[y] \in Nodes
    BY <1>1, <1>4 DEF Graft, Tree
  <1>6. Root \in DOMAIN u =>
          u[Root].is # "waiting" /\ u[Root].of \in Operations
    <2>1. Root \in DOMAIN u => Root \in DOMAIN t \ {x}
      BY <1>1, <1>2 DEF Graft
    <2> QED  BY <1>4, <2>1 DEF Tree
  <1>7. u[x] = new[x] /\ x \in DOMAIN new /\ new[x].is # "waiting"
    BY <1>1 DEF Graft
  <1>8. ASSUME NEW y \in DOMAIN u \ {Root}
        PROVE  /\ Parent(y) \in DOMAIN u
               /\ u[Parent(y)].is # "waiting"
               /\ Fits(y, u[y], u[Parent(y)])
               /\ u[y].is = "waiting" => u[y].row = u[Parent(y)].row
               /\ Closed(u[Parent(y)].is) => Closed(u[y].is)
    <2>1. CASE y \in DOMAIN t \ {x}
      <3>1. /\ Parent(y) \in DOMAIN t
            /\ t[Parent(y)].is # "waiting"
            /\ Fits(y, t[y], t[Parent(y)])
            /\ t[y].is = "waiting" => t[y].row = t[Parent(y)].row
            /\ Closed(t[Parent(y)].is) => Closed(t[y].is)
        BY <1>8, <2>1 DEF Tree
      <3>2. u[y] = t[y] /\ u[Parent(y)] = t[Parent(y)]
        BY <1>4, <2>1, <3>1
      <3> QED  BY <1>1, <3>1, <3>2
    <2>2. CASE y = x
      <3>1. u[Parent(y)] = t[Parent(y)] /\ Parent(y) \in DOMAIN u
        BY <1>1, <1>2, <1>4, <2>2
      <3>2. ~Closed("open")
        BY DEF Closed
      <3>3. Fits(y, u[y], u[Parent(y)])
        BY <1>2, <1>7, <2>2, <3>1 DEF Fits
      <3> QED  BY <1>2, <1>7, <2>2, <3>1, <3>2, <3>3
    <2>3. CASE y \in DOMAIN new \ {x}
      <3>1. /\ Parent(y) \in DOMAIN new
            /\ new[Parent(y)].is = "open"
            /\ Fits(y, new[y], new[Parent(y)])
            /\ new[y].is = "waiting" => new[y].row = new[Parent(y)].row
        BY <2>3 DEF Graft
      <3>2. ~Closed("open")
        BY DEF Closed
      <3> QED  BY <1>1, <2>3, <3>1, <3>2
    <2> QED  BY <1>1, <1>8, <2>1, <2>2, <2>3
  <1>9. ASSUME NEW y \in DOMAIN u, NEW a \in Position, Above(a, y)
        PROVE  a \in DOMAIN u /\ u[a].is # "waiting"
    <2>1. ASSUME NEW z \in DOMAIN t, Above(a, z)
          PROVE  a \in DOMAIN u /\ u[a].is # "waiting"
      <3>1. a \in DOMAIN t /\ t[a].is # "waiting"
        BY <2>1 DEF Tree
      <3> QED  BY <1>1, <1>4, <3>1
    <2>2. CASE y \in DOMAIN t
      BY <1>9, <2>1, <2>2
    <2>3. CASE y \in DOMAIN new \ {x}
      <3>1. Above(a, x) \/ (a \in DOMAIN new /\ new[a].is # "waiting")
        BY <1>9, <2>3 DEF Graft
      <3> QED  BY <1>1, <2>1, <3>1
    <2> QED  BY <1>1, <2>2, <2>3
  <1>10. Tree(u)
    BY <1>5, <1>6, <1>8, <1>9 DEF Tree
  <1> QED  BY <1>1, <1>4, <1>10

(* u is t after x was written, which had only waited for its parts. *)
Written(u, t, x, is) ==
  /\ Tree(t) /\ x \in DOMAIN t /\ t[x].is = "open"
  /\ \A y \in DOMAIN t \ {Root} : Parent(y) = x => Closed(t[y].is)
  /\ is \in {"done", "null"}
  /\ u = [t EXCEPT ![x].is = is]

(* So does writing an object when all below it is through. *)
LEMMA CloseTree ==
  ASSUME NEW u, NEW t, NEW x, NEW is, Written(u, t, x, is)
  PROVE  /\ DOMAIN u = DOMAIN t
         /\ u[x].is = is /\ u[x].of = t[x].of /\ u[x].row = t[x].row
         /\ \A y \in DOMAIN t \ {x} : u[y] = t[y]
         /\ Tree(u)
  <1> USE DEF Written
  <1>1. t[x] \in Nodes
    BY DEF Tree
  <1>2. /\ DOMAIN u = DOMAIN t
        /\ u[x] = [t[x] EXCEPT !.is = is]
        /\ \A y \in DOMAIN t \ {x} : u[y] = t[y]
    OBVIOUS
  <1>3. /\ u[x] \in Nodes
        /\ u[x].is = is /\ u[x].of = t[x].of /\ u[x].row = t[x].row
    BY <1>1, <1>2 DEF Nodes
  <1>4. \A y \in DOMAIN t :
          /\ u[y].of = t[y].of /\ u[y].row = t[y].row
          /\ u[y].is = "waiting" <=> t[y].is = "waiting"
          /\ Closed(t[y].is) => Closed(u[y].is)
    BY <1>2, <1>3 DEF Closed
  <1>5. \A y \in DOMAIN u : y \in Position /\ u[y] \in Nodes
    BY <1>2, <1>3 DEF Tree
  <1>6. Root \in DOMAIN u =>
          u[Root].is # "waiting" /\ u[Root].of \in Operations
    BY <1>2, <1>4 DEF Tree
  <1>7. ASSUME NEW y \in DOMAIN u \ {Root}
        PROVE  /\ Parent(y) \in DOMAIN u
               /\ u[Parent(y)].is # "waiting"
               /\ Fits(y, u[y], u[Parent(y)])
               /\ u[y].is = "waiting" => u[y].row = u[Parent(y)].row
               /\ Closed(u[Parent(y)].is) => Closed(u[y].is)
    <2>1. /\ Parent(y) \in DOMAIN t
          /\ t[Parent(y)].is # "waiting"
          /\ Fits(y, t[y], t[Parent(y)])
          /\ t[y].is = "waiting" => t[y].row = t[Parent(y)].row
          /\ Closed(t[Parent(y)].is) => Closed(t[y].is)
      BY <1>2, <1>7 DEF Tree
    <2>2. Fits(y, u[y], u[Parent(y)])
      BY <1>2, <1>4, <1>7, <2>1 DEF Fits
    <2>3. Closed(u[Parent(y)].is) => Closed(u[y].is)
      BY <1>2, <1>4, <1>7, <2>1
    <2> QED  BY <1>2, <1>4, <1>7, <2>1, <2>2, <2>3
  <1>8. \A y \in DOMAIN u, a \in Position :
          Above(a, y) => a \in DOMAIN u /\ u[a].is # "waiting"
    BY <1>2, <1>4 DEF Tree
  <1>9. Tree(u)
    BY <1>5, <1>6, <1>7, <1>8 DEF Tree
  <1> QED  BY <1>2, <1>3, <1>9

(* The children of a position are the positions that have it as parent. *)
LEMMA ChildrenAre ==
  ASSUME Tree(node), NEW x \in Position
  PROVE  Children(x) = {y \in DOMAIN node \ {Root} : Parent(y) = x}
  <1>1. ASSUME NEW y \in DOMAIN node, y # Root, Parent(y) = x
        PROVE  Len(y.path) = Len(x.path) + 1
    <2>1. y \in Position
      BY DEF Tree
    <2> QED  BY <1>1, <2>1, PositionUnder DEF Under
  <1>2. Len(Root.path) # Len(x.path) + 1
    <2>1. Len(Root.path) = 0 /\ Len(x.path) \in Nat
      BY DEF Root, Position
    <2> QED  BY <2>1
  <1> QED  BY <1>1, <1>2 DEF Children

-----------------------------------------------------------------------------
(* The stream around a position *)

(* The stream around a position of the answer t is the innermost one above *)
(* it, without a transcription between them; NoRow if there is none.       *)
Between(y, x) == {x.path[i] : i \in Len(y.path) + 1 .. Len(x.path)}
Around(t, x) ==
  {y \in DOMAIN t : /\ Above(y, x) /\ t[y].of = "Stream"
                    /\ "transcription" \notin Between(y, x)}
Source(t, x) ==
  IF Around(t, x) = {} THEN NoRow ELSE t[Innermost(Around(t, x))].row

(* Around is what BelongsToStream quantifies over. *)
LEMMA AroundIsEnclosing ==
  ASSUME NEW x
  PROVE  Around(node, x) = {y \in DOMAIN node : Encloses(y, x)}
  BY DEF Around, Encloses, Above, Between

(* No stream is around the root. *)
LEMMA SourceRoot ==
  ASSUME NEW t, Tree(t)
  PROVE  Source(t, Root) = NoRow
  <1>1. \A y \in DOMAIN t : ~Above(y, Root)
    <2> SUFFICES ASSUME NEW y \in DOMAIN t, Above(y, Root) PROVE FALSE
      OBVIOUS
    <2>1. Len(y.path) < Len(Root.path) /\ Len(y.path) \in Nat
      BY RootPosition, AboveLen DEF Tree
    <2>2. Len(Root.path) = 0
      BY DEF Root
    <2> QED  BY <2>1, <2>2
  <1>2. Around(t, Root) = {}
    BY <1>1 DEF Around
  <1> QED  BY <1>2 DEF Source

(* One more field lies between a position and what is above its parent. *)
LEMMA BetweenUnder ==
  ASSUME NEW x \in Position, x # Root, NEW y \in Position,
         y = Parent(x) \/ Above(y, Parent(x))
  PROVE  Between(y, x) =
           {NameOf(x)} \cup (IF y = Parent(x) THEN {} ELSE Between(y, Parent(x)))
  <1> DEFINE p == Parent(x)
  <1>1. /\ p \in Position /\ NameOf(x) \in Names
        /\ x.path = Append(p.path, NameOf(x))
        /\ p.path \in Seq(Names) /\ y.path \in Seq(Names)
    BY PositionUnder DEF Under, Position
  <1> HIDE DEF p
  <1>2. /\ Len(x.path) = Len(p.path) + 1
        /\ x.path[Len(x.path)] = NameOf(x)
        /\ \A i \in 1 .. Len(p.path) : x.path[i] = p.path[i]
        /\ Len(p.path) \in Nat /\ Len(y.path) \in Nat
    BY <1>1
  <1>3. Len(y.path) <= Len(p.path)
    BY <1>1, <1>2, AboveLen DEF p
  <1>4. Between(y, x) = {NameOf(x)} \cup
                          {p.path[i] : i \in Len(y.path) + 1 .. Len(p.path)}
    <2>1. ASSUME NEW i \in Len(y.path) + 1 .. Len(x.path)
          PROVE  \/ x.path[i] = NameOf(x)
                 \/ i \in Len(y.path) + 1 .. Len(p.path) /\ x.path[i] = p.path[i]
      <3>1. CASE i = Len(x.path)
        BY <1>2, <3>1
      <3>2. CASE i # Len(x.path)
        <4>1. i \in 1 .. Len(p.path) /\ i \in Len(y.path) + 1 .. Len(p.path)
          BY <1>2, <3>2
        <4> QED  BY <1>2, <4>1
      <3> QED  BY <3>1, <3>2
    <2>2. ASSUME NEW i \in Len(y.path) + 1 .. Len(p.path)
          PROVE  i \in Len(y.path) + 1 .. Len(x.path) /\ x.path[i] = p.path[i]
      <3>1. i \in 1 .. Len(p.path)
        BY <1>2
      <3> QED  BY <1>2, <3>1
    <2>3. Len(x.path) \in Len(y.path) + 1 .. Len(x.path)
      BY <1>2, <1>3
    <2> QED  BY <1>2, <2>1, <2>2, <2>3 DEF Between
  <1>5. CASE y = p
    <2>1. {p.path[i] : i \in Len(y.path) + 1 .. Len(p.path)} = {}
      BY <1>2, <1>5
    <2> QED  BY <1>4, <1>5, <2>1 DEF p
  <1>6. CASE y # p
    BY <1>4, <1>6 DEF Between, p
  <1> QED  BY <1>5, <1>6

(* One step down, the source stays what it was, unless a stream or a       *)
(* transcription is passed.                                                *)
LEMMA SourceStep ==
  ASSUME NEW t, Tree(t), NEW x \in DOMAIN t, x # Root
  PROVE  Source(t, x) =
           IF NameOf(x) = "transcription" THEN NoRow
           ELSE IF t[Parent(x)].of = "Stream" THEN t[Parent(x)].row
           ELSE Source(t, Parent(x))
  <1> DEFINE p == Parent(x)
  <1>1. /\ x \in Position /\ p \in DOMAIN t /\ p \in Position
        /\ \A y \in DOMAIN t : y \in Position
    BY DEF Tree
  <1>2. \A y \in DOMAIN t : Above(y, x) <=> y = p \/ Above(y, p)
    <2> SUFFICES ASSUME NEW y \in DOMAIN t
                 PROVE  Above(y, x) <=> y = p \/ Above(y, p)
      OBVIOUS
    <2>1. Above(p, x)
      BY <1>1, AboveParent
    <2>2. Above(y, x) => y = p \/ Above(y, p)
      BY <1>1, AboveParent
    <2>3. Above(y, p) => Above(y, x)
      BY <1>1, <2>1, AboveTransitive
    <2> QED  BY <2>1, <2>2, <2>3
  <1>3. CASE NameOf(x) = "transcription"
    <2>1. Around(t, x) = {}
      BY <1>1, <1>2, <1>3, BetweenUnder DEF Around
    <2> QED  BY <1>3, <2>1 DEF Source
  <1>4. CASE NameOf(x) # "transcription" /\ t[p].of # "Stream"
    <2>1. ASSUME NEW y \in DOMAIN t
          PROVE  y \in Around(t, x) <=> y \in Around(t, p)
      <3>1. CASE y = p
        <4>1. ~Above(p, p)
          BY <1>1, AboveNot
        <4> QED  BY <1>4, <3>1, <4>1 DEF Around
      <3>2. CASE y # p /\ Above(y, p)
        <4>1. Between(y, x) = {NameOf(x)} \cup Between(y, p)
          BY <1>1, <3>2, BetweenUnder
        <4> QED  BY <1>2, <1>4, <3>2, <4>1 DEF Around
      <3>3. CASE y # p /\ ~Above(y, p)
        BY <1>2, <3>3 DEF Around
      <3> QED  BY <3>1, <3>2, <3>3
    <2>2. Around(t, x) = Around(t, p)
      BY <2>1 DEF Around
    <2> QED  BY <1>4, <2>2 DEF Source
  <1>5. CASE NameOf(x) # "transcription" /\ t[p].of = "Stream"
    <2>1. p \in Around(t, x)
      <3>1. Between(p, x) = {NameOf(x)}
        BY <1>1, BetweenUnder
      <3> QED  BY <1>1, <1>2, <1>5, <3>1 DEF Around
    <2>2. \A z \in Around(t, x) : z # p => Len(z.path) < Len(p.path)
      BY <1>1, <1>2, AboveLen DEF Around
    <2>3. \A z \in Around(t, x) : Len(z.path) \in Nat
      BY <1>1 DEF Around, Position
    <2>4. \A z \in Around(t, x) : Len(z.path) <= Len(p.path)
      BY <2>1, <2>2, <2>3
    <2>5. Innermost(Around(t, x)) = p
      <3> DEFINE m == Innermost(Around(t, x))
      <3>1. /\ m \in Around(t, x)
            /\ \A z \in Around(t, x) : Len(z.path) <= Len(m.path)
        BY <2>1, <2>4 DEF Innermost
      <3>2. Len(p.path) <= Len(m.path)
        BY <2>1, <3>1
      <3> HIDE DEF m
      <3>3. m = p
        BY <2>1, <2>2, <2>3, <3>1, <3>2
      <3> QED  BY <3>3 DEF m
    <2> QED  BY <1>5, <2>1, <2>5 DEF Source
  <1> QED  BY <1>3, <1>4, <1>5

(* Of several positions above one there is an innermost. *)
LEMMA LeastNumber ==
  ASSUME NEW T \in SUBSET Nat, T # {}
  PROVE  \E m \in T : \A n \in T : m <= n
  <1> DEFINE R == {ss \in Nat \X Nat : ss[1] < ss[2]}
  <1>1. IsWellFoundedOn(R, Nat)
    BY NatLessThanWellFounded, Zenon DEF OpToRel
  <1>2. \A m, n \in Nat : m < n => <<m, n>> \in R
    OBVIOUS
  <1> HIDE DEF R
  <1>3. PICK m \in T : \A n \in T : <<n, m>> \notin R
    BY <1>1, WFMin
  <1>4. \A n \in T : ~(n < m)
    BY <1>2, <1>3
  <1> QED  BY <1>4

LEMMA InnermostThere ==
  ASSUME NEW t, Tree(t), NEW x \in Position, Around(t, x) # {}
  PROVE  Innermost(Around(t, x)) \in Around(t, x)
  <1> DEFINE A == Around(t, x)
             above(y) == Len(x.path) - Len(y.path)
             T == {above(y) : y \in A}
  <1>1. Len(x.path) \in Nat
    BY DEF Position
  <1>2. \A y \in A : Len(y.path) \in Nat /\ Len(y.path) < Len(x.path)
    BY AboveLen DEF Around, Tree
  <1>3. T \in SUBSET Nat /\ T # {}
    <2>1. \A y \in A : above(y) \in Nat
      BY <1>1, <1>2
    <2> HIDE DEF A, above
    <2>2. A # {}
      BY DEF A
    <2> QED  BY <2>1, <2>2
  <1>4. PICK y \in A : \A z \in A : above(y) <= above(z)
    <2> HIDE DEF A, above
    <2>1. PICK m \in T : \A n \in T : m <= n
      BY <1>3, LeastNumber
    <2> QED  BY <2>1
  <1>5. \A z \in A : Len(z.path) <= Len(y.path)
    BY <1>1, <1>2, <1>4
  <1> QED  BY <1>5 DEF Innermost

(* It does not depend on what is not above. *)
LEMMA SourceKept ==
  ASSUME NEW t, Tree(t), NEW u, NEW x \in Position,
         \A a \in DOMAIN u : Above(a, x) => a \in DOMAIN t,
         \A a \in DOMAIN t : Above(a, x) =>
           a \in DOMAIN u /\ u[a].of = t[a].of /\ u[a].row = t[a].row
  PROVE  Source(u, x) = Source(t, x)
  <1>1. Around(u, x) = Around(t, x)
    BY DEF Around
  <1>2. CASE Around(t, x) = {}
    BY <1>1, <1>2 DEF Source
  <1>3. CASE Around(t, x) # {}
    <2> DEFINE m == Innermost(Around(t, x))
    <2>1. m \in Around(t, x)
      BY <1>3, InnermostThere DEF Around
    <2>2. m \in DOMAIN t /\ Above(m, x)
      BY <2>1 DEF Around
    <2> QED  BY <1>1, <1>3, <2>2 DEF Source
  <1> QED  BY <1>2, <1>3

-----------------------------------------------------------------------------
(* The inductive invariant *)

(* The rows of a type's table *)
Table(type) ==
  CASE type = "Stream" -> DOMAIN streams
    [] type = "Chunk" -> DOMAIN chunks
    [] type = "Transmission" -> DOMAIN transmissions
    [] type = "Transcription" -> DOMAIN transcriptions

(* The database: rows belong to rows that were saved before them.          *)
Saved ==
  /\ streams \in Seq(BOOLEAN)
  /\ chunks \in Seq(DOMAIN streams)
  /\ transmissions \in Seq(DOMAIN chunks)
  /\ transcriptions \in Seq(DOMAIN transmissions)

(* n is the right node for an entity that is called name, inside of the    *)
(* stream s.                                                               *)
Right(name, s, n) ==
  /\ n.row \in Table(n.of) \cup {NoRow}
  /\ n.is \in {"open", "done"} =>
       /\ n.row = NoRow =>
            /\ n.of = "Stream"
            /\ Active = DOMAIN streams => name = "removeStream"
       /\ (n.of # "Transcription" /\ s # NoRow) =>
            IF n.row = NoRow THEN s \notin Active ELSE StreamOf(n) = s

(* The row of every entity in the answer is the right one. *)
Entity(n) == n.of \in Entities /\ n.is # "waiting"
NodeRight(t, x) ==
  Entity(t[x]) => Right(NameOf(x), Source(t, x), t[x])
AllRight(t) == \A x \in DOMAIN t : NodeRight(t, x)

(* What the schema requires of an object or a list of this type *)
Needs(type, f) == type \in DOMAIN Lists \/ f \in NonNull[type]

(* SchemaKept and NullsExplained, by the parent of each node *)
Kept(t) ==
  \A y \in DOMAIN t \ {Root} :
    /\ t[Parent(y)].is = "done" /\ t[Parent(y)].of # "Subscription"
    /\ Needs(t[Parent(y)].of, NameOf(y))
    => t[y].is # "null"

Explained(t, known) ==
  \A x \in DOMAIN t :
    t[x].is = "null" =>
      \/ x \in known
      \/ \E y \in DOMAIN t \ {Root} :
           Parent(y) = x /\ Needs(t[x].of, NameOf(y)) /\ t[y].is = "null"

(* The positions that may have an error without a cause *)
AtTop(x) == Parent(x) = Root \/ NameOf(Parent(x)) = "removeStream"

(* The inductive invariant: whatever was answered is right for the tables  *)
(* as they are now, which is why it stays so while they grow.              *)
IInv ==
  /\ Saved
  /\ doc \in Docs
  /\ Tree(node)
  /\ AllRight(node)
  /\ Kept(node)
  /\ Explained(node, nils \cup errors)
  /\ errors \cup nils \subseteq DOMAIN node
  /\ faults \in 0 .. MaxFaults
  /\ Active = DOMAIN streams /\ faults = 0 => \A x \in errors : AtTop(x)

(* The entities case by case *)
LEMMA EntityTypes ==
  ASSUME NEW type \in Entities
  PROVE  \/ type = "Stream" /\ Table(type) = DOMAIN streams
         \/ type = "Chunk" /\ Table(type) = DOMAIN chunks
         \/ type = "Transmission" /\ Table(type) = DOMAIN transmissions
         \/ type = "Transcription" /\ Table(type) = DOMAIN transcriptions
  BY DEF Entities, Table

LEMMA StreamOfTypes ==
  ASSUME NEW n
  PROVE  /\ n.of = "Stream" => StreamOf(n) = n.row
         /\ n.of = "Chunk" => StreamOf(n) = chunks[n.row]
         /\ n.of = "Transmission" => StreamOf(n) = chunks[transmissions[n.row]]
  BY DEF StreamOf

(* Rows belong to rows that are there, and no row has the id 0. *)
LEMMA SavedRows ==
  ASSUME Saved
  PROVE  /\ \A c \in DOMAIN chunks : chunks[c] \in DOMAIN streams
         /\ \A r \in DOMAIN transmissions : transmissions[r] \in DOMAIN chunks
         /\ \A i \in DOMAIN transcriptions :
              transcriptions[i] \in DOMAIN transmissions
         /\ DOMAIN streams \subseteq Nat \ {NoRow}
         /\ DOMAIN chunks \subseteq Nat \ {NoRow}
         /\ DOMAIN transmissions \subseteq Nat \ {NoRow}
         /\ DOMAIN transcriptions \subseteq Nat \ {NoRow}
         /\ Active \subseteq DOMAIN streams
  <1>1. ASSUME NEW S, NEW q \in Seq(S)
        PROVE  /\ DOMAIN q \subseteq Nat \ {NoRow}
               /\ \A i \in DOMAIN q : q[i] \in S
    <2>1. Len(q) \in Nat /\ DOMAIN q = 1 .. Len(q)
      BY LenProperties
    <2>2. \A i \in 1 .. Len(q) : q[i] \in S
      BY ElementOfSeq
    <2> QED  BY <2>1, <2>2 DEF NoRow
  <1>2. Active \subseteq DOMAIN streams
    BY DEF Active
  <1> QED  BY <1>1, <1>2 DEF Saved

(* Tables grow, and streams are removed. *)
Grown ==
  /\ Saved'
  /\ DOMAIN streams \subseteq DOMAIN streams'
  /\ DOMAIN chunks \subseteq DOMAIN chunks'
  /\ DOMAIN transmissions \subseteq DOMAIN transmissions'
  /\ DOMAIN transcriptions \subseteq DOMAIN transcriptions'
  /\ \A c \in DOMAIN chunks : chunks'[c] = chunks[c]
  /\ \A r \in DOMAIN transmissions : transmissions'[r] = transmissions[r]
  /\ \A i \in DOMAIN transcriptions : transcriptions'[i] = transcriptions[i]
  /\ Active' \cap DOMAIN streams \subseteq Active
  /\ Active' = DOMAIN streams' => Active = DOMAIN streams

(* A row is saved at the end of its table. *)
LEMMA AppendTable ==
  ASSUME NEW S, NEW s \in Seq(S), NEW e \in S
  PROVE  /\ Append(s, e) \in Seq(S)
         /\ DOMAIN s \subseteq DOMAIN Append(s, e)
         /\ DOMAIN Append(s, e) = DOMAIN s \cup {Len(s) + 1}
         /\ Len(s) + 1 \notin DOMAIN s
         /\ Append(s, e)[Len(s) + 1] = e
         /\ \A i \in DOMAIN s : Append(s, e)[i] = s[i]
  OBVIOUS

LEMMA SeqWider ==
  ASSUME NEW S, NEW T, S \subseteq T, NEW s \in Seq(S)
  PROVE  s \in Seq(T)
  BY SeqMonotonic

(* Whatever a client, the download command or the transcriber saves or     *)
(* removes, tables only grow.                                              *)
LEMMA AddStreamGrows == ASSUME Saved, AddStream PROVE Grown
  <1>1. /\ streams' = Append(streams, FALSE) /\ chunks' = chunks
        /\ transmissions' = transmissions /\ transcriptions' = transcriptions
    BY DEF AddStream
  <1>2. /\ streams' \in Seq(BOOLEAN)
        /\ DOMAIN streams \subseteq DOMAIN streams'
        /\ \A s \in DOMAIN streams : streams'[s] = streams[s]
    <2>1. streams \in Seq(BOOLEAN) /\ FALSE \in BOOLEAN
      BY DEF Saved
    <2>2. /\ Append(streams, FALSE) \in Seq(BOOLEAN)
          /\ DOMAIN streams \subseteq DOMAIN Append(streams, FALSE)
          /\ \A s \in DOMAIN streams : Append(streams, FALSE)[s] = streams[s]
      BY ONLY <2>1, AppendTable
    <2> QED  BY <1>1, <2>2
  <1>3. chunks' \in Seq(DOMAIN streams')
    BY <1>1, <1>2, SeqWider DEF Saved
  <1>4. Saved'
    BY <1>1, <1>2, <1>3 DEF Saved
  <1>5. /\ Active' \cap DOMAIN streams \subseteq Active
        /\ Active' = DOMAIN streams' => Active = DOMAIN streams
    BY <1>2 DEF Active
  <1> QED  BY <1>1, <1>2, <1>4, <1>5 DEF Grown

LEMMA DeleteStreamGrows == ASSUME Saved, NEW s, DeleteStream(s) PROVE Grown
  <1>1. /\ chunks' = chunks /\ transmissions' = transmissions
        /\ transcriptions' = transcriptions
        /\ streams' = IF s \in Active THEN [streams EXCEPT ![s] = TRUE] ELSE streams
    BY DEF DeleteStream
  <1>2. CASE s \in Active
    <2>1. streams \in Seq(BOOLEAN) /\ s \in 1 .. Len(streams)
          /\ DOMAIN streams = 1 .. Len(streams)
      BY <1>2, LenProperties DEF Saved, Active
    <2>2. /\ streams' \in Seq(BOOLEAN) /\ Len(streams') = Len(streams)
          /\ \A i \in 1 .. Len(streams) :
               streams'[i] = IF i = s THEN TRUE ELSE streams[i]
      BY <1>1, <1>2, <2>1, ExceptSeq
    <2>3. DOMAIN streams' = DOMAIN streams
      BY <2>1, <2>2
    <2>4. Saved'
      BY <1>1, <2>2, <2>3 DEF Saved
    <2>5. /\ Active' \cap DOMAIN streams \subseteq Active
          /\ Active' = DOMAIN streams' => Active = DOMAIN streams
      BY <2>1, <2>2, <2>3 DEF Active
    <2> QED  BY <1>1, <2>3, <2>4, <2>5 DEF Grown
  <1>3. CASE s \notin Active
    <2>1. streams' = streams
      BY <1>1, <1>3
    <2>2. Saved' /\ Active' = Active
      BY <1>1, <2>1 DEF Saved, Active
    <2> QED  BY <1>1, <2>1, <2>2 DEF Grown
  <1> QED  BY <1>2, <1>3

LEMMA SaveGrows ==
  ASSUME Saved,
         \/ \E s \in DOMAIN streams : SaveChunk(s)
         \/ \E c \in DOMAIN chunks : SaveTransmission(c)
         \/ \E r \in DOMAIN transmissions : SaveTranscription(r)
  PROVE  Grown
  <1>1. ASSUME NEW s \in DOMAIN streams, SaveChunk(s) PROVE Grown
    <2>1. /\ chunks' = Append(chunks, s) /\ streams' = streams
          /\ transmissions' = transmissions /\ transcriptions' = transcriptions
      BY <1>1 DEF SaveChunk
    <2>2. /\ chunks' \in Seq(DOMAIN streams)
          /\ DOMAIN chunks \subseteq DOMAIN chunks'
          /\ \A c \in DOMAIN chunks : chunks'[c] = chunks[c]
      <3>1. chunks \in Seq(DOMAIN streams) /\ s \in DOMAIN streams
        BY <1>1 DEF Saved
      <3>2. /\ Append(chunks, s) \in Seq(DOMAIN streams)
            /\ DOMAIN chunks \subseteq DOMAIN Append(chunks, s)
            /\ \A c \in DOMAIN chunks : Append(chunks, s)[c] = chunks[c]
        BY ONLY <3>1, AppendTable
      <3> QED  BY <2>1, <3>2
    <2>3. transmissions' \in Seq(DOMAIN chunks')
      BY <2>1, <2>2, SeqWider DEF Saved
    <2>4. Saved' /\ Active' = Active
      BY <2>1, <2>2, <2>3 DEF Saved, Active
    <2> QED  BY <2>1, <2>2, <2>4 DEF Grown
  <1>2. ASSUME NEW c \in DOMAIN chunks, SaveTransmission(c) PROVE Grown
    <2>1. /\ transmissions' = Append(transmissions, c) /\ streams' = streams
          /\ chunks' = chunks /\ transcriptions' = transcriptions
      BY <1>2 DEF SaveTransmission
    <2>2. /\ transmissions' \in Seq(DOMAIN chunks)
          /\ DOMAIN transmissions \subseteq DOMAIN transmissions'
          /\ \A r \in DOMAIN transmissions : transmissions'[r] = transmissions[r]
      <3>1. transmissions \in Seq(DOMAIN chunks) /\ c \in DOMAIN chunks
        BY <1>2 DEF Saved
      <3>2. /\ Append(transmissions, c) \in Seq(DOMAIN chunks)
            /\ DOMAIN transmissions \subseteq DOMAIN Append(transmissions, c)
            /\ \A r \in DOMAIN transmissions :
                 Append(transmissions, c)[r] = transmissions[r]
        BY ONLY <3>1, AppendTable
      <3> QED  BY <2>1, <3>2
    <2>3. transcriptions' \in Seq(DOMAIN transmissions')
      BY <2>1, <2>2, SeqWider DEF Saved
    <2>4. Saved' /\ Active' = Active
      BY <2>1, <2>2, <2>3 DEF Saved, Active
    <2> QED  BY <2>1, <2>2, <2>4 DEF Grown
  <1>3. ASSUME NEW r \in DOMAIN transmissions, SaveTranscription(r) PROVE Grown
    <2>1. /\ transcriptions' = Append(transcriptions, r) /\ streams' = streams
          /\ chunks' = chunks /\ transmissions' = transmissions
      BY <1>3 DEF SaveTranscription
    <2>2. /\ transcriptions' \in Seq(DOMAIN transmissions)
          /\ DOMAIN transcriptions' = DOMAIN transcriptions \cup {Len(transcriptions) + 1}
          /\ transcriptions'[Len(transcriptions) + 1] = r
          /\ \A i \in DOMAIN transcriptions : transcriptions'[i] = transcriptions[i]
      <3>1. /\ transcriptions \in Seq(DOMAIN transmissions)
            /\ r \in DOMAIN transmissions
        BY <1>3 DEF Saved
      <3>2. /\ Append(transcriptions, r) \in Seq(DOMAIN transmissions)
            /\ DOMAIN Append(transcriptions, r)
                 = DOMAIN transcriptions \cup {Len(transcriptions) + 1}
            /\ Append(transcriptions, r)[Len(transcriptions) + 1] = r
            /\ \A i \in DOMAIN transcriptions :
                 Append(transcriptions, r)[i] = transcriptions[i]
        BY ONLY <3>1, AppendTable
      <3> QED  BY <2>1, <3>2
    <2>3. Saved' /\ Active' = Active
      BY <2>1, <2>2 DEF Saved, Active
    <2> QED  BY <2>1, <2>2, <2>3 DEF Grown
  <1> QED  BY <1>1, <1>2, <1>3

LEMMA SameGrows == ASSUME Saved, UNCHANGED dbVars PROVE Grown
  <1>1. /\ streams' = streams /\ chunks' = chunks
        /\ transmissions' = transmissions /\ transcriptions' = transcriptions
    BY DEF dbVars
  <1>2. Saved' /\ Active' = Active
    BY <1>1 DEF Saved, Active
  <1> QED  BY <1>1, <1>2 DEF Grown

(* What was right stays right. *)
LEMMA RightStays ==
  ASSUME Saved, Grown, NEW name, NEW s \in DOMAIN streams \cup {NoRow},
         NEW n, n.of \in Entities, Right(name, s, n)
  PROVE  Right(name, s, n)'
  <1>1. n.row \in Table(n.of)' \cup {NoRow}
    BY EntityTypes DEF Grown, Right, Table
  <1>2. ASSUME n.is \in {"open", "done"}, n.row = NoRow
        PROVE  /\ n.of = "Stream"
               /\ Active' = DOMAIN streams' => name = "removeStream"
    BY <1>2 DEF Right, Grown
  <1>3. ASSUME n.is \in {"open", "done"}, n.of # "Transcription", s # NoRow
        PROVE  IF n.row = NoRow THEN s \notin Active' ELSE StreamOf(n)' = s
    <2>1. IF n.row = NoRow THEN s \notin Active ELSE StreamOf(n) = s
      BY <1>3 DEF Right
    <2>2. CASE n.row = NoRow
      BY <1>3, <2>1, <2>2 DEF Grown
    <2>3. CASE n.row # NoRow
      <3>1. CASE n.of = "Stream"
        BY <2>1, <2>3, <3>1 DEF StreamOf
      <3>2. CASE n.of = "Chunk"
        <4>1. n.row \in DOMAIN chunks
          BY <2>3, <3>2, EntityTypes DEF Right
        <4> QED  BY <2>1, <2>3, <3>2, <4>1 DEF StreamOf, Grown
      <3>3. CASE n.of = "Transmission"
        <4>1. /\ n.row \in DOMAIN transmissions
              /\ transmissions[n.row] \in DOMAIN chunks
          BY <2>3, <3>3, EntityTypes, SavedRows DEF Right
        <4> QED  BY <2>1, <2>3, <3>3, <4>1 DEF StreamOf, Grown
      <3> QED  BY <1>3, <3>1, <3>2, <3>3 DEF Entities
    <2> QED  BY <2>2, <2>3
  <1> QED  BY <1>1, <1>2, <1>3 DEF Right

(* The stream around a position is one that was saved. *)
LEMMA SourceSaved ==
  ASSUME Saved, NEW t, Tree(t), AllRight(t), NEW x \in DOMAIN t
  PROVE  Source(t, x) \in DOMAIN streams \cup {NoRow}
  <1>1. CASE Around(t, x) = {}
    BY <1>1 DEF Source
  <1>2. CASE Around(t, x) # {}
    <2> DEFINE m == Innermost(Around(t, x))
    <2>1. m \in DOMAIN t /\ Above(m, x) /\ t[m].of = "Stream"
      BY <1>2, InnermostThere DEF Around, Tree
    <2>2. t[m].is # "waiting"
      <3>1. m \in Position
        BY <2>1 DEF Tree
      <3> QED  BY <2>1, <3>1 DEF Tree
    <2>3. t[m].row \in DOMAIN streams \cup {NoRow}
      BY <2>1, <2>2, EntityTypes DEF AllRight, NodeRight, Entity, Right, Entities
    <2> QED  BY <1>2, <2>3 DEF Source
  <1> QED  BY <1>1, <1>2

-----------------------------------------------------------------------------
(* Steps of a resolver *)

(* What is right in the tree t stays right in u, inside of the same stream. *)
LEMMA NodeStays ==
  ASSUME Saved, Grown, NEW t, Tree(t), AllRight(t), NEW u, NEW x \in DOMAIN t,
         u[x] = t[x], Source(u, x) = Source(t, x)
  PROVE  NodeRight(u, x)'
  <1>1. CASE Entity(t[x])
    <2> DEFINE s == Source(t, x)
               n == t[x]
    <2>1. Right(NameOf(x), s, n) /\ s \in DOMAIN streams \cup {NoRow}
      BY <1>1, SourceSaved DEF AllRight, NodeRight
    <2>2. n.of \in Entities
      BY <1>1 DEF Entity
    <2>3. Right(NameOf(x), s, n)'
      BY <2>1, <2>2, RightStays
    <2> QED  BY <2>3 DEF NodeRight
  <1>2. CASE ~Entity(t[x])
    BY <1>2 DEF NodeRight, Entity
  <1> QED  BY <1>1, <1>2

(* The operation itself is no row of a table. *)
LEMMA RootRight ==
  ASSUME NEW t, Tree(t), Root \in DOMAIN t
  PROVE  ~Entity(t[Root])
  BY DEF Tree, Entity, Entities, Operations

(* An answer below x changes the stream around no position that was there. *)
LEMMA PutSource ==
  ASSUME NEW u, NEW t, NEW new, NEW x, Planted(u, t, new, x),
         NEW y \in DOMAIN t
  PROVE  Source(u, y) = Source(t, y)
  <1>1. /\ DOMAIN u = DOMAIN t \cup DOMAIN new
        /\ \A z \in DOMAIN t \ {x} : u[z] = t[z]
        /\ y \in Position /\ x \in Position
    <2>1. /\ DOMAIN u = DOMAIN t \cup DOMAIN new
          /\ \A z \in DOMAIN new : u[z] = new[z]
          /\ \A z \in DOMAIN t \ {x} : z \notin DOMAIN new /\ u[z] = t[z]
          /\ Tree(u)
      BY ONLY Planted(u, t, new, x), PutTree
    <2>2. y \in Position /\ x \in Position
      BY DEF Tree, Planted
    <2> QED  BY <2>1, <2>2
  <1>2. \A a \in DOMAIN t : Above(a, y) => a # x
    BY <1>1 DEF Tree, Planted
  <1>3. ASSUME NEW a \in DOMAIN new \ {x}, Above(a, y) PROVE FALSE
    <2>1. Above(x, a) /\ a \in Position
      BY <1>3 DEF Graft, Planted
    <2>2. Above(x, y)
      BY <1>1, <1>3, <2>1, AboveTransitive
    <2>3. x \in DOMAIN t
      BY DEF Planted
    <2> QED  BY <1>2, <2>2, <2>3
  <1>4. \A a \in DOMAIN u : Above(a, y) => a \in DOMAIN t
    <2>1. x \in DOMAIN t
      BY DEF Planted
    <2> QED  BY <1>1, <1>3, <2>1
  <1>5. \A a \in DOMAIN t : Above(a, y) =>
          a \in DOMAIN u /\ u[a].of = t[a].of /\ u[a].row = t[a].row
    BY <1>1, <1>2
  <1>6. Tree(t)
    BY DEF Planted
  <1> QED  BY <1>1, <1>4, <1>5, <1>6, SourceKept

(* A resolver keeps the invariant if what it puts below x is right, and    *)
(* reports every null or has it listed among those that say there is       *)
(* nothing.                                                                *)
LEMMA PutInv ==
  ASSUME IInv, Grown, NEW x \in DOMAIN node, node[x].is = "waiting",
         NEW t, t = node,
         NEW new, Graft(new, x), new[x].of = node[x].of,
         NEW u, u = new ++ node, node' = u, doc' = doc,
         \A y \in DOMAIN new : NodeRight(u, y)',
         nils \cup errors \cup {y \in DOMAIN new : new[y].is = "null"}
           \subseteq nils' \cup errors',
         nils' \cup errors' \subseteq nils \cup errors \cup DOMAIN new,
         errors \subseteq errors',
         faults' \in 0 .. MaxFaults, faults' = 0 => faults = 0,
         Active' = DOMAIN streams' /\ faults' = 0 =>
           \A y \in errors' \ errors : AtTop(y)
  PROVE  IInv'
  <1>1. /\ Tree(t) /\ AllRight(t) /\ Kept(t) /\ Explained(t, nils \cup errors)
        /\ x \in DOMAIN t /\ t[x].is = "waiting"
        /\ Planted(u, t, new, x)
    BY DEF IInv, Planted
  <1>2. /\ DOMAIN u = DOMAIN t \cup DOMAIN new
        /\ \A y \in DOMAIN new : u[y] = new[y]
        /\ \A y \in DOMAIN t \ {x} : y \notin DOMAIN new /\ u[y] = t[y]
        /\ Tree(u)
    <2>1. Planted(u, t, new, x)
      BY <1>1
    <2> QED  BY ONLY <2>1, PutTree
  <1>3. /\ x # Root /\ Parent(x) \in DOMAIN t /\ Parent(x) # x
        /\ t[Parent(x)].is = "open"
    BY <1>1, WaitingParent
  <1>4. \A y \in DOMAIN t : y # Root =>
          Parent(y) \in DOMAIN t /\ Parent(y) # x /\ u[Parent(y)] = t[Parent(y)]
    BY <1>1, <1>2 DEF Tree
  <1>5. AllRight(u)'
    <2>1. ASSUME NEW y \in DOMAIN t, y # x PROVE NodeRight(u, y)'
      <3>1. CASE y # Root
        <4>1. Source(u, y) = Source(t, y)
          BY <1>1, PutSource
        <4> QED  BY <1>1, <1>2, <1>4, <2>1, <3>1, <4>1, NodeStays DEF IInv
      <3>2. CASE y = Root
        BY <1>2, <3>2, RootRight DEF NodeRight, Entity
      <3> QED  BY <3>1, <3>2
    <2> QED  BY <1>2, <2>1 DEF AllRight, Graft
  <1>6. Kept(u)
    <2> SUFFICES ASSUME NEW y \in DOMAIN u \ {Root},
                        u[Parent(y)].is = "done",
                        u[Parent(y)].of # "Subscription",
                        Needs(u[Parent(y)].of, NameOf(y))
                 PROVE  u[y].is # "null"
      BY DEF Kept
    <2>1. y \in DOMAIN t \ {x}
      <3>1. CASE y = x
        BY <1>3, <1>4, <3>1
      <3>2. CASE y \in DOMAIN new \ {x}
        BY <1>2, <3>2 DEF Graft
      <3> QED  BY <1>2, <3>1, <3>2
    <2>2. u[y] = t[y] /\ u[Parent(y)] = t[Parent(y)]
      BY <1>2, <1>4, <2>1
    <2> QED  BY <1>1, <2>1, <2>2 DEF Kept
  <1>7. Explained(u, nils' \cup errors')
    <2> SUFFICES ASSUME NEW z \in DOMAIN u, u[z].is = "null",
                        z \notin nils' \cup errors'
                 PROVE  \E y \in DOMAIN u \ {Root} :
                          /\ Parent(y) = z /\ Needs(u[z].of, NameOf(y))
                          /\ u[y].is = "null"
      BY DEF Explained
    <2>1. z \notin DOMAIN new
      BY <1>2
    <2>2. z \in DOMAIN t \ {x} /\ u[z] = t[z]
      BY <1>2, <2>1 DEF Graft
    <2>3. PICK y \in DOMAIN t \ {Root} :
            /\ Parent(y) = z /\ Needs(t[z].of, NameOf(y)) /\ t[y].is = "null"
      BY <1>1, <2>2 DEF Explained
    <2>4. u[y] = t[y] /\ y \in DOMAIN u
      BY <1>1, <1>2, <2>3
    <2> QED  BY <2>2, <2>3, <2>4
  <1>8. errors' \cup nils' \subseteq DOMAIN u
    BY <1>2 DEF IInv
  <1>9. Active' = DOMAIN streams' /\ faults' = 0 => \A y \in errors' : AtTop(y)
    BY DEF IInv, Grown
  <1>10. Saved' /\ doc' \in Docs
    BY DEF IInv, Grown
  <1> QED  BY <1>2, <1>5, <1>6, <1>7, <1>8, <1>9, <1>10 DEF IInv

(* What a resolver gives is in its place, and its parent is as it was. *)
LEMMA PlantedNew ==
  ASSUME NEW x, NEW t, NEW new, NEW u, Planted(u, t, new, x), NEW y \in DOMAIN new
  PROVE  u[y] = new[y] /\ y \in DOMAIN u
  BY DEF Planted, ++

LEMMA PlantedParent ==
  ASSUME NEW x, NEW t, NEW new, NEW u, Planted(u, t, new, x)
  PROVE  Parent(x) \in DOMAIN t /\ u[Parent(x)] = t[Parent(x)]
  <1>1. Planted(u, t, new, x) /\ Parent(x) \in DOMAIN t /\ Parent(x) # x
    BY WaitingParent DEF Planted
  <1>2. /\ DOMAIN u = DOMAIN t \cup DOMAIN new
        /\ \A y \in DOMAIN new : u[y] = new[y]
        /\ \A y \in DOMAIN t \ {x} : y \notin DOMAIN new /\ u[y] = t[y]
        /\ Tree(u)
    BY ONLY <1>1, PutTree
  <1> QED  BY <1>1, <1>2

(* The node of x itself *)
LEMMA PutRight ==
  ASSUME NEW u, NEW t, NEW new, NEW x, Planted(u, t, new, x),
         Entity(new[x]) =>
           Right(NameOf(x), Source(t, x), new[x])'
  PROVE  NodeRight(u, x)'
  <1>1. u[x] = new[x] /\ u[Parent(x)] = t[Parent(x)]
    <2>1. x \in DOMAIN new
      BY DEF Planted, Graft
    <2> QED  BY <2>1, PlantedNew, PlantedParent
  <1>2. Source(u, x) = Source(t, x)
    <2>1. x \in DOMAIN t /\ Planted(u, t, new, x)
      BY DEF Planted
    <2> QED  BY ONLY <2>1, PutSource
  <1> QED  BY <1>1, <1>2 DEF NodeRight

(* A resolver is about to answer x; t is the answer so far. *)
Answering(x, t) ==
  /\ IInv /\ Grown
  /\ t = node /\ x \in DOMAIN t /\ t[x].is = "waiting"

(* What Put does to the answer and to the errors *)
LEMMA PutEffect ==
  ASSUME NEW new, NEW u, u = new ++ node, Put(new)
  PROVE  /\ node' = u /\ doc' = doc /\ faults' = faults
         /\ nils' \cup errors' =
              nils \cup errors \cup {y \in DOMAIN new : new[y].is = "null"}
         /\ errors \subseteq errors'
         /\ \A y \in errors' \ errors :
              /\ y \in DOMAIN new /\ new[y].is = "null"
              /\ ~Fields[u[Parent(y)].of][NameOf(y)].nullable
  BY DEF Put

(* It answers new; u is the answer then. *)
Answer(x, t, new, u) ==
  /\ Answering(x, t)
  /\ Graft(new, x) /\ new[x].of = t[x].of
  /\ u = new ++ t

LEMMA AnswerPlanted ==
  ASSUME NEW x, NEW t, NEW new, NEW u, Answer(x, t, new, u)
  PROVE  Planted(u, t, new, x)
  BY DEF Answer, Answering, Planted, IInv

(* A resolver that answers keeps the invariant if all it gives is right,   *)
(* and if what it gives as null may be null or is excused.                 *)
LEMMA PutStep ==
  ASSUME NEW x, NEW t, NEW new, NEW u, Answer(x, t, new, u), Put(new),
         \A y \in DOMAIN new : NodeRight(u, y)',
         \A y \in DOMAIN new : new[y].is = "null" =>
           \/ Fields[u[Parent(y)].of][NameOf(y)].nullable
           \/ Active' = DOMAIN streams' => AtTop(y)
  PROVE  IInv'
  <1>1. /\ IInv /\ Grown /\ x \in DOMAIN node /\ node[x].is = "waiting"
        /\ t = node /\ u = new ++ node /\ new[x].of = node[x].of
        /\ Graft(new, x)
    BY DEF Answer, Answering
  <1>2. /\ node' = u /\ doc' = doc /\ faults' = faults
        /\ nils' \cup errors' =
             nils \cup errors \cup {y \in DOMAIN new : new[y].is = "null"}
        /\ errors \subseteq errors'
        /\ \A y \in errors' \ errors :
             /\ y \in DOMAIN new /\ new[y].is = "null"
             /\ ~Fields[u[Parent(y)].of][NameOf(y)].nullable
    BY <1>1, PutEffect
  <1>3. faults' \in 0 .. MaxFaults
    BY <1>1, <1>2 DEF IInv
  <1>4. Active' = DOMAIN streams' => \A y \in errors' \ errors : AtTop(y)
    BY <1>2
  <1>5. nils \cup errors \cup {y \in DOMAIN new : new[y].is = "null"}
          \subseteq nils' \cup errors'
        /\ nils' \cup errors' \subseteq nils \cup errors \cup DOMAIN new
    BY <1>2
  <1> QED  BY <1>1, <1>2, <1>3, <1>4, <1>5, PutInv

(* An object *)
LEMMA PutObject ==
  ASSUME NEW x, NEW t, Answering(x, t), NEW type \in Entities, t[x].of = type,
         NEW row \in Nat, Put(Object(doc, x, type, row)),
         Right(NameOf(x), Source(t, x),
               Node("open", type, row))'
  PROVE  IInv'
  <1>1. PICK new : new = Object(doc, x, type, row)
    OBVIOUS
  <1>2. PICK u : u = new ++ t
    OBVIOUS
  <1>3. x \in Position /\ type \in Types
    BY TypeNames DEF Answering, IInv, Tree, Types
  <1>4. /\ Graft(new, x)
        /\ new[x] = Node("open", type, row)
        /\ \A y \in DOMAIN new \ {x} :
             /\ Parent(y) = x
             /\ new[y].is \in {"waiting", "done", "null"}
             /\ new[y].is # "waiting" => type \in Entities /\ new[y].of = Scalar
             /\ new[y].is = "null" => row = NoRow
    BY <1>1, <1>3, ObjectGraft
  <1>5. new[x].is = "open" /\ new[x].of = t[x].of /\ new[x].row = row
    BY <1>3, <1>4, NewNode
  <1>6. Answer(x, t, new, u)
    BY <1>2, <1>4, <1>5 DEF Answer
  <1>7. Planted(u, t, new, x)
    BY <1>6, AnswerPlanted
  <1>8. \A y \in DOMAIN new : u[y] = new[y]
    BY <1>7, PlantedNew
  <1>9. ASSUME NEW y \in DOMAIN new PROVE NodeRight(u, y)'
    <2>1. CASE y = x
      <3>1. Entity(new[x]) =>
              Right(NameOf(x), Source(t, x), new[x])'
        BY <1>4
      <3>2. NodeRight(u, x)'
        BY <1>7, <3>1, PutRight
      <3> QED  BY <2>1, <3>2
    <2>2. CASE y # x
      <3>1. ~Entity(u[y])
        BY <1>4, <1>8, <2>2 DEF Entity, Entities, Scalar
      <3> QED  BY <3>1 DEF NodeRight, Entity
    <2> QED  BY <2>1, <2>2
  <1>10. ASSUME NEW y \in DOMAIN new, new[y].is = "null",
               Active' = DOMAIN streams'
        PROVE  AtTop(y)
    <2>1. Parent(y) = x /\ row = NoRow
      BY <1>4, <1>5, <1>10
    <2>2. Node("open", type, row).is = "open" /\ Node("open", type, row).row = row
      BY <1>3, NewNode
    <2>3. NameOf(x) = "removeStream"
      BY <1>10, <2>1, <2>2 DEF Right
    <2> QED  BY <2>1, <2>3 DEF AtTop
  <1>11. Put(new)
    BY <1>1
  <1> QED  BY <1>6, <1>9, <1>10, <1>11, PutStep

(* What was right for the tables as they were is right. *)
LEMMA StillRight ==
  ASSUME NEW x, NEW t, Answering(x, t), NEW name,
         NEW type \in Entities, NEW row \in Nat,
         Right(name, Source(t, x), Node("open", type, row))
  PROVE  Right(name, Source(t, x), Node("open", type, row))'
  <1>1. PICK s : s = Source(t, x)
    OBVIOUS
  <1>2. PICK n : n = Node("open", type, row)
    OBVIOUS
  <1>3. s \in DOMAIN streams \cup {NoRow}
    BY <1>1, SourceSaved DEF Answering, IInv
  <1>4. n.of = type
    BY <1>2, TypeNames, NewNode DEF Types
  <1>5. Saved /\ Grown
    BY DEF Answering, IInv
  <1>6. Right(name, s, n)'
    BY <1>1, <1>2, <1>3, <1>4, <1>5, RightStays
  <1> QED  BY <1>1, <1>2, <1>6

(* A list of objects with its page info *)
LEMMA PutConnection ==
  ASSUME NEW x, NEW t, Answering(x, t), NEW type \in Connections,
         t[x].of = type, NEW rows \in SUBSET Nat, NoRow \notin rows,
         Put(Connection(x, type, rows)),
         NEW of, of = Lists[ListOf[type]],
         \A r \in rows : Right("item", Source(t, x), Node("open", of, r))
  PROVE  IInv'
  <1>1. PICK new : new = Connection(x, type, rows)
    OBVIOUS
  <1>2. PICK u : u = new ++ t
    OBVIOUS
  <1>3. /\ x \in Position /\ type \in Types /\ NoRow \in Nat
        /\ type \in DOMAIN Fields /\ type \notin Entities
        /\ of \in Entities /\ of \in Types
    BY TypeNames DEF Answering, IInv, Tree, Types, Connections, Entities, ListOf,
                     NoRow
  <1>4. /\ Graft(new, x)
        /\ new[x] = Node("open", type, NoRow)
        /\ \A y \in DOMAIN new \ {x} :
             /\ new[y].is = "null" =>
                  /\ new[Parent(y)].of \in DOMAIN Fields
                  /\ NameOf(y) \in DOMAIN Fields[new[Parent(y)].of]
                  /\ Fields[new[Parent(y)].of][NameOf(y)].nullable
             /\ \/ new[y].is = "waiting" \/ new[y].of \notin Entities
                \/ /\ y = Item(Child(x, "edges"), new[y].row)
                   /\ new[y].is = "open"
                   /\ new[y].of = Lists[ListOf[type]]
                   /\ new[y].row \in rows
    BY <1>1, <1>3, ConnectionGraft
  <1>5. new[x].is = "open" /\ new[x].of = type
    BY <1>3, <1>4, NewNode
  <1>6. Answer(x, t, new, u)
    BY <1>2, <1>4, <1>5 DEF Answer
  <1>7. Planted(u, t, new, x)
    BY <1>6, AnswerPlanted
  <1>8. \A y \in DOMAIN new : u[y] = new[y] /\ y \in DOMAIN u
    BY <1>7, PlantedNew
  <1>9. /\ DOMAIN u = DOMAIN t \cup DOMAIN new
        /\ \A y \in DOMAIN new : u[y] = new[y]
        /\ \A y \in DOMAIN t \ {x} : y \notin DOMAIN new /\ u[y] = t[y]
        /\ Tree(u)
    BY ONLY <1>7, PutTree
  <1>10. ASSUME NEW y \in DOMAIN new \ {x}, Entity(u[y]) PROVE NodeRight(u, y)'
    <2> DEFINE edges == Child(x, "edges")
               row == new[y].row
    <2>1. /\ y = Item(edges, row)
          /\ new[y].is = "open" /\ new[y].of = of /\ row \in rows /\ row \in Nat
      BY <1>4, <1>8, <1>10 DEF Entity
    <2>2. "edges" \in DOMAIN Fields[type] /\ "edges" \in Names
      BY <1>3, ConnectionTables, FieldsTyped
    <2>3. Under(edges, x, "edges", x.at)
      BY <1>3, <2>2, ChildPosition
    <2> HIDE DEF edges, row
    <2>4. /\ edges \in Position /\ NameOf(edges) = "edges" /\ Parent(edges) = x
          /\ Len(edges.path) = Len(x.path) + 1 /\ Len(x.path) \in Nat
      BY <2>3 DEF Under
    <2>5. Under(y, edges, "item", Append(edges.at, row))
      BY <2>1, <2>4, ItemPosition
    <2>6. /\ NameOf(y) = "item" /\ Parent(y) = edges
      BY <2>5 DEF Under
    <2>7. edges # Root /\ y # Root
      <3>1. Len(Root.path) = 0
        BY DEF Root
      <3> QED  BY <1>10, <2>4, <3>1, <1>4 DEF Graft
    <2>8. edges \in DOMAIN new /\ y \in DOMAIN new /\ x \in DOMAIN new
      BY <1>4, <1>10, <2>6 DEF Graft
    <2>9. u[edges].of \in DOMAIN Lists
      BY <1>4, <1>8, <1>10, <2>6, <2>8 DEF Graft, Fits
    <2>10. u[edges].of # "Stream"
      BY <2>9, TypeNames
    <2>11. Source(u, y) = Source(u, edges)
      BY <1>8, <1>9, <2>6, <2>7, <2>8, <2>10, SourceStep
    <2>12. Source(u, edges) = Source(u, x)
      BY <1>3, <1>5, <1>8, <1>9, <2>4, <2>7, <2>8, SourceStep DEF Entities
    <2>13. Source(u, x) = Source(t, x)
      <3>1. x \in DOMAIN t
        BY DEF Answering
      <3> QED  BY <1>7, <3>1, PutSource
    <2>14. u[y] = Node("open", of, row)
      <3>1. new[y] \in Nodes /\ new[y].row = row
        BY <1>4, <2>8 DEF Graft, row
      <3> QED  BY <1>8, <2>1, <2>8, <3>1 DEF Nodes, Node
    <2>15. Right("item", Source(t, x), Node("open", of, row))'
      BY <1>3, <2>1, StillRight
    <2> QED
      BY <2>6, <2>11, <2>12, <2>13, <2>14, <2>15 DEF NodeRight
  <1>11. ~Entity(u[x])
    BY <1>3, <1>4, <1>5, <1>8 DEF Entity, Graft
  <1>12. \A y \in DOMAIN new : NodeRight(u, y)'
    <2> SUFFICES ASSUME NEW y \in DOMAIN new PROVE NodeRight(u, y)'
      OBVIOUS
    <2>1. CASE ~Entity(u[y])
      BY <2>1 DEF NodeRight, Entity
    <2> QED  BY <1>10, <1>11, <2>1
  <1>13. ASSUME NEW y \in DOMAIN new, new[y].is = "null"
         PROVE  Fields[u[Parent(y)].of][NameOf(y)].nullable
    <2>1. y # x
      BY <1>5, <1>13
    <2>2. Parent(y) \in DOMAIN new
      BY <1>4, <1>13, <2>1 DEF Graft
    <2> QED  BY <1>4, <1>8, <1>13, <2>1, <2>2
  <1>14. Put(new)
    BY <1>1
  <1> QED  BY <1>6, <1>12, <1>13, <1>14, PutStep

(* A node on its own, that is no entity to see *)
LEMMA PutOnly ==
  ASSUME NEW x, NEW t, Answering(x, t),
         NEW n \in Nodes, n.is # "waiting", n.of = t[x].of, n.row = NoRow,
         n.of \in Entities => n.is = "null",
         n.is = "null" => Fields[t[Parent(x)].of][NameOf(x)].nullable,
         Put(Only(x, n))
  PROVE  IInv'
  <1>1. PICK new : new = Only(x, n)
    OBVIOUS
  <1>2. PICK u : u = new ++ t
    OBVIOUS
  <1>3. x \in Position
    BY DEF Answering, IInv, Tree
  <1>4. Graft(new, x) /\ DOMAIN new = {x} /\ new[x] = n
    BY <1>1, <1>3, OnlyGraft
  <1>5. Answer(x, t, new, u)
    BY <1>2, <1>4 DEF Answer
  <1>6. Planted(u, t, new, x)
    BY <1>5, AnswerPlanted
  <1>7. ASSUME Entity(new[x])
        PROVE  Right(NameOf(x), Source(t, x), new[x])'
    BY <1>4, <1>7 DEF Right, Entity
  <1>8. NodeRight(u, x)'
    BY <1>6, <1>7, PutRight
  <1>9. new[x].is = "null" => Fields[u[Parent(x)].of][NameOf(x)].nullable
    BY <1>4, <1>6, PlantedParent
  <1>10. Put(new)
    BY <1>1
  <1> QED  BY <1>4, <1>5, <1>8, <1>9, <1>10, PutStep

(* The node of a field that is null *)
LEMMA NullNode ==
  ASSUME NEW x, NEW t, Answering(x, t), NEW n, n = Node("null", t[x].of, NoRow)
  PROVE  /\ n \in Nodes /\ n.is = "null" /\ n.of = t[x].of /\ n.row = NoRow
         /\ Nothing(x) = Only(x, n)
  <1>1. t[x].of \in Types /\ NoRow \in Nat
    BY DEF Answering, IInv, Tree, Nodes, NoRow
  <1>2. Nothing(x) = Only(x, n)
    BY DEF Nothing, Answering
  <1> QED  BY <1>1, <1>2, NewNode

(* Nothing, where the field may be null *)
LEMMA PutNothing ==
  ASSUME NEW x, NEW t, Answering(x, t),
         Fields[t[Parent(x)].of][NameOf(x)].nullable,
         Put(Nothing(x))
  PROVE  IInv'
  <1>1. PICK n : n = Node("null", t[x].of, NoRow)
    OBVIOUS
  <1>2. /\ n \in Nodes /\ n.is = "null" /\ n.of = t[x].of /\ n.row = NoRow
        /\ Nothing(x) = Only(x, n)
    BY <1>1, NullNode
  <1>3. Put(Only(x, n))
    BY <1>2
  <1> QED  BY <1>2, <1>3, PutOnly

(* An error *)
LEMMA RefuseInv ==
  ASSUME NEW x, NEW t, Answering(x, t), Refuse(x),
         faults' \in 0 .. MaxFaults, faults' = 0 => faults = 0,
         faults' = 0 => Parent(x) = Root
  PROVE  IInv'
  <1>1. PICK n : n = Node("null", t[x].of, NoRow)
    OBVIOUS
  <1>2. PICK new : new = Only(x, n)
    OBVIOUS
  <1>3. PICK u : u = new ++ t
    OBVIOUS
  <1>4. /\ n \in Nodes /\ n.is = "null" /\ n.of = t[x].of /\ n.row = NoRow
        /\ Nothing(x) = new
    BY <1>1, <1>2, NullNode
  <1>5. x \in Position
    BY DEF Answering, IInv, Tree
  <1>6. Graft(new, x) /\ DOMAIN new = {x} /\ new[x] = n
    BY <1>2, <1>4, <1>5, OnlyGraft
  <1>7. Answer(x, t, new, u)
    BY <1>3, <1>4, <1>6 DEF Answer
  <1>8. Planted(u, t, new, x)
    BY <1>7, AnswerPlanted
  <1>9. ASSUME Entity(new[x])
        PROVE  Right(NameOf(x), Source(t, x), new[x])'
    BY <1>4, <1>6, <1>9 DEF Right, Entity
  <1>10. \A y \in DOMAIN new : NodeRight(u, y)'
    <2>1. NodeRight(u, x)'
      BY <1>8, <1>9, PutRight
    <2> QED  BY <1>6, <2>1
  <1>11. /\ node' = u /\ doc' = doc /\ nils' = nils /\ errors' = errors \cup {x}
    BY <1>3, <1>4 DEF Refuse, Answering
  <1>12. /\ IInv /\ Grown /\ x \in DOMAIN node /\ node[x].is = "waiting"
         /\ t = node /\ u = new ++ node /\ new[x].of = node[x].of
    BY <1>7 DEF Answer, Answering
  <1>13. nils \cup errors \cup {y \in DOMAIN new : new[y].is = "null"}
           \subseteq nils' \cup errors'
         /\ nils' \cup errors' \subseteq nils \cup errors \cup DOMAIN new
    BY <1>6, <1>11
  <1>14. faults' = 0 => \A y \in errors' \ errors : AtTop(y)
    BY <1>11 DEF AtTop
  <1> QED  BY <1>6, <1>10, <1>11, <1>12, <1>13, <1>14, PutInv

-----------------------------------------------------------------------------
(* The resolvers *)

(* Only the root has the type of an operation. *)
LEMMA RootOnly ==
  ASSUME NEW t, Tree(t), NEW x \in DOMAIN t, t[x].of \in Operations
  PROVE  x = Root
  <1> SUFFICES ASSUME x # Root PROVE FALSE
    OBVIOUS
  <1>1. Fits(x, t[x], t[Parent(x)])
    BY DEF Tree
  <1>2. CASE NameOf(x) = "item"
    BY <1>1, <1>2, TypeNames DEF Fits, Operations
  <1>3. CASE NameOf(x) # "item"
    BY <1>1, <1>3, FieldsTyped DEF Fits
  <1> QED  BY <1>2, <1>3

(* Whose transcription an object can be *)
LEMMA TranscriptionAt ==
  ASSUME NEW t, Tree(t), NEW x \in DOMAIN t, t[x].of = "Transcription"
  PROVE  Source(t, x) = NoRow
  <1>1. x # Root
    BY DEF Tree, Operations
  <1>2. Fits(x, t[x], t[Parent(x)]) /\ Parent(x) \in DOMAIN t
    BY <1>1 DEF Tree
  <1>3. NameOf(x) # "item"
    BY <1>2, TypeNames DEF Fits
  <1>4. \/ NameOf(x) = "transcription"
        \/ t[Parent(x)].of = "Subscription"
    BY <1>2, <1>3, FieldsTyped DEF Fits
  <1>5. CASE NameOf(x) = "transcription"
    BY <1>1, <1>5, SourceStep
  <1>6. CASE NameOf(x) # "transcription"
    <2>1. t[Parent(x)].of = "Subscription"
      BY <1>4, <1>6
    <2>2. Parent(x) = Root
      BY <1>2, <2>1, RootOnly DEF Operations
    <2>3. Source(t, x) = Source(t, Parent(x))
      BY <1>1, <1>6, <2>1, SourceStep
    <2> QED  BY <2>2, <2>3, SourceRoot
  <1> QED  BY <1>5, <1>6

(* What a resolver knows: the field f that the object p has asked for      *)
Knows(x, t, type, f, p) ==
  /\ Answering(x, t)
  /\ p = t[Parent(x)] /\ p.of = type
  /\ NameOf(x) = f /\ t[x].row = p.row
  /\ f \in DOMAIN Fields[type] /\ t[x].of = Fields[type][f].of

(* The guard of a resolver says all of that. *)
LEMMA AskedKnows ==
  ASSUME NEW x, NEW t, Answering(x, t), NEW type, NEW f, f # "item",
         Asked(x, type, f), NEW p, p = t[Parent(x)]
  PROVE  Knows(x, t, type, f, p)
  <1>1. NameOf(x) = f /\ p.of = type
    BY DEF Asked, Answering
  <1>2. Tree(t) /\ x \in DOMAIN t /\ t[x].is = "waiting"
    BY DEF Answering, IInv
  <1>3. Fits(x, t[x], p) /\ t[x].row = p.row
    BY <1>2, WaitingParent
  <1> QED  BY <1>1, <1>3 DEF Knows, Fits

(* At the top, nothing is above. *)
LEMMA KnowsTop ==
  ASSUME NEW x, NEW t, NEW type \in Operations, NEW f, NEW p,
         Knows(x, t, type, f, p)
  PROVE  Parent(x) = Root /\ Source(t, x) = NoRow
  <1>1. /\ Tree(t) /\ x \in DOMAIN t /\ t[x].is = "waiting"
        /\ t[Parent(x)].of = type
    BY DEF Knows, Answering, IInv
  <1>2. Parent(x) \in DOMAIN t /\ x # Root
    BY <1>1, WaitingParent
  <1>3. Parent(x) = Root
    BY <1>1, <1>2, RootOnly
  <1>4. Source(t, Root) = NoRow
    BY <1>1, SourceRoot
  <1>5. type # "Stream"
    BY DEF Operations
  <1>6. Source(t, x) =
          IF NameOf(x) = "transcription" THEN NoRow
          ELSE IF t[Parent(x)].of = "Stream" THEN t[Parent(x)].row
          ELSE Source(t, Parent(x))
    BY <1>1, <1>2, SourceStep
  <1> QED  BY <1>1, <1>3, <1>4, <1>5, <1>6

(* In an entity, its row is there and belongs to the stream around it. *)
LEMMA KnowsEntity ==
  ASSUME NEW x, NEW t, NEW type \in Entities, NEW f, NEW p,
         Knows(x, t, type, f, p), NEW s, s = Source(t, x)
  PROVE  /\ p.row \in Table(type) \cup {NoRow}
         /\ type # "Stream" => p.row # NoRow
         /\ f = "transcription" => s = NoRow
         /\ (type = "Stream" /\ f # "transcription") => s = p.row
         /\ type = "Transcription" => s = NoRow
         /\ (type \in {"Chunk", "Transmission"} /\ s # NoRow) => StreamOf(p) = s
  <1>1. /\ Tree(t) /\ x \in DOMAIN t /\ t[x].is = "waiting" /\ AllRight(t)
        /\ p = t[Parent(x)] /\ p.of = type /\ NameOf(x) = f
    BY DEF Knows, Answering, IInv
  <1>2. Parent(x) \in DOMAIN t /\ x # Root /\ p.is = "open"
    BY <1>1, WaitingParent
  <1>3. Right(NameOf(Parent(x)), Source(t, Parent(x)), p)
    BY <1>1, <1>2 DEF AllRight, NodeRight, Entity
  <1>4. s = IF f = "transcription" THEN NoRow
            ELSE IF type = "Stream" THEN p.row ELSE Source(t, Parent(x))
    BY <1>1, <1>2, SourceStep
  <1>5. type = "Transcription" => Source(t, Parent(x)) = NoRow
    BY <1>1, <1>2, TranscriptionAt
  <1> QED  BY <1>1, <1>2, <1>3, <1>4, <1>5 DEF Right

(* Queries leave the tables as they are. *)
LEMMA QueryAnswers ==
  ASSUME IInv, UNCHANGED dbVars, NEW x \in DOMAIN node,
         node[x].is = "waiting", NEW t, t = node
  PROVE  Answering(x, t)
  BY SameGrows DEF Answering, IInv

(* The node of an object that is there *)
LEMMA OpenNode ==
  ASSUME NEW type \in Entities, NEW row \in Nat, NEW n,
         n = Node("open", type, row)
  PROVE  n.is = "open" /\ n.of = type /\ n.row = row
  BY TypeNames, NewNode DEF Types

(* The resolvers of a query: no stream is around them, any row will do. *)
LEMMA GetStreamsInv ==
  ASSUME IInv, NEW x \in DOMAIN node, node[x].is = "waiting", GetStreams(x)
  PROVE  IInv'
  <1>1. PICK t : t = node
    OBVIOUS
  <1>2. PICK p : p = t[Parent(x)]
    OBVIOUS
  <1>3. /\ Answering(x, t) /\ Asked(x, "Query", "getStreams")
        /\ Put(Connection(x, t[x].of, Active))
    BY <1>1, QueryAnswers DEF GetStreams
  <1>4. Knows(x, t, "Query", "getStreams", p)
    BY <1>2, <1>3, AskedKnows
  <1>5. Source(t, x) = NoRow
    BY <1>4, KnowsTop DEF Operations
  <1>6. t[x].of = "StreamsConnection"
    BY <1>4, QueryTable DEF Knows, Field
  <1>7. Lists[ListOf["StreamsConnection"]] = "Stream"
    BY TypeNames DEF ListOf
  <1>8. Active \in SUBSET Nat /\ NoRow \notin Active /\ Active \subseteq DOMAIN streams
    BY SavedRows DEF IInv
  <1>9. ASSUME NEW r \in Active
        PROVE  Right("item", Source(t, x), Node("open", "Stream", r))
    <2>1. PICK n : n = Node("open", "Stream", r)
      OBVIOUS
    <2>2. n.is = "open" /\ n.of = "Stream" /\ n.row = r
      BY <1>8, <2>1, OpenNode DEF Entities
    <2> QED  BY <1>5, <1>8, <2>1, <2>2 DEF Right, Table
  <1>10. Put(Connection(x, "StreamsConnection", Active))
    BY <1>3, <1>6
  <1> QED  BY <1>3, <1>6, <1>7, <1>8, <1>9, <1>10, PutConnection DEF Connections

LEMMA GetByIDInv ==
  ASSUME IInv, NEW x \in DOMAIN node, node[x].is = "waiting",
         NEW f \in {"getStreamById", "getChunkById", "getTransmissionById"},
         NEW kind, kind = Fields["Query"][f].of,
         NEW rows, rows \subseteq Table(kind), rows \subseteq Nat \ {NoRow},
         getByID(x, f, kind, rows)
  PROVE  IInv'
  <1>1. PICK t : t = node
    OBVIOUS
  <1>2. PICK p : p = t[Parent(x)]
    OBVIOUS
  <1>3. /\ Answering(x, t) /\ Asked(x, "Query", f)
        /\ Put(IF doc.about.id \in rows
               THEN Object(doc, x, kind, doc.about.id) ELSE Nothing(x))
    BY <1>1, QueryAnswers DEF getByID
  <1>4. Knows(x, t, "Query", f, p)
    BY <1>2, <1>3, AskedKnows
  <1>5. Source(t, x) = NoRow
    BY <1>4, KnowsTop DEF Operations
  <1>6. t[x].of = kind /\ kind \in Entities /\ kind # "Transcription"
        /\ Fields["Query"][f].nullable
    BY <1>4, QueryTable DEF Knows, Field, Entities
  <1>7. CASE doc.about.id \in rows
    <2>1. PICK r : r = doc.about.id
      OBVIOUS
    <2>2. r \in Nat /\ r # NoRow /\ r \in Table(kind)
      BY <1>7, <2>1
    <2>3. PICK n : n = Node("open", kind, r)
      OBVIOUS
    <2>4. n.is = "open" /\ n.of = kind /\ n.row = r
      BY <1>6, <2>2, <2>3, OpenNode
    <2>5. Right(NameOf(x), Source(t, x), n)
      BY <1>5, <1>6, <2>2, <2>4 DEF Right
    <2>6. Put(Object(doc, x, kind, r))
      BY <1>3, <1>7, <2>1
    <2> QED  BY <1>3, <1>6, <2>2, <2>3, <2>5, <2>6, StillRight, PutObject
  <1>8. CASE doc.about.id \notin rows
    <2>1. Put(Nothing(x))
      BY <1>3, <1>8
    <2>2. Fields[t[Parent(x)].of][NameOf(x)].nullable
      BY <1>4, <1>6 DEF Knows
    <2> QED  BY <1>3, <2>1, <2>2, PutNothing
  <1> QED  BY <1>7, <1>8

LEMMA GetInv ==
  ASSUME IInv, NEW x \in DOMAIN node, node[x].is = "waiting",
         GetStreamByID(x) \/ GetChunkByID(x) \/ GetTransmissionByID(x)
  PROVE  IInv'
  <1>1. /\ Active \subseteq DOMAIN streams
        /\ DOMAIN streams \subseteq Nat \ {NoRow}
        /\ DOMAIN chunks \subseteq Nat \ {NoRow}
        /\ DOMAIN transmissions \subseteq Nat \ {NoRow}
    BY SavedRows DEF IInv
  <1>2. /\ Fields["Query"]["getStreamById"].of = "Stream"
        /\ Fields["Query"]["getChunkById"].of = "Chunk"
        /\ Fields["Query"]["getTransmissionById"].of = "Transmission"
    BY QueryTable DEF Field
  <1>3. /\ Table("Stream") = DOMAIN streams
        /\ Table("Chunk") = DOMAIN chunks
        /\ Table("Transmission") = DOMAIN transmissions
    BY DEF Table
  <1>4. CASE GetStreamByID(x)
    BY <1>1, <1>2, <1>3, <1>4, GetByIDInv DEF GetStreamByID
  <1>5. CASE GetChunkByID(x)
    BY <1>1, <1>2, <1>3, <1>5, GetByIDInv DEF GetChunkByID
  <1>6. CASE GetTransmissionByID(x)
    BY <1>1, <1>2, <1>3, <1>6, GetByIDInv DEF GetTransmissionByID
  <1> QED  BY <1>4, <1>5, <1>6

(* A page of rows that belong to the stream around x *)
Page(x, t, type, kind, rows) ==
  /\ Answering(x, t)
  /\ type \in Connections /\ t[x].of = type
  /\ kind \in {"Chunk", "Transmission"} /\ kind = Lists[ListOf[type]]
  /\ rows \in SUBSET Table(kind)
  /\ Source(t, x) # NoRow =>
       \A r \in rows : StreamOf(Node("open", kind, r)) = Source(t, x)

(* Such a page keeps the invariant: every element belongs to the stream    *)
(* around the connection.                                                  *)
LEMMA PageInv ==
  ASSUME NEW x, NEW t, NEW type, NEW kind, NEW rows,
         Page(x, t, type, kind, rows), Put(Connection(x, type, rows))
  PROVE  IInv'
  <1> USE DEF Page
  <1> DEFINE s == Source(t, x)
  <1>1. kind \in Entities /\ kind # "Transcription"
    BY DEF Entities
  <1>2. rows \in SUBSET Nat /\ NoRow \notin rows
    <2>1. DOMAIN chunks \subseteq Nat \ {NoRow}
          /\ DOMAIN transmissions \subseteq Nat \ {NoRow}
      BY SavedRows DEF Answering, IInv
    <2> QED  BY <2>1 DEF Table
  <1>3. ASSUME NEW r \in rows
        PROVE  Right("item", Source(t, x), Node("open", kind, r))
    <2>1. PICK n : n = Node("open", kind, r)
      OBVIOUS
    <2>2. n.is = "open" /\ n.of = kind /\ n.row = r
      BY <1>1, <1>2, <2>1, OpenNode
    <2>3. s # NoRow => StreamOf(n) = s
      BY <2>1
    <2>4. Right("item", s, n)
      BY <1>1, <1>2, <2>2, <2>3 DEF Right
    <2> QED  BY <2>1, <2>4
  <1> QED  BY <1>2, <1>3, PutConnection

(* The stream that a row of each table belongs to *)
LEMMA OpenStream ==
  ASSUME NEW kind \in Entities, NEW row \in Nat, NEW n,
         n = Node("open", kind, row)
  PROVE  /\ kind = "Stream" => StreamOf(n) = row
         /\ kind = "Chunk" => StreamOf(n) = chunks[row]
         /\ kind = "Transmission" => StreamOf(n) = chunks[transmissions[row]]
  BY OpenNode, StreamOfTypes

(* What the lists of the two connections hold *)
LEMMA ListsOf ==
  /\ "ChunksConnection" \in Connections
  /\ "TransmissionsConnection" \in Connections
  /\ Lists[ListOf["ChunksConnection"]] = "Chunk"
  /\ Lists[ListOf["TransmissionsConnection"]] = "Transmission"
  BY TypeNames DEF ListOf, Connections

(* Rows have ids from 1. *)
LEMMA TableRows ==
  ASSUME IInv
  PROVE  /\ DOMAIN chunks \subseteq Nat \ {NoRow}
         /\ DOMAIN transmissions \subseteq Nat \ {NoRow}
         /\ DOMAIN transcriptions \subseteq Nat \ {NoRow}
         /\ DOMAIN streams \subseteq Nat \ {NoRow}
         /\ Table("Stream") = DOMAIN streams
         /\ Table("Chunk") = DOMAIN chunks
         /\ Table("Transmission") = DOMAIN transmissions
         /\ Table("Transcription") = DOMAIN transcriptions
         /\ Active \subseteq DOMAIN streams
  <1>1. Saved
    BY DEF IInv
  <1>2. /\ Table("Stream") = DOMAIN streams
        /\ Table("Chunk") = DOMAIN chunks
        /\ Table("Transmission") = DOMAIN transmissions
        /\ Table("Transcription") = DOMAIN transcriptions
    BY DEF Table
  <1> QED  BY <1>1, <1>2, SavedRows

(* The pages of a stream and of a chunk: the conditions of their queries   *)
(* choose rows of the stream around, since the object's own row is right.  *)
LEMMA PagesInv ==
  ASSUME IInv, NEW x \in DOMAIN node, node[x].is = "waiting",
         StreamChunks(x) \/ StreamTransmissions(x) \/ ChunkTransmissions(x)
  PROVE  IInv'
  <1>1. PICK t : t = node
    OBVIOUS
  <1>2. PICK p : p = t[Parent(x)]
    OBVIOUS
  <1>3. PICK s : s = Source(t, x)
    OBVIOUS
  <1>4. Answering(x, t)
    BY <1>1, QueryAnswers
       DEF StreamChunks, StreamTransmissions, ChunkTransmissions
  <1>5. /\ DOMAIN chunks \subseteq Nat \ {NoRow}
        /\ DOMAIN transmissions \subseteq Nat \ {NoRow}
        /\ Table("Chunk") = DOMAIN chunks
        /\ Table("Transmission") = DOMAIN transmissions
    BY TableRows
  <1>6. CASE StreamChunks(x)
    <2>1. Asked(x, "Stream", "chunks")
      BY <1>6 DEF StreamChunks
    <2>2. Knows(x, t, "Stream", "chunks", p)
      BY <1>2, <1>4, <2>1, AskedKnows
    <2>3. s = p.row /\ t[x].row = p.row
      BY <1>3, <2>2, KnowsEntity DEF Entities, Knows
    <2>4. t[x].of = "ChunksConnection"
      BY <2>2, StreamTable DEF Knows, Field
    <2>5. PICK rows : rows = {c \in DOMAIN chunks : s = NoRow \/ chunks[c] = s}
      OBVIOUS
    <2>6. Put(Connection(x, "ChunksConnection", rows))
      BY <1>1, <1>6, <2>3, <2>4, <2>5 DEF StreamChunks
    <2>7. \A r \in rows : s # NoRow => StreamOf(Node("open", "Chunk", r)) = s
      BY <1>5, <2>5, OpenStream DEF Entities
    <2>8. rows \in SUBSET Table("Chunk")
      BY <1>5, <2>5
    <2>9. Page(x, t, "ChunksConnection", "Chunk", rows)
      BY <1>3, <1>4, <2>4, <2>7, <2>8, ListsOf DEF Page
    <2> QED  BY <2>6, <2>9, PageInv
  <1>7. CASE StreamTransmissions(x)
    <2>1. Asked(x, "Stream", "transmissions")
      BY <1>7 DEF StreamTransmissions
    <2>2. Knows(x, t, "Stream", "transmissions", p)
      BY <1>2, <1>4, <2>1, AskedKnows
    <2>3. s = p.row /\ t[x].row = p.row
      BY <1>3, <2>2, KnowsEntity DEF Entities, Knows
    <2>4. t[x].of = "TransmissionsConnection"
      BY <2>2, StreamTable DEF Knows, Field
    <2>5. PICK rows :
            rows = {r \in DOMAIN transmissions : chunks[transmissions[r]] = s}
      OBVIOUS
    <2>6. Put(Connection(x, "TransmissionsConnection", rows))
      BY <1>1, <1>7, <2>3, <2>4, <2>5 DEF StreamTransmissions
    <2>7. \A r \in rows :
            s # NoRow => StreamOf(Node("open", "Transmission", r)) = s
      BY <1>5, <2>5, OpenStream DEF Entities
    <2>8. rows \in SUBSET Table("Transmission")
      BY <1>5, <2>5
    <2>9. Page(x, t, "TransmissionsConnection", "Transmission", rows)
      BY <1>3, <1>4, <2>4, <2>7, <2>8, ListsOf DEF Page
    <2> QED  BY <2>6, <2>9, PageInv
  <1>8. CASE ChunkTransmissions(x)
    <2>1. Asked(x, "Chunk", "transmissions")
      BY <1>8 DEF ChunkTransmissions
    <2>2. Knows(x, t, "Chunk", "transmissions", p)
      BY <1>2, <1>4, <2>1, AskedKnows
    <2>3. (s # NoRow => StreamOf(p) = s) /\ t[x].row = p.row /\ p.of = "Chunk"
      BY <1>3, <2>2, KnowsEntity DEF Entities, Knows
    <2>4. t[x].of = "TransmissionsConnection"
      BY <2>2, ChunkTable DEF Knows, Field
    <2>5. PICK rows :
            rows = {r \in DOMAIN transmissions : transmissions[r] = p.row}
      OBVIOUS
    <2>6. Put(Connection(x, "TransmissionsConnection", rows))
      BY <1>1, <1>8, <2>3, <2>4, <2>5 DEF ChunkTransmissions
    <2>7. \A r \in rows :
            s # NoRow => StreamOf(Node("open", "Transmission", r)) = s
      BY <1>5, <2>3, <2>5, OpenStream, StreamOfTypes DEF Entities
    <2>8. rows \in SUBSET Table("Transmission")
      BY <1>5, <2>5
    <2>9. Page(x, t, "TransmissionsConnection", "Transmission", rows)
      BY <1>3, <1>4, <2>4, <2>7, <2>8, ListsOf DEF Page
    <2> QED  BY <2>6, <2>9, PageInv
  <1> QED  BY <1>6, <1>7, <1>8

(* A download URL is a scalar that may be null. *)
LEMMA DownloadURLInv ==
  ASSUME IInv, NEW x \in DOMAIN node, node[x].is = "waiting", DownloadURL(x)
  PROVE  IInv'
  <1>1. PICK t : t = node
    OBVIOUS
  <1>2. PICK p : p = t[Parent(x)]
    OBVIOUS
  <1>3. PICK type \in {"Chunk", "Transmission"} : Asked(x, type, "downloadUrl")
    BY DEF DownloadURL
  <1>4. Answering(x, t)
    BY <1>1, QueryAnswers DEF DownloadURL
  <1>5. Knows(x, t, type, "downloadUrl", p)
    BY <1>2, <1>3, <1>4, AskedKnows
  <1>6. Fields[type]["downloadUrl"] = Field(Scalar, TRUE, TRUE)
    BY ChunkTable, TransmissionTable
  <1>7. t[x].of = Scalar /\ Fields[t[Parent(x)].of][NameOf(x)].nullable
    BY <1>5, <1>6 DEF Knows, Field
  <1>8. CASE Put(Nothing(x))
    BY <1>4, <1>7, <1>8, PutNothing
  <1>9. CASE Put(Only(x, Node("done", Scalar, NoRow)))
    <2>1. PICK n : n = Node("done", Scalar, NoRow)
      OBVIOUS
    <2>2. n \in Nodes /\ n.is = "done" /\ n.of = Scalar /\ n.row = NoRow
      BY <2>1, NewNode DEF Types, NoRow
    <2>3. Scalar \notin Entities
      BY DEF Scalar, Entities
    <2>4. Put(Only(x, n))
      BY <1>9, <2>1
    <2> QED  BY <1>4, <1>7, <2>2, <2>3, <2>4, PutOnly
  <1> QED  BY <1>8, <1>9 DEF DownloadURL

(* The row that is shown at x is right for the tables as they were. *)
Shows(x, t, type, row) ==
  /\ Answering(x, t)
  /\ type \in Entities /\ t[x].of = type
  /\ row \in Nat
  /\ \A n : n.is = "open" /\ n.of = type /\ n.row = row =>
       Right(NameOf(x), Source(t, x), n)

(* An object with such a row keeps the invariant. *)
LEMMA ShowsInv ==
  ASSUME NEW x, NEW t, NEW type, NEW row,
         Shows(x, t, type, row), Put(Object(doc, x, type, row))
  PROVE  IInv'
  <1>1. Answering(x, t) /\ type \in Entities /\ t[x].of = type /\ row \in Nat
    BY DEF Shows
  <1>2. PICK n : n = Node("open", type, row)
    OBVIOUS
  <1>3. n.is = "open" /\ n.of = type /\ n.row = row
    BY <1>1, <1>2, OpenNode
  <1>4. Right(NameOf(x), Source(t, x), n)
    BY <1>3 DEF Shows
  <1> QED  BY <1>1, <1>2, <1>4, StillRight, PutObject

(* The way up *)
LEMMA ChunkStreamInv ==
  ASSUME IInv, NEW x \in DOMAIN node, node[x].is = "waiting", ChunkStream(x)
  PROVE  IInv'
  <1>1. PICK t : t = node
    OBVIOUS
  <1>2. PICK p : p = t[Parent(x)]
    OBVIOUS
  <1>3. PICK s : s = Source(t, x)
    OBVIOUS
  <1>4. Answering(x, t) /\ Asked(x, "Chunk", "stream")
    BY <1>1, QueryAnswers DEF ChunkStream, getParentObject
  <1>5. Knows(x, t, "Chunk", "stream", p)
    BY <1>2, <1>4, AskedKnows
  <1>6. p.row \in DOMAIN chunks /\ s # NoRow => StreamOf(p) = s
    BY <1>3, <1>5, KnowsEntity, TableRows DEF Entities
  <1>7. p.row \in DOMAIN chunks /\ p.of = "Chunk" /\ t[x].row = p.row
        /\ t[x].of = "Stream"
    BY <1>5, KnowsEntity, TableRows, ChunkTable DEF Entities, Knows, Field
  <1>8. s # NoRow => chunks[p.row] = s
    BY <1>6, <1>7, StreamOfTypes
  <1>9. PICK row : row = IF chunks[p.row] \in Active THEN chunks[p.row] ELSE NoRow
    OBVIOUS
  <1>10. Put(Object(doc, x, "Stream", row))
    BY <1>1, <1>7, <1>9 DEF ChunkStream, getParentObject
  <1>11. chunks[p.row] \in DOMAIN streams
    BY <1>7, SavedRows DEF IInv
  <1>12. ASSUME NEW n, n.is = "open", n.of = "Stream", n.row = row
         PROVE  Right(NameOf(x), s, n)
    <2>1. row \in Table("Stream") \cup {NoRow}
      BY <1>9, <1>11, TableRows
    <2>2. row = NoRow => Active # DOMAIN streams
      BY <1>9, <1>11, TableRows
    <2>3. s # NoRow => IF row = NoRow THEN s \notin Active ELSE StreamOf(n) = s
      BY <1>8, <1>9, <1>11, <1>12, TableRows, StreamOfTypes
    <2> QED  BY <1>12, <2>1, <2>2, <2>3 DEF Right
  <1>13. row \in Nat
    BY <1>9, <1>11, TableRows DEF NoRow
  <1>14. Shows(x, t, "Stream", row)
    BY <1>2, <1>3, <1>4, <1>7, <1>12, <1>13 DEF Shows, Entities
  <1> QED  BY <1>10, <1>14, ShowsInv

(* The way up: the row's parent is in the same stream. *)
LEMMA TransmissionChunkInv ==
  ASSUME IInv, NEW x \in DOMAIN node, node[x].is = "waiting",
         TransmissionChunk(x)
  PROVE  IInv'
  <1>1. PICK t : t = node
    OBVIOUS
  <1>2. PICK p : p = t[Parent(x)]
    OBVIOUS
  <1>3. PICK s : s = Source(t, x)
    OBVIOUS
  <1>4. Answering(x, t) /\ Asked(x, "Transmission", "chunk")
    BY <1>1, QueryAnswers DEF TransmissionChunk, getParentObject
  <1>5. Knows(x, t, "Transmission", "chunk", p)
    BY <1>2, <1>4, AskedKnows
  <1>6. s # NoRow => StreamOf(p) = s
    BY <1>3, <1>5, KnowsEntity DEF Entities
  <1>7. p.row \in DOMAIN transmissions /\ p.of = "Transmission"
        /\ t[x].row = p.row /\ t[x].of = "Chunk"
    BY <1>5, KnowsEntity, TableRows, TransmissionTable DEF Entities, Knows, Field
  <1>8. PICK row : row = transmissions[p.row]
    OBVIOUS
  <1>9. row \in DOMAIN chunks /\ row \in Nat /\ row # NoRow
    BY <1>7, <1>8, SavedRows DEF IInv
  <1>10. Put(Object(doc, x, "Chunk", row))
    BY <1>1, <1>7, <1>8, <1>9 DEF TransmissionChunk, getParentObject
  <1>11. s # NoRow => chunks[row] = s
    BY <1>6, <1>7, <1>8, StreamOfTypes
  <1>12. ASSUME NEW n, n.is = "open", n.of = "Chunk", n.row = row
         PROVE  Right(NameOf(x), s, n)
    <2>1. s # NoRow => StreamOf(n) = s
      BY <1>11, <1>12, StreamOfTypes
    <2> QED  BY <1>9, <1>12, <2>1, TableRows DEF Right
  <1>13. Shows(x, t, "Chunk", row)
    BY <1>2, <1>3, <1>4, <1>7, <1>9, <1>12 DEF Shows, Entities
  <1> QED  BY <1>10, <1>13, ShowsInv

LEMMA TranscriptionTransmissionInv ==
  ASSUME IInv, NEW x \in DOMAIN node, node[x].is = "waiting",
         TranscriptionTransmission(x)
  PROVE  IInv'
  <1>1. PICK t : t = node
    OBVIOUS
  <1>2. PICK p : p = t[Parent(x)]
    OBVIOUS
  <1>4. Answering(x, t) /\ Asked(x, "Transcription", "transmission")
    BY <1>1, QueryAnswers DEF TranscriptionTransmission, getParentObject
  <1>5. Knows(x, t, "Transcription", "transmission", p)
    BY <1>2, <1>4, AskedKnows
  <1>6. Source(t, x) = NoRow
    BY <1>5, KnowsEntity DEF Entities
  <1>7. p.row \in DOMAIN transcriptions /\ t[x].row = p.row
        /\ t[x].of = "Transmission"
    BY <1>5, KnowsEntity, TableRows, TranscriptionTable DEF Entities, Knows, Field
  <1>8. PICK row : row = transcriptions[p.row]
    OBVIOUS
  <1>9. row \in DOMAIN transmissions /\ row \in Nat /\ row # NoRow
    BY <1>7, <1>8, SavedRows DEF IInv
  <1>10. Put(Object(doc, x, "Transmission", row))
    BY <1>1, <1>7, <1>8, <1>9 DEF TranscriptionTransmission, getParentObject
  <1>11. Shows(x, t, "Transmission", row)
    BY <1>4, <1>6, <1>7, <1>9, TableRows DEF Shows, Entities, Right
  <1> QED  BY <1>10, <1>11, ShowsInv

(* The transcription with the transmission's own id *)
LEMMA TransmissionTranscriptionInv ==
  ASSUME IInv, NEW x \in DOMAIN node, node[x].is = "waiting",
         TransmissionTranscription(x)
  PROVE  IInv'
  <1>1. PICK t : t = node
    OBVIOUS
  <1>2. PICK p : p = t[Parent(x)]
    OBVIOUS
  <1>3. Answering(x, t) /\ Asked(x, "Transmission", "transcription")
    BY <1>1, QueryAnswers DEF TransmissionTranscription
  <1>4. Knows(x, t, "Transmission", "transcription", p)
    BY <1>2, <1>3, AskedKnows
  <1>5. t[x].row = p.row /\ t[x].of = "Transcription"
        /\ Fields[t[Parent(x)].of][NameOf(x)].nullable
        /\ p = t[Parent(x)]
    BY <1>4, TransmissionTable DEF Knows, Field
  <1>6. PICK row : row = p.row
    OBVIOUS
  <1>7. CASE row \in DOMAIN transcriptions
    <2>1. Put(Object(doc, x, "Transcription", row))
      BY <1>1, <1>5, <1>6, <1>7 DEF TransmissionTranscription, TranscriptionOf
    <2>2. row \in Nat /\ row # NoRow
      BY <1>7, TableRows
    <2>3. Shows(x, t, "Transcription", row)
      BY <1>3, <1>5, <1>6, <1>7, <2>2, TableRows DEF Shows, Entities, Right
    <2> QED  BY <2>1, <2>3, ShowsInv
  <1>8. CASE row \notin DOMAIN transcriptions
    <2>1. Put(Nothing(x))
      BY <1>1, <1>5, <1>6, <1>8 DEF TransmissionTranscription, TranscriptionOf
    <2> QED  BY <1>3, <1>5, <2>1, PutNothing
  <1> QED  BY <1>7, <1>8

(* The new stream is there when the answer is made. *)
LEMMA RegisterStreamInv ==
  ASSUME IInv, NEW x \in DOMAIN node, node[x].is = "waiting", RegisterStream(x)
  PROVE  IInv'
  <1>1. PICK t : t = node
    OBVIOUS
  <1>2. PICK p : p = t[Parent(x)]
    OBVIOUS
  <1>3. Asked(x, "Mutation", "registerStream") /\ AddStream
    BY DEF RegisterStream
  <1>4. Answering(x, t)
    BY <1>1, <1>3, AddStreamGrows DEF Answering, IInv
  <1>5. Knows(x, t, "Mutation", "registerStream", p)
    BY <1>2, <1>3, <1>4, AskedKnows
  <1>6. Source(t, x) = NoRow
    BY <1>5, KnowsTop DEF Operations
  <1>7. t[x].of = "Stream"
    BY <1>5, MutationTable DEF Knows, Field
  <1>8. PICK row : row = Len(streams) + 1
    OBVIOUS
  <1>9. row \in Nat /\ row # NoRow /\ row \in DOMAIN streams'
    <2>1. streams \in Seq(BOOLEAN) /\ FALSE \in BOOLEAN
      BY DEF IInv, Saved
    <2>2. DOMAIN Append(streams, FALSE) = DOMAIN streams \cup {Len(streams) + 1}
      BY <2>1, AppendTable
    <2>3. streams' = Append(streams, FALSE)
      BY <1>3 DEF AddStream
    <2> QED  BY <1>8, <2>1, <2>2, <2>3 DEF NoRow
  <1>10. PICK n : n = Node("open", "Stream", row)
    OBVIOUS
  <1>11. n.is = "open" /\ n.of = "Stream" /\ n.row = row
    BY <1>9, <1>10, OpenNode DEF Entities
  <1>12. Right(NameOf(x), Source(t, x), n)'
    BY <1>6, <1>9, <1>11 DEF Right, Table
  <1>13. Put(Object(doc, x, "Stream", row))
    BY <1>8 DEF RegisterStream
  <1> QED  BY <1>4, <1>7, <1>9, <1>10, <1>12, <1>13, PutObject DEF Entities

(* The one object without a row that is there although nothing was removed *)
(* before                                                                  *)
LEMMA RemoveStreamInv ==
  ASSUME IInv, NEW x \in DOMAIN node, node[x].is = "waiting", RemoveStream(x)
  PROVE  IInv'
  <1>1. PICK t : t = node
    OBVIOUS
  <1>2. PICK p : p = t[Parent(x)]
    OBVIOUS
  <1>3. Asked(x, "Mutation", "removeStream") /\ DeleteStream(doc.about.id)
        /\ Put(Object(doc, x, "Stream", NoRow))
    BY DEF RemoveStream
  <1>4. Answering(x, t)
    BY <1>1, <1>3, DeleteStreamGrows DEF Answering, IInv
  <1>5. Knows(x, t, "Mutation", "removeStream", p)
    BY <1>2, <1>3, <1>4, AskedKnows
  <1>6. Source(t, x) = NoRow /\ NameOf(x) = "removeStream"
    BY <1>5, KnowsTop DEF Operations, Knows
  <1>7. t[x].of = "Stream" /\ NoRow \in Nat
    BY <1>5, MutationTable DEF Knows, Field, NoRow
  <1>8. PICK n : n = Node("open", "Stream", NoRow)
    OBVIOUS
  <1>9. n.is = "open" /\ n.of = "Stream" /\ n.row = NoRow
    BY <1>7, <1>8, OpenNode DEF Entities
  <1>10. Right(NameOf(x), Source(t, x), n)'
    BY <1>6, <1>9 DEF Right
  <1> QED  BY <1>3, <1>4, <1>7, <1>8, <1>10, PutObject DEF Entities

(* A refusal is at the top of the document, or counts as a fault. *)
LEMMA RefusalsInv ==
  ASSUME IInv, NEW x \in DOMAIN node, node[x].is = "waiting",
         WrongID(x) \/ NameInUse(x) \/ ResolverFails(x)
  PROVE  IInv'
  <1>1. PICK t : t = node
    OBVIOUS
  <1>2. PICK p : p = t[Parent(x)]
    OBVIOUS
  <1>3. Refuse(x) /\ Answering(x, t)
    BY <1>1, QueryAnswers DEF WrongID, NameInUse, ResolverFails, Refuse
  <1>4. faults \in 0 .. MaxFaults /\ MaxFaults \in Nat
    BY ExecutionAssumption DEF IInv
  <1>5. CASE WrongID(x)
    <2>1. faults' = faults /\ Parent(x) = Root
      BY <1>5 DEF WrongID
    <2> QED  BY <1>3, <1>4, <2>1, RefuseInv
  <1>6. CASE NameInUse(x)
    <2>1. faults' = faults /\ Asked(x, "Mutation", "registerStream")
      BY <1>6 DEF NameInUse
    <2>2. Knows(x, t, "Mutation", "registerStream", p)
      BY <1>2, <1>3, <2>1, AskedKnows
    <2>3. Parent(x) = Root
      BY <2>2, KnowsTop DEF Operations
    <2> QED  BY <1>3, <1>4, <2>1, <2>3, RefuseInv
  <1>7. CASE ResolverFails(x)
    <2>1. faults' = faults + 1 /\ faults < MaxFaults
      BY <1>7 DEF ResolverFails
    <2>2. faults' \in 0 .. MaxFaults /\ faults' # 0
      BY <1>4, <2>1
    <2> QED  BY <1>3, <2>2, RefuseInv
  <1> QED  BY <1>5, <1>6, <1>7

(* Every resolver *)
LEMMA ResolverInv ==
  ASSUME IInv, NEW x \in DOMAIN node, Resolver(x)
  PROVE  IInv'
  <1>1. node[x].is = "waiting"
    BY DEF Resolver
  <1>2. CASE GetStreams(x)
    BY <1>1, <1>2, GetStreamsInv
  <1>3. CASE GetStreamByID(x) \/ GetChunkByID(x) \/ GetTransmissionByID(x)
    BY <1>1, <1>3, GetInv
  <1>4. CASE StreamChunks(x) \/ StreamTransmissions(x) \/ ChunkTransmissions(x)
    BY <1>1, <1>4, PagesInv
  <1>5. CASE DownloadURL(x)
    BY <1>1, <1>5, DownloadURLInv
  <1>6. CASE ChunkStream(x)
    BY <1>1, <1>6, ChunkStreamInv
  <1>7. CASE TransmissionChunk(x)
    BY <1>1, <1>7, TransmissionChunkInv
  <1>8. CASE TranscriptionTransmission(x)
    BY <1>1, <1>8, TranscriptionTransmissionInv
  <1>9. CASE TransmissionTranscription(x)
    BY <1>1, <1>9, TransmissionTranscriptionInv
  <1>10. CASE RegisterStream(x)
    BY <1>1, <1>10, RegisterStreamInv
  <1>11. CASE RemoveStream(x)
    BY <1>1, <1>11, RemoveStreamInv
  <1>12. CASE WrongID(x) \/ NameInUse(x) \/ ResolverFails(x)
    BY <1>1, <1>12, RefusalsInv
  <1> QED
    BY <1>2, <1>3, <1>4, <1>5, <1>6, <1>7, <1>8, <1>9, <1>10, <1>11, <1>12
       DEF Resolver

-----------------------------------------------------------------------------
(* Objects and lists *)

(* An object is written only when all below it is through.  It becomes     *)
(* null exactly if something that the schema requires is null, which       *)
(* explains it; written, it has all that is required.                      *)
LEMMA DispatchedInv ==
  ASSUME IInv, NEW x \in Ready, Dispatched(x)
  PROVE  IInv'
  <1>1. PICK t : t = node
    OBVIOUS
  <1>2. PICK is : is = IF IsInvalid(x) THEN "null" ELSE "done"
    OBVIOUS
  <1>3. PICK u : u = [t EXCEPT ![x].is = is]
    OBVIOUS
  <1>4. /\ Tree(t) /\ AllRight(t) /\ Kept(t) /\ Explained(t, nils \cup errors)
        /\ x \in DOMAIN t /\ t[x].is = "open" /\ x \in Position
        /\ Tree(node) /\ Saved
    BY <1>1 DEF IInv, Ready, Tree
  <1>5. /\ node' = u /\ doc' = doc /\ errors' = errors /\ nils' = nils
        /\ faults' = faults /\ UNCHANGED dbVars
    BY <1>1, <1>2, <1>3 DEF Dispatched
  <1>6. Children(x) = {y \in DOMAIN t \ {Root} : Parent(y) = x}
    BY <1>1, <1>4, ChildrenAre
  <1>7. \A y \in DOMAIN t \ {Root} : Parent(y) = x => Closed(t[y].is)
    BY <1>1, <1>6 DEF Ready, Complete, Answered, Closed
  <1>8. is \in {"done", "null"}
    BY <1>2
  <1>9. /\ DOMAIN u = DOMAIN t
        /\ u[x].is = is /\ u[x].of = t[x].of /\ u[x].row = t[x].row
        /\ \A y \in DOMAIN t \ {x} : u[y] = t[y]
        /\ Tree(u)
    <2>1. Written(u, t, x, is)
      BY <1>3, <1>4, <1>7, <1>8 DEF Written
    <2> QED  BY ONLY <2>1, CloseTree
  <1>10. \A y \in DOMAIN t : u[y].of = t[y].of /\ u[y].row = t[y].row
    BY <1>9
  <1>11. \A y \in DOMAIN t \ {Root} :
           /\ Parent(y) \in DOMAIN t
           /\ Fits(y, t[y], t[Parent(y)])
           /\ Closed(t[Parent(y)].is) => Closed(t[y].is)
    BY <1>4 DEF Tree
  <1>12. Grown
    BY <1>4, <1>5, SameGrows
  <1>13. ASSUME NEW y \in DOMAIN t PROVE NodeRight(u, y)'
    <2>1. CASE ~Entity(t[y])
      <3>1. ~Entity(u[y])
        BY <1>4, <1>8, <1>9, <2>1 DEF Entity
      <3> QED  BY <3>1 DEF NodeRight, Entity
    <2>2. CASE Entity(t[y])
      <3>1. y # Root /\ y \in Position
        BY <1>4, <2>2 DEF Tree, Entity, Entities, Operations
      <3>2. PICK s : s = Source(t, y)
        OBVIOUS
      <3>3. PICK n : n = t[y]
        OBVIOUS
      <3>4. PICK m : m = u[y]
        OBVIOUS
      <3>5. Right(NameOf(y), s, n) /\ n.of \in Entities
        BY <1>4, <2>2, <3>2, <3>3 DEF AllRight, NodeRight, Entity
      <3>6. s \in DOMAIN streams \cup {NoRow}
        BY <1>4, <3>2, SourceSaved
      <3>7. Right(NameOf(y), s, n)'
        BY <1>4, <1>12, <3>5, <3>6, RightStays
      <3>8. m.of = n.of /\ m.row = n.row
            /\ (m.is \in {"open", "done"} => n.is \in {"open", "done"})
        BY <1>4, <1>9, <1>10, <3>3, <3>4
      <3>9. Right(NameOf(y), s, m)'
        BY <3>7, <3>8 DEF Right, Table, StreamOf
      <3>10. Source(u, y) = Source(t, y)
        BY <1>4, <1>9, <1>10, <3>1, SourceKept
      <3> QED  BY <3>2, <3>4, <3>9, <3>10 DEF NodeRight
    <2> QED  BY <2>1, <2>2
  <1>14. x # Root => Parent(x) # x
    <2>1. x # Root => Len(x.path) = Len(Parent(x).path) + 1
                      /\ Len(Parent(x).path) \in Nat
      BY <1>4, PositionUnder DEF Under
    <2> QED  BY <2>1
  <1>15. IsInvalid(x) <=>
           \E y \in DOMAIN t \ {Root} :
             /\ Parent(y) = x /\ t[y].is = "null"
             /\ t[x].of \in DOMAIN Lists \/ NameOf(y) \in Counts[t[x].of]
    BY <1>1, <1>6 DEF IsInvalid
  <1>16. ASSUME NEW y \in DOMAIN t \ {Root}, Parent(y) = x
         PROVE  \/ t[x].of \in DOMAIN Lists
                \/ /\ t[x].of \in DOMAIN Fields
                   /\ IF t[x].of = "Subscription" THEN Counts[t[x].of] = {}
                      ELSE Counts[t[x].of] = NonNull[t[x].of]
    BY <1>11, <1>16, CountsRequired DEF Fits
  <1>17. Kept(u)
    <2> SUFFICES ASSUME NEW y \in DOMAIN u \ {Root},
                        u[Parent(y)].is = "done",
                        u[Parent(y)].of # "Subscription",
                        Needs(u[Parent(y)].of, NameOf(y))
                 PROVE  u[y].is # "null"
      BY DEF Kept
    <2>1. CASE Parent(y) = x
      <3>1. ~IsInvalid(x) /\ y # x
        BY <1>2, <1>9, <1>14, <2>1
      <3>2. t[x].of \in DOMAIN Lists \/ NameOf(y) \in Counts[t[x].of]
        BY <1>9, <1>16, <2>1 DEF Needs
      <3> QED  BY <1>9, <1>15, <2>1, <3>1, <3>2
    <2>2. CASE Parent(y) # x
      <3>1. t[Parent(y)] = u[Parent(y)] /\ y \in DOMAIN t
        BY <1>9, <1>11, <2>2
      <3>2. y # x
        BY <1>4, <1>9, <1>11, <3>1 DEF Closed
      <3> QED  BY <1>4, <1>9, <3>1, <3>2 DEF Kept
    <2> QED  BY <2>1, <2>2
  <1>18. Explained(u, nils \cup errors)
    <2> SUFFICES ASSUME NEW z \in DOMAIN u, u[z].is = "null",
                        z \notin nils \cup errors
                 PROVE  \E y \in DOMAIN u \ {Root} :
                          /\ Parent(y) = z /\ Needs(u[z].of, NameOf(y))
                          /\ u[y].is = "null"
      BY DEF Explained
    <2>1. CASE z = x
      <3>1. IsInvalid(x)
        BY <1>2, <1>9, <2>1
      <3>2. PICK y \in DOMAIN t \ {Root} :
              /\ Parent(y) = x /\ t[y].is = "null"
              /\ t[x].of \in DOMAIN Lists \/ NameOf(y) \in Counts[t[x].of]
        BY <1>15, <3>1
      <3>3. Needs(t[x].of, NameOf(y))
        BY <1>16, <3>2 DEF Needs
      <3> QED  BY <1>4, <1>9, <2>1, <3>2, <3>3
    <2>2. CASE z # x
      <3>1. PICK y \in DOMAIN t \ {Root} :
              /\ Parent(y) = z /\ Needs(t[z].of, NameOf(y)) /\ t[y].is = "null"
        BY <1>4, <1>9, <2>2 DEF Explained
      <3> QED  BY <1>4, <1>9, <2>2, <3>1
    <2> QED  BY <2>1, <2>2
  <1>19. AllRight(u)'
    BY <1>9, <1>13 DEF AllRight
  <1>20. /\ Saved' /\ doc' \in Docs
         /\ errors' \cup nils' \subseteq DOMAIN u
         /\ faults' \in 0 .. MaxFaults
         /\ Active' = DOMAIN streams' /\ faults' = 0 =>
              \A y \in errors' : AtTop(y)
    BY <1>1, <1>5, <1>9, <1>12 DEF IInv, Grown
  <1> QED  BY <1>5, <1>9, <1>17, <1>18, <1>19, <1>20 DEF IInv

-----------------------------------------------------------------------------
(* A new execution *)

(* An answer that is nothing but a part at the root has the right shape. *)
LEMMA GraftTree ==
  ASSUME NEW u, Graft(u, Root), u[Root].of \in Operations
  PROVE  Tree(u)
  <1>1. Root \in DOMAIN u /\ u[Root].is # "waiting"
        /\ \A y \in DOMAIN u : y \in Position /\ u[y] \in Nodes
    BY DEF Graft
  <1>2. \A a \in Position : ~Above(a, Root)
    <2> SUFFICES ASSUME NEW a \in Position, Above(a, Root) PROVE FALSE
      OBVIOUS
    <2>1. Len(a.path) < Len(Root.path) /\ Len(a.path) \in Nat
      BY RootPosition, AboveLen
    <2>2. Len(Root.path) = 0
      BY DEF Root
    <2> QED  BY <2>1, <2>2
  <1>3. ASSUME NEW y \in DOMAIN u \ {Root}
        PROVE  /\ Parent(y) \in DOMAIN u
               /\ u[Parent(y)].is # "waiting"
               /\ Fits(y, u[y], u[Parent(y)])
               /\ u[y].is = "waiting" => u[y].row = u[Parent(y)].row
               /\ Closed(u[Parent(y)].is) => Closed(u[y].is)
               /\ \A a \in Position :
                    Above(a, y) => a \in DOMAIN u /\ u[a].is # "waiting"
    <2>1. /\ Parent(y) \in DOMAIN u
          /\ u[Parent(y)].is = "open"
          /\ Fits(y, u[y], u[Parent(y)])
          /\ u[y].is = "waiting" => u[y].row = u[Parent(y)].row
      BY <1>3 DEF Graft
    <2>2. \A a \in Position :
            Above(a, y) =>
              Above(a, Root) \/ (a \in DOMAIN u /\ u[a].is # "waiting")
      BY <1>3 DEF Graft
    <2> QED  BY <1>2, <2>1, <2>2 DEF Closed
  <1>4. \A y \in DOMAIN u, a \in Position :
          Above(a, y) => a \in DOMAIN u /\ u[a].is # "waiting"
    BY <1>2, <1>3
  <1> QED  BY <1>1, <1>3, <1>4 DEF Tree

(* An answer in which nothing is null or written yet *)
LEMMA FreshInv ==
  ASSUME IInv, UNCHANGED dbVars, doc' \in Docs, errors' = {}, nils' = {},
         faults' = 0, NEW u, node' = u, Graft(u, Root),
         u[Root].of \in Operations,
         \A y \in DOMAIN u : u[y].is # "null" /\ NodeRight(u, y)'
  PROVE  IInv'
  <1>1. Grown /\ MaxFaults \in Nat
    BY SameGrows, ExecutionAssumption DEF IInv
  <1>2. Tree(u)
    BY GraftTree
  <1>3. Kept(u) /\ Explained(u, {})
    BY DEF Kept, Explained
  <1>4. AllRight(u)' /\ Saved'
    BY <1>1 DEF AllRight, Grown
  <1> QED  BY <1>1, <1>2, <1>3, <1>4 DEF IInv

(* A query or a mutation starts with all of its fields waiting. *)
LEMMA QueryInv ==
  ASSUME IInv, NEW d \in Docs, Exec(d), d.op # "Subscription"
  PROVE  IInv'
  <1>1. d.op \in Operations
    BY ExecutionAssumption DEF Operations
  <1>2. PICK u : u = Object(d, Root, d.op, NoRow)
    OBVIOUS
  <1>3. /\ node' = u /\ doc' = d /\ errors' = {} /\ nils' = {} /\ faults' = 0
        /\ UNCHANGED dbVars
    BY <1>2 DEF Exec
  <1>4. NoRow \in Nat /\ d.op \in Types /\ d.op \notin Entities
    BY <1>1, TypeNames DEF NoRow, Types, Operations, Entities
  <1>5. /\ Graft(u, Root)
        /\ u[Root] = Node("open", d.op, NoRow)
        /\ \A y \in DOMAIN u \ {Root} :
             u[y].is # "waiting" => d.op \in Entities /\ u[y].of = Scalar
    BY <1>1, <1>2, <1>4, RootPosition, ObjectGraft
  <1>6. u[Root].is = "open" /\ u[Root].of = d.op
    BY <1>4, <1>5, NewNode
  <1>7. ASSUME NEW y \in DOMAIN u PROVE u[y].is # "null" /\ NodeRight(u, y)'
    <2>1. ~Entity(u[y]) /\ u[y].is # "null"
      BY <1>4, <1>5, <1>6 DEF Entity
    <2> QED  BY <2>1 DEF NodeRight, Entity
  <1> QED  BY <1>1, <1>3, <1>5, <1>6, <1>7, FreshInv

(* The message of a subscription is about a row that is there. *)
LEMMA SubscribedRows ==
  ASSUME IInv, NEW d, NEW f \in DOMAIN Fields["Subscription"],
         NEW row \in Subscribed(d, f), NEW type,
         type = Fields["Subscription"][f].of
  PROVE  /\ type \in Entities /\ row \in Table(type) /\ row \in Nat /\ row # NoRow
         /\ f # "transcription"
  <1>1. \/ f = "chunks" /\ type = "Chunk" /\ row \in DOMAIN chunks
        \/ f = "allTransmissions" /\ type = "Transmission"
             /\ row \in DOMAIN transmissions
        \/ f = "transmissions" /\ type = "Transmission"
             /\ row \in DOMAIN transmissions
        \/ f = "allTranscriptions" /\ type = "Transcription"
             /\ row \in DOMAIN transcriptions
    BY SubscriptionTable DEF Subscribed, Field
  <1> QED  BY <1>1, TableRows DEF Entities

(* The message of a subscription starts with the object of the row. *)
LEMMA SubscriptionInv ==
  ASSUME IInv, NEW d \in Docs, Exec(d), d.op = "Subscription"
  PROVE  IInv'
  <1> DEFINE f == d.top[1]
             x == Child(Root, f)
  <1>1. f \in DOMAIN Fields["Subscription"]
    BY ExecutionAssumption
  <1>2. PICK type : type = Fields["Subscription"][f].of
    OBVIOUS
  <1>3. PICK row \in Subscribed(d, f) :
          node' = Only(Root, Node("open", "Subscription", NoRow))
                    ++ Object(d, x, type, row)
    BY <1>2 DEF Exec
  <1>4. /\ doc' = d /\ errors' = {} /\ nils' = {} /\ faults' = 0
        /\ UNCHANGED dbVars
    BY DEF Exec
  <1>5. /\ type \in Entities /\ row \in Table(type) /\ row \in Nat /\ row # NoRow
        /\ f # "transcription"
    BY <1>1, <1>2, SubscribedRows
  <1>6. f \in Names /\ f # "item"
    BY <1>1, FieldsTyped, TypeNames DEF Operations
  <1>7. Under(x, Root, f, Root.at)
    BY <1>6, RootPosition, ChildPosition
  <1> HIDE DEF f, x
  <1>8. x \in Position /\ NameOf(x) = f /\ Parent(x) = Root /\ x # Root
    <2>1. /\ x \in Position /\ NameOf(x) = f /\ Parent(x) = Root
          /\ Len(x.path) = Len(Root.path) + 1
      BY <1>7 DEF Under
    <2>2. Len(Root.path) = 0
      BY DEF Root
    <2> QED  BY <2>1, <2>2
  <1>9. PICK obj : obj = Object(d, x, type, row)
    OBVIOUS
  <1>10. PICK top : top = Node("open", "Subscription", NoRow)
    OBVIOUS
  <1>11. PICK u : u = Only(Root, top) ++ obj
    OBVIOUS
  <1>12. node' = u
    BY <1>3, <1>9, <1>10, <1>11
  <1>13. /\ Graft(obj, x)
         /\ obj[x] = Node("open", type, row)
         /\ \A y \in DOMAIN obj \ {x} :
              /\ obj[y].is \in {"waiting", "done", "null"}
              /\ obj[y].is # "waiting" => obj[y].of = Scalar
              /\ obj[y].is = "null" => row = NoRow
    BY <1>5, <1>8, <1>9, ObjectGraft
  <1>14. /\ top \in Nodes /\ top.is = "open" /\ top.of = "Subscription"
    <2>1. "Subscription" \in Types /\ NoRow \in Nat
      BY TypeNames DEF Types, Operations, NoRow
    <2> QED  BY <1>10, <2>1, NewNode
  <1>15. obj[x].is = "open" /\ obj[x].of = type /\ obj[x].row = row
    BY <1>5, <1>13, OpenNode
  <1>16. Root \notin DOMAIN obj
    BY <1>8, <1>13 DEF Graft
  <1>17. /\ DOMAIN u = {Root} \cup DOMAIN obj
         /\ u[Root] = top
         /\ \A y \in DOMAIN obj : u[y] = obj[y]
    BY <1>11, <1>16 DEF ++, Only
  <1>18. PICK kid : kid = [i \in {1} |-> x]
    OBVIOUS
  <1>19. PICK part : part = [i \in {1} |-> obj]
    OBVIOUS
  <1>20. Fits(x, u[x], u[Root])
    <2>1. x \in DOMAIN obj
      BY <1>13 DEF Graft
    <2> QED  BY <1>1, <1>2, <1>6, <1>8, <1>14, <1>15, <1>17, <2>1, TypeNames
             DEF Fits, Operations
  <1>21. Assembled(u, Root, {1}, kid, part)
    BY <1>8, <1>13, <1>14, <1>17, <1>18, <1>19, <1>20 DEF Assembled
  <1>22. Graft(u, Root)
    BY <1>21, RootPosition, GraftOver
  <1>23. u[Root].of \in Operations
    BY <1>14, <1>17 DEF Operations
  <1>24. Tree(u)
    BY <1>22, <1>23, GraftTree
  <1>25. NodeRight(u, x)'
    <2>1. x \in DOMAIN u /\ u[x] = obj[x]
      BY <1>13, <1>17 DEF Graft
    <2>2. Source(u, Root) = NoRow
      BY <1>24, SourceRoot
    <2>3. Source(u, x) = NoRow
      BY <1>5, <1>8, <1>14, <1>17, <1>24, <2>1, <2>2, SourceStep
    <2>4. row \in Table(type)'
      BY <1>4, <1>5 DEF Table, dbVars
    <2>5. Right(f, NoRow, obj[x])'
      BY <1>5, <1>15, <2>4 DEF Right
    <2> QED  BY <1>8, <1>17, <2>1, <2>3, <2>5 DEF NodeRight
  <1>26. ASSUME NEW y \in DOMAIN u
         PROVE  u[y].is # "null" /\ NodeRight(u, y)'
    <2>1. CASE y = Root
      <3>1. ~Entity(u[y]) /\ u[y].is # "null"
        BY <1>14, <1>17, <2>1 DEF Entity, Entities
      <3> QED  BY <3>1 DEF NodeRight, Entity
    <2>2. CASE y = x
      BY <1>15, <1>16, <1>17, <1>25, <1>26, <2>2, <1>8
    <2>3. CASE y \in DOMAIN obj \ {x}
      <3>1. ~Entity(u[y]) /\ u[y].is # "null"
        BY <1>5, <1>13, <1>17, <2>3 DEF Entity, Entities, Scalar
      <3> QED  BY <3>1 DEF NodeRight, Entity
    <2> QED  BY <1>17, <2>1, <2>2, <2>3
  <1> QED  BY <1>4, <1>12, <1>22, <1>23, <1>26, FreshInv

-----------------------------------------------------------------------------
(* The tables change, the answer does not. *)
LEMMA TablesInv ==
  ASSUME IInv, Grown, UNCHANGED execVars
  PROVE  IInv'
  <1>1. PICK t : t = node
    OBVIOUS
  <1>2. /\ node' = t /\ doc' = doc /\ errors' = errors /\ nils' = nils
        /\ faults' = faults
    BY <1>1 DEF execVars
  <1>3. /\ Tree(t) /\ AllRight(t) /\ Kept(t) /\ Explained(t, nils \cup errors)
        /\ Saved /\ Saved'
    BY <1>1 DEF IInv, Grown
  <1>4. ASSUME NEW y \in DOMAIN t PROVE NodeRight(t, y)'
    BY <1>3, NodeStays
  <1>5. AllRight(t)'
    BY <1>4 DEF AllRight
  <1>6. Active' = DOMAIN streams' /\ faults' = 0 => \A y \in errors' : AtTop(y)
    BY <1>2 DEF IInv, Grown
  <1> QED  BY <1>1, <1>2, <1>3, <1>5, <1>6 DEF IInv

LEMMA OthersInv == ASSUME IInv, Others PROVE IInv'
  <1>1. Grown
    BY AddStreamGrows, DeleteStreamGrows, SaveGrows DEF Others, IInv
  <1>2. UNCHANGED execVars
    BY DEF Others, SaveChunk, SaveTransmission, SaveTranscription
  <1> QED  BY <1>1, <1>2, TablesInv

(* The initial states *)
LEMMA InitInv == Init => IInv
  <1> SUFFICES ASSUME Init PROVE IInv
    OBVIOUS
  <1>1. /\ streams = << >> /\ chunks = << >> /\ transmissions = << >>
        /\ transcriptions = << >> /\ doc \in Docs
        /\ node = << >> /\ errors = {} /\ nils = {} /\ faults = 0
    BY DEF Init
  <1>2. /\ \A S : << >> \in Seq(S)
        /\ DOMAIN << >> = {}
    OBVIOUS
  <1>3. Saved
    BY <1>1, <1>2 DEF Saved
  <1>4. /\ Tree(node) /\ AllRight(node) /\ Kept(node) /\ Explained(node, {})
    BY <1>1, <1>2 DEF Tree, AllRight, Kept, Explained
  <1>5. MaxFaults \in Nat
    BY ExecutionAssumption
  <1> QED  BY <1>1, <1>3, <1>4, <1>5 DEF IInv

(* Every step *)
LEMMA StepInv == ASSUME IInv, [Next]_vars PROVE IInv'
  <1>1. CASE Executor
    BY <1>1, DispatchedInv, ResolverInv DEF Executor
  <1>2. CASE Others
    BY <1>2, OthersInv
  <1>3. ASSUME NEW d \in Docs, Exec(d) PROVE IInv'
    BY <1>3, QueryInv, SubscriptionInv DEF Exec
  <1>4. CASE UNCHANGED vars
    BY <1>4, SameGrows, TablesInv DEF vars, IInv
  <1> QED  BY <1>1, <1>2, <1>3, <1>4 DEF Next

LEMMA Invariant == Spec => []IInv
  BY InitInv, StepInv, PTL DEF Spec

-----------------------------------------------------------------------------
(* The properties *)

(* The properties speak of Children and Required, the invariant of Parent  *)
(* and Needs.                                                              *)
LEMMA ChildFacts ==
  ASSUME Tree(node), NEW x \in DOMAIN node, NEW y
  PROVE  /\ y \in Children(x) <=> y \in DOMAIN node \ {Root} /\ Parent(y) = x
         /\ Required(x, y) <=> Needs(node[x].of, NameOf(y))
  <1>1. x \in Position
    BY DEF Tree
  <1>2. Children(x) = {z \in DOMAIN node \ {Root} : Parent(z) = x}
    BY <1>1, ChildrenAre
  <1> QED  BY <1>2 DEF Required, Needs

(* Each property follows from the invariant. *)
LEMMA TypeOKHolds == IInv => TypeOK
  <1> SUFFICES ASSUME IInv PROVE TypeOK
    OBVIOUS
  <1>1. /\ Saved /\ Tree(node) /\ doc \in Docs /\ errors \cup nils \subseteq DOMAIN node
        /\ faults \in 0 .. MaxFaults
    BY DEF IInv
  <1>2. \A x \in DOMAIN node :
          /\ node[x].is \in {"waiting", "open", "done", "null"}
          /\ node[x].of \in {Scalar} \cup DOMAIN Lists \cup DOMAIN Fields
          /\ x # Root => Parent(x) \in DOMAIN node
    BY <1>1 DEF Tree, Nodes, Types
  <1> QED  BY <1>1, <1>2 DEF TypeOK, Saved

LEMMA SchemaKeptHolds == IInv => SchemaKept
  <1> SUFFICES ASSUME IInv, NEW x \in DOMAIN node, node[x].is = "done",
                      node[x].of # "Subscription",
                      NEW y \in Children(x), Required(x, y)
               PROVE  node[y].is # "null"
    BY DEF SchemaKept
  <1>1. Tree(node) /\ Kept(node)
    BY DEF IInv
  <1>2. y \in DOMAIN node \ {Root} /\ Parent(y) = x
        /\ Needs(node[x].of, NameOf(y))
    BY <1>1, ChildFacts
  <1> QED  BY <1>1, <1>2 DEF Kept

LEMMA NullsExplainedHolds == IInv => NullsExplained
  <1> SUFFICES ASSUME IInv, NEW x \in DOMAIN node, node[x].is = "null",
                      x \notin nils \cup errors
               PROVE  \E y \in Children(x) : Required(x, y) /\ node[y].is = "null"
    BY DEF NullsExplained
  <1>1. Tree(node) /\ Explained(node, nils \cup errors)
    BY DEF IInv
  <1>2. PICK y \in DOMAIN node \ {Root} :
          /\ Parent(y) = x /\ Needs(node[x].of, NameOf(y)) /\ node[y].is = "null"
    BY <1>1 DEF Explained
  <1> QED  BY <1>1, <1>2, ChildFacts

LEMMA NoErrorHolds == IInv => NoErrorWithoutCause
  BY DEF IInv, NoErrorWithoutCause, AtTop

(* What an entity that is shown has at its place *)
LEMMA ShownRight ==
  ASSUME IInv, NEW x \in DOMAIN node, Shown(x), node[x].of \in Entities
  PROVE  Right(NameOf(x), Source(node, x), node[x])
  BY DEF IInv, AllRight, NodeRight, Entity, Shown

LEMMA BelongsHolds == IInv => BelongsToStream
  <1> SUFFICES ASSUME IInv, NEW x \in DOMAIN node,
                      Shown(x), node[x].of \in {"Stream", "Chunk", "Transmission"},
                      NEW around, around = {y \in DOMAIN node : Encloses(y, x)},
                      around # {},
                      NEW s, s = node[Innermost(around)].row, s # NoRow
               PROVE  IF node[x].row = NoRow THEN s \notin Active
                      ELSE StreamOf(node[x]) = s
    BY DEF BelongsToStream
  <1>1. Around(node, x) = around
    BY AroundIsEnclosing
  <1>2. Source(node, x) = s
    BY <1>1 DEF Source
  <1>3. node[x].of \in Entities /\ node[x].of # "Transcription"
    BY DEF Entities
  <1>4. Right(NameOf(x), s, node[x])
    BY <1>2, <1>3, ShownRight
  <1> QED  BY <1>3, <1>4 DEF Right, Shown

(* Every variable has its type: all rows belong to rows that were saved,   *)
(* and every node of the answer has a type of the schema and its parent    *)
(* above it.                                                               *)
THEOREM TypeCorrect == Spec => []TypeOK
  BY Invariant, TypeOKHolds, PTL

(* Whatever document is executed, however deep: no object is answered with *)
(* a null where schema.graphql has a "!", and no list with a null in it,   *)
(* so that fields.Dispatch and the checks on graphql.Null in               *)
(* server.generated.go do what the schema says.                            *)
THEOREM KeepsSchema == Spec => []SchemaKept
  BY Invariant, SchemaKeptHolds, PTL

(* Every null of an answer is one that a resolver gave because there was   *)
(* nothing, or has an error at its position, or stands for an object in    *)
(* which something required is null.                                       *)
THEOREM ExplainsNulls == Spec => []NullsExplained
  BY Invariant, NullsExplainedHolds, PTL

(* As long as no stream is removed and no resolver fails, an execution has *)
(* errors only about the id at the top of its document, or below a         *)
(* removeStream: the resolvers ask the database one by one, but what was   *)
(* there for one of them is there for the next ones.                       *)
THEOREM ErrsWithCause == Spec => []NoErrorWithoutCause
  BY Invariant, NoErrorHolds, PTL

(* Whatever is saved or removed between the queries of an execution, what  *)
(* is found on the way down from a stream, and on the way up again,        *)
(* belongs to that stream, or is that stream, removed and empty: the       *)
(* resolvers' joins and look-ups agree with each other.  Two parts of an   *)
(* answer are left out, in which the resolvers show rows of other streams: *)
(* what is below a stream that came back empty, and below a transcription. *)
THEOREM StaysInStream == Spec => []BelongsToStream
  BY Invariant, BelongsHolds, PTL
=============================================================================
