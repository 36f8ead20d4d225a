--------------------------- MODULE PayloadsProofs ---------------------------
(***************************************************************************)
(* What the functions of Payloads do to bodies of every shape: the normal  *)
(* form, the preview, the verification button, the conversion of classic   *)
(* messages and the validation.  All of them are, or are equal to, the     *)
(* functions Mapped and Gathered of SequenceFacts, level by level of a     *)
(* component, so that one induction over sequences, done there, serves     *)
(* them all.                                                               *)
(***************************************************************************)
EXTENDS MessageCommands, SequenceFacts

-----------------------------------------------------------------------------
(* Components and their parts.                                             *)

LEMMA Nesting ==
    /\ Leaves \subseteq InnerComponents /\ InnerComponents \subseteq Components
    /\ Seq(Leaves) \subseteq Seq(InnerComponents)
    /\ Seq(InnerComponents) \subseteq Seq(Components)
    /\ Seq(Leaves) \subseteq Seq(Components)
  <1>1. Seq({}) \subseteq Seq(Leaves)
    BY LargerSeq
  <1>2. Leaves \subseteq InnerComponents
    BY <1>1 DEF Leaves, InnerComponents, Shape
  <1>3. Seq(Leaves) \subseteq Seq(InnerComponents)
    BY <1>2, LargerSeq
  <1>4. InnerComponents \subseteq Components
    BY <1>3 DEF InnerComponents, Components, Shape
  <1>5. Seq(InnerComponents) \subseteq Seq(Components)
    BY <1>4, LargerSeq
  <1>6. QED
    BY <1>2, <1>3, <1>4, <1>5

\* The parts of a component are components of the next depth.
LEMMA PartTypes ==
    /\ \A c \in Components : c.children \in Seq(InnerComponents) /\ c.accessory \in Seq(InnerComponents)
    /\ \A c \in InnerComponents : c.children \in Seq(Leaves) /\ c.accessory \in Seq(Leaves)
    /\ \A c \in Leaves : c.children = <<>> /\ c.accessory = <<>>
  <1>1. \A c \in Components : c.children \in Seq(InnerComponents) /\ c.accessory \in Seq(InnerComponents)
    BY DEF Components, Shape
  <1>2. \A c \in InnerComponents : c.children \in Seq(Leaves) /\ c.accessory \in Seq(Leaves)
    BY DEF InnerComponents, Shape
  <1>3. \A c \in Leaves : c.children \in Seq({}) /\ c.accessory \in Seq({})
    BY DEF Leaves, Shape
  <1>4. QED
    BY <1>1, <1>2, <1>3, NoElements

InnerParts == [x \in InnerComponents |-> <<x>> \o x.children \o x.accessory]

ComponentParts == [c \in Components |-> Parts(c)]

LEMMA InnerPartsMap == IsMap(InnerParts, InnerComponents, Seq(Components))
  <1>1. ASSUME NEW x \in InnerComponents
        PROVE  <<x>> \o x.children \o x.accessory \in Seq(Components)
    <2>1. x.children \in Seq(Components) /\ x.accessory \in Seq(Components) /\ x \in Components
      BY PartTypes, Nesting
    <2>2. <<x>> \in Seq(Components)
      BY <2>1
    <2>3. <<x>> \o x.children \in Seq(Components)
      BY <2>1, <2>2, ConcatProperties
    <2>4. QED
      BY <2>1, <2>3, ConcatProperties
  <1>2. QED
    BY <1>1 DEF InnerParts, IsMap

LEMMA PartsAre ==
    ASSUME NEW c \in Components
    PROVE  /\ Parts(c) = <<c>> \o Gathered(InnerParts, c.children) \o c.accessory
           /\ Gathered(InnerParts, c.children) \in Seq(Components)
           /\ Parts(c) \in Seq(Components)
  <1>1. c.children \in Seq(InnerComponents) /\ c.accessory \in Seq(Components)
    BY PartTypes, Nesting
  <1>2. DOMAIN c.children = 1..Len(c.children)
    BY <1>1, Domains
  <1>3. \A i \in 1..Len(c.children) : c.children[i] \in InnerComponents
    BY <1>1, ElementOfSeq
  <1>4. [i \in DOMAIN c.children |-> <<c.children[i]>> \o c.children[i].children \o c.children[i].accessory]
            = Mapped(InnerParts, c.children)
    BY <1>2, <1>3 DEF Mapped, InnerParts
  <1>5. Parts(c) = <<c>> \o Gathered(InnerParts, c.children) \o c.accessory
    BY <1>4 DEF Parts, Gathered
  <1>6. Gathered(InnerParts, c.children) \in Seq(Components)
    BY <1>1, InnerPartsMap, GatheredType
  <1>7. <<c>> \o Gathered(InnerParts, c.children) \in Seq(Components)
    BY <1>6, ConcatProperties
  <1>8. Parts(c) \in Seq(Components)
    BY <1>1, <1>5, <1>7, ConcatProperties
  <1>9. QED
    BY <1>5, <1>6, <1>8

LEMMA ComponentPartsMap == IsMap(ComponentParts, Components, Seq(Components))
  BY PartsAre DEF ComponentParts, IsMap

LEMMA AllPartsAre ==
    ASSUME NEW components \in Seq(Components)
    PROVE  /\ AllParts(components) = Gathered(ComponentParts, components)
           /\ AllParts(components) \in Seq(Components)
  <1>1. DOMAIN components = 1..Len(components)
    BY Domains
  <1>2. \A i \in 1..Len(components) : components[i] \in Components
    BY ElementOfSeq
  <1>3. [i \in DOMAIN components |-> Parts(components[i])] = Mapped(ComponentParts, components)
    BY <1>1, <1>2 DEF Mapped, ComponentParts
  <1>4. AllParts(components) = Gathered(ComponentParts, components)
    BY <1>3 DEF AllParts, Gathered
  <1>5. QED
    BY <1>4, ComponentPartsMap, GatheredType

-----------------------------------------------------------------------------
(* What a function W gives for the parts of a component, in reading order.  *)

ReadInner(W) ==
    [x \in InnerComponents |-> W[x] \o Gathered(W, x.children) \o Gathered(W, x.accessory)]

ReadWhole(W) ==
    [c \in Components |->
        W[c] \o Gathered(ReadInner(W), c.children) \o Gathered(W, c.accessory)]

Read(W, components) == Gathered(W, AllParts(components))

LEMMA NarrowMap ==
    ASSUME NEW S, NEW T, NEW U, NEW W, IsMap(W, T, U), S \subseteq T
    PROVE  /\ IsMap([x \in S |-> W[x]], S, U)
           /\ \A s \in Seq(S) : s \in Seq(T)
  BY LargerSeq DEF IsMap

LEMMA ReadInnerIs ==
    ASSUME NEW X, NEW W, IsMap(W, Components, Seq(X)), NEW x \in InnerComponents
    PROVE  /\ Gathered(W, InnerParts[x]) = ReadInner(W)[x]
           /\ ReadInner(W)[x] \in Seq(X)
  <1>1. PICK a \in Seq(Components), b \in Seq(Components), d \in Seq(Components) :
            a = <<x>> /\ b = x.children /\ d = x.accessory
    <2>1. x.children \in Seq(Components) /\ x.accessory \in Seq(Components) /\ x \in Components
      BY PartTypes, Nesting
    <2>2. <<x>> \in Seq(Components)
      BY <2>1
    <2>3. QED
      BY <2>1, <2>2
  <1>2. PICK ab \in Seq(Components) : ab = a \o b
    BY ConcatProperties
  <1>3. Gathered(W, ab \o d) = Gathered(W, ab) \o Gathered(W, d)
    <2>1. Gathers(W, Components)
      BY GatheredOfTwo
    <2>2. QED
      BY <2>1 DEF Gathers
  <1>4. Gathered(W, a \o b) = Gathered(W, a) \o Gathered(W, b)
    <2>1. Gathers(W, Components)
      BY GatheredOfTwo
    <2>2. QED
      BY <2>1 DEF Gathers
  <1>5. Gathered(W, a) = W[x]
    <2>1. x \in Components
      BY Nesting
    <2>2. Gathered(W, <<x>>) = W[x]
      BY <2>1, GatheredOne
    <2>3. QED
      BY <1>1, <2>2
  <1>6. InnerParts[x] = ab \o d
    BY <1>1, <1>2 DEF InnerParts
  <1>7. ReadInner(W)[x] = Gathered(W, a) \o Gathered(W, b) \o Gathered(W, d)
    BY <1>1, <1>5 DEF ReadInner
  <1>8. Gathered(W, InnerParts[x]) = ReadInner(W)[x]
    BY <1>2, <1>3, <1>4, <1>6, <1>7
  <1>9. ab \o d \in Seq(Components)
    BY ConcatProperties
  <1>10. Gathered(W, InnerParts[x]) \in Seq(X)
    BY <1>6, <1>9, GatheredType
  <1>11. QED
    BY <1>8, <1>10

LEMMA ReadInnerMap ==
    ASSUME NEW X, NEW W, IsMap(W, Components, Seq(X))
    PROVE  /\ IsMap(ReadInner(W), InnerComponents, Seq(X))
           /\ Composes(ReadInner(W), W, InnerParts, InnerComponents)
  <1>1. \A x \in InnerComponents : /\ Gathered(W, InnerParts[x]) = ReadInner(W)[x]
                                   /\ ReadInner(W)[x] \in Seq(X)
    BY ReadInnerIs
  <1>2. ReadInner(W) = [x \in InnerComponents |-> ReadInner(W)[x]]
    BY DEF ReadInner
  <1>3. QED
    BY <1>1, <1>2 DEF IsMap, Composes

LEMMA ReadWholeIs ==
    ASSUME NEW X, NEW W, IsMap(W, Components, Seq(X)), NEW c \in Components
    PROVE  /\ Gathered(W, Parts(c)) = ReadWhole(W)[c]
           /\ ReadWhole(W)[c] \in Seq(X)
  <1>1. PICK a \in Seq(Components), b \in Seq(Components), d \in Seq(Components) :
            a = <<c>> /\ b = Gathered(InnerParts, c.children) /\ d = c.accessory
    <2>1. c.accessory \in Seq(Components) /\ Gathered(InnerParts, c.children) \in Seq(Components)
      BY PartTypes, Nesting, PartsAre
    <2>2. <<c>> \in Seq(Components)
      OBVIOUS
    <2>3. QED
      BY <2>1, <2>2
  <1>2. PICK ab \in Seq(Components) : ab = a \o b
    BY ConcatProperties
  <1>3. Gathered(W, ab \o d) = Gathered(W, ab) \o Gathered(W, d)
    <2>1. Gathers(W, Components)
      BY GatheredOfTwo
    <2>2. QED
      BY <2>1 DEF Gathers
  <1>4. Gathered(W, a \o b) = Gathered(W, a) \o Gathered(W, b)
    <2>1. Gathers(W, Components)
      BY GatheredOfTwo
    <2>2. QED
      BY <2>1 DEF Gathers
  <1>5. Gathered(W, a) = W[c]
    BY <1>1, GatheredOne
  <1>6. Gathered(W, b) = Gathered(ReadInner(W), c.children)
    <2>1. PICK s \in Seq(InnerComponents) : s = c.children
      BY PartTypes
    <2>2. Gathered(W, Gathered(InnerParts, s)) = Gathered(ReadInner(W), s)
      <3>1. /\ IsMap(InnerParts, InnerComponents, Seq(Components))
            /\ IsMap(ReadInner(W), InnerComponents, Seq(X))
            /\ Composes(ReadInner(W), W, InnerParts, InnerComponents)
        BY InnerPartsMap, ReadInnerMap
      <3>2. QED
        BY <3>1, GatheredOfGathered
    <2>3. QED
      BY <1>1, <2>1, <2>2
  <1>7. Parts(c) = ab \o d
    BY <1>1, <1>2, PartsAre
  <1>8. ReadWhole(W)[c] = Gathered(W, a) \o Gathered(W, b) \o Gathered(W, d)
    BY <1>1, <1>5, <1>6 DEF ReadWhole
  <1>9. Gathered(W, Parts(c)) = ReadWhole(W)[c]
    BY <1>2, <1>3, <1>4, <1>7, <1>8
  <1>10. ab \o d \in Seq(Components)
    BY ConcatProperties
  <1>11. Gathered(W, Parts(c)) \in Seq(X)
    BY <1>7, <1>10, GatheredType
  <1>12. QED
    BY <1>9, <1>11

LEMMA ReadWholeMap ==
    ASSUME NEW X, NEW W, IsMap(W, Components, Seq(X))
    PROVE  /\ IsMap(ReadWhole(W), Components, Seq(X))
           /\ Composes(ReadWhole(W), W, ComponentParts, Components)
  <1>1. \A c \in Components : /\ Gathered(W, Parts(c)) = ReadWhole(W)[c]
                              /\ ReadWhole(W)[c] \in Seq(X)
    BY ReadWholeIs
  <1>2. ReadWhole(W) = [c \in Components |-> ReadWhole(W)[c]]
    BY DEF ReadWhole
  <1>3. QED
    BY <1>1, <1>2 DEF IsMap, Composes, ComponentParts

\* To read components is to read each of them.
LEMMA ReadIs ==
    ASSUME NEW X, NEW W, IsMap(W, Components, Seq(X)), NEW components \in Seq(Components)
    PROVE  /\ Read(W, components) = Gathered(ReadWhole(W), components)
           /\ Read(W, components) \in Seq(X)
  <1>1. /\ IsMap(ComponentParts, Components, Seq(Components))
        /\ IsMap(ReadWhole(W), Components, Seq(X))
        /\ Composes(ReadWhole(W), W, ComponentParts, Components)
    BY ComponentPartsMap, ReadWholeMap
  <1>2. Gathered(W, Gathered(ComponentParts, components)) = Gathered(ReadWhole(W), components)
    BY <1>1, GatheredOfGathered
  <1>3. Gathered(ReadWhole(W), components) \in Seq(X)
    BY <1>1, GatheredType
  <1>4. QED
    BY <1>2, <1>3, AllPartsAre DEF Read

-----------------------------------------------------------------------------
(* A change F of components, below a component, then of the component.      *)

Over(x, children, accessory) == [x EXCEPT !.children = children, !.accessory = accessory]

\* F changes what Discord adds and what is disabled, nothing else.
IsPaint(F) ==
    /\ F = [c \in Components |-> F[c]]
    /\ \A c \in Components :
        /\ F[c] \in Components
        /\ F[c].type = c.type /\ F[c].text = c.text /\ F[c].id = c.id /\ F[c].url = c.url
        /\ F[c].children = c.children /\ F[c].accessory = c.accessory
        /\ F[c].disabled => c.disabled \/ c.type = "button"

PaintInner(F) ==
    [x \in InnerComponents |-> F[Over(x, Mapped(F, x.children), Mapped(F, x.accessory))]]

PaintWhole(F) ==
    [c \in Components |->
        F[Over(c, Mapped(PaintInner(F), c.children), Mapped(PaintInner(F), c.accessory))]]

LEMMA OverInner ==
    ASSUME NEW x \in InnerComponents, NEW children \in Seq(Leaves),
           NEW accessory \in Seq(Leaves), Len(accessory) <= 1
    PROVE  LET y == Over(x, children, accessory) IN
           /\ y \in InnerComponents
           /\ y.type = x.type /\ y.text = x.text /\ y.id = x.id /\ y.url = x.url
           /\ y.extra = x.extra /\ y.disabled = x.disabled
           /\ y.children = children /\ y.accessory = accessory
  BY DEF Over, InnerComponents, Shape

LEMMA OverWhole ==
    ASSUME NEW x \in Components, NEW children \in Seq(InnerComponents),
           NEW accessory \in Seq(InnerComponents), Len(accessory) <= 1
    PROVE  LET y == Over(x, children, accessory) IN
           /\ y \in Components
           /\ y.type = x.type /\ y.text = x.text /\ y.id = x.id /\ y.url = x.url
           /\ y.extra = x.extra /\ y.disabled = x.disabled
           /\ y.children = children /\ y.accessory = accessory
  BY DEF Over, Components, Shape

\* Components are the same when their fields are.
LEMMA SameComponents ==
    ASSUME NEW x \in Components, NEW y \in Components,
           x.type = y.type, x.text = y.text, x.id = y.id, x.url = y.url,
           x.extra = y.extra, x.disabled = y.disabled,
           x.children = y.children, x.accessory = y.accessory
    PROVE  x = y
  BY SMTT(20) DEF Components, Shape

LEMMA FewAccessories ==
    \A c \in Components : Len(c.accessory) <= 1 /\ Len(c.accessory) \in Nat
  BY LenProperties DEF Components, Shape

\* What has children of one depth is of the next.
LEMMA Depth ==
    ASSUME NEW c \in Components
    PROVE  /\ c.children \in Seq(Leaves) /\ c.accessory \in Seq(Leaves) => c \in InnerComponents
           /\ c.children = <<>> /\ c.accessory = <<>> => c \in Leaves
  <1>1. c.children \in Seq(Leaves) /\ c.accessory \in Seq(Leaves) => c \in InnerComponents
    BY FewAccessories DEF Components, InnerComponents, Shape
  <1>2. <<>> \in Seq({}) /\ Len(<<>>) = 0
    BY EmptySeq
  <1>3. c.children = <<>> /\ c.accessory = <<>> => c \in Leaves
    BY <1>2 DEF Components, Leaves, Shape
  <1>4. QED
    BY <1>1, <1>3

\* It keeps the depth.
LEMMA PaintDepth ==
    ASSUME NEW F, IsPaint(F)
    PROVE  /\ IsMap(F, Components, Components)
           /\ \A x \in InnerComponents : F[x] \in InnerComponents
           /\ \A x \in Leaves : F[x] \in Leaves
  <1>1. IsMap(F, Components, Components)
    BY DEF IsPaint, IsMap
  <1>2. ASSUME NEW x \in InnerComponents
        PROVE  F[x] \in InnerComponents
    <2>1. x \in Components /\ x.children \in Seq(Leaves) /\ x.accessory \in Seq(Leaves)
      BY Nesting, PartTypes
    <2>2. F[x] \in Components /\ F[x].children = x.children /\ F[x].accessory = x.accessory
      BY <2>1 DEF IsPaint
    <2>3. QED
      BY <2>1, <2>2, Depth
  <1>3. ASSUME NEW x \in Leaves
        PROVE  F[x] \in Leaves
    <2>1. x \in Components /\ x.children = <<>> /\ x.accessory = <<>>
      BY Nesting, PartTypes
    <2>2. F[x] \in Components /\ F[x].children = x.children /\ F[x].accessory = x.accessory
      BY <2>1 DEF IsPaint
    <2>3. QED
      BY <2>1, <2>2, Depth
  <1>4. QED
    BY <1>1, <1>2, <1>3

\* Each as it is with what is below it painted.
LEMMA PaintInnerIs ==
    ASSUME NEW F, IsPaint(F), NEW x \in InnerComponents
    PROVE  LET y == PaintInner(F)[x] IN
           /\ y \in InnerComponents
           /\ y.type = x.type /\ y.text = x.text /\ y.id = x.id /\ y.url = x.url
           /\ y.disabled => x.disabled \/ x.type = "button"
           /\ y.children = Mapped(F, x.children) /\ y.accessory = Mapped(F, x.accessory)
           /\ y.children \in Seq(Leaves) /\ y.accessory \in Seq(Leaves)
           /\ Len(y.accessory) <= 1
           /\ y = F[Over(x, Mapped(F, x.children), Mapped(F, x.accessory))]
           /\ Over(x, Mapped(F, x.children), Mapped(F, x.accessory)) \in InnerComponents
  <1>1. x.children \in Seq(Leaves) /\ x.accessory \in Seq(Leaves) /\ Len(x.accessory) <= 1
    BY PartTypes, Nesting, FewAccessories
  <1>2. IsMap([z \in Leaves |-> F[z]], Leaves, Leaves) /\ SameOn(F, [z \in Leaves |-> F[z]], Leaves)
    BY PaintDepth DEF IsMap, SameOn
  <1>3. PICK G : G = [z \in Leaves |-> F[z]]
    OBVIOUS
  <1>4. /\ Mapped(F, x.children) \in Seq(Leaves)
        /\ Mapped(F, x.accessory) \in Seq(Leaves) /\ Len(Mapped(F, x.accessory)) <= 1
    <2>1. PICK s \in Seq(Leaves), t \in Seq(Leaves) : s = x.children /\ t = x.accessory
      BY <1>1
    <2>2. IsMap(G, Leaves, Leaves) /\ SameOn(F, G, Leaves)
      BY <1>2, <1>3
    <2>3. Mapped(F, s) = Mapped(G, s) /\ Mapped(F, t) = Mapped(G, t)
      BY <2>2, MappedSame
    <2>4. Mapped(G, s) \in Seq(Leaves) /\ Mapped(G, t) \in Seq(Leaves) /\ Len(Mapped(G, t)) = Len(t)
      BY <2>2, MappedType
    <2>5. QED
      BY <1>1, <2>1, <2>3, <2>4
  <1> DEFINE o == Over(x, Mapped(F, x.children), Mapped(F, x.accessory))
  <1>5. /\ o \in InnerComponents
        /\ o.type = x.type /\ o.text = x.text /\ o.id = x.id /\ o.url = x.url
        /\ o.disabled = x.disabled
        /\ o.children = Mapped(F, x.children) /\ o.accessory = Mapped(F, x.accessory)
    BY <1>4, OverInner
  <1> HIDE DEF o
  <1>6. o \in Components
    BY <1>5, Nesting
  <1>7. F[o] \in InnerComponents
    BY <1>5, PaintDepth
  <1>8. /\ F[o].type = o.type /\ F[o].text = o.text /\ F[o].id = o.id /\ F[o].url = o.url
        /\ F[o].children = o.children /\ F[o].accessory = o.accessory
        /\ F[o].disabled => o.disabled \/ o.type = "button"
    BY <1>6 DEF IsPaint
  <1>9. PaintInner(F)[x] = F[o]
    BY DEF PaintInner, o
  <1>10. QED
    BY <1>4, <1>5, <1>7, <1>8, <1>9 DEF o

LEMMA PaintInnerMap ==
    ASSUME NEW F, IsPaint(F)
    PROVE  IsMap(PaintInner(F), InnerComponents, InnerComponents)
  <1>1. \A x \in InnerComponents : PaintInner(F)[x] \in InnerComponents
    BY PaintInnerIs
  <1>2. PaintInner(F) = [x \in InnerComponents |-> PaintInner(F)[x]]
    BY DEF PaintInner
  <1>3. QED
    BY <1>1, <1>2 DEF IsMap

LEMMA PaintWholeIs ==
    ASSUME NEW F, IsPaint(F), NEW x \in Components
    PROVE  LET y == PaintWhole(F)[x] IN
           /\ y \in Components
           /\ y.type = x.type /\ y.text = x.text /\ y.id = x.id /\ y.url = x.url
           /\ y.disabled => x.disabled \/ x.type = "button"
           /\ y.children = Mapped(PaintInner(F), x.children)
           /\ y.accessory = Mapped(PaintInner(F), x.accessory)
           /\ y.children \in Seq(InnerComponents) /\ y.accessory \in Seq(InnerComponents)
           /\ Len(y.accessory) = Len(x.accessory) /\ Len(y.children) = Len(x.children)
           /\ y = F[Over(x, Mapped(PaintInner(F), x.children),
                           Mapped(PaintInner(F), x.accessory))]
           /\ Over(x, Mapped(PaintInner(F), x.children),
                      Mapped(PaintInner(F), x.accessory)) \in Components
  <1>1. /\ x.children \in Seq(InnerComponents) /\ x.accessory \in Seq(InnerComponents)
        /\ Len(x.accessory) <= 1
    BY PartTypes, FewAccessories
  <1>2. PICK G : G = PaintInner(F)
    OBVIOUS
  <1>3. IsMap(G, InnerComponents, InnerComponents)
    BY <1>2, PaintInnerMap
  <1>4. /\ Mapped(G, x.children) \in Seq(InnerComponents)
        /\ Mapped(G, x.accessory) \in Seq(InnerComponents)
        /\ Len(Mapped(G, x.accessory)) = Len(x.accessory)
        /\ Len(Mapped(G, x.children)) = Len(x.children)
    BY <1>1, <1>3, MappedType
  <1> DEFINE o == Over(x, Mapped(G, x.children), Mapped(G, x.accessory))
  <1>5. /\ o \in Components
        /\ o.type = x.type /\ o.text = x.text /\ o.id = x.id /\ o.url = x.url
        /\ o.disabled = x.disabled
        /\ o.children = Mapped(G, x.children) /\ o.accessory = Mapped(G, x.accessory)
    <2>1. Len(Mapped(G, x.accessory)) <= 1
      BY <1>1, <1>4
    <2>2. QED
      BY <1>4, <2>1, OverWhole
  <1> HIDE DEF o
  <1>6. /\ F[o] \in Components
        /\ F[o].type = o.type /\ F[o].text = o.text /\ F[o].id = o.id /\ F[o].url = o.url
        /\ F[o].children = o.children /\ F[o].accessory = o.accessory
        /\ F[o].disabled => o.disabled \/ o.type = "button"
    BY <1>5 DEF IsPaint
  <1>7. PaintWhole(F)[x] = F[o]
    BY <1>2 DEF PaintWhole, o
  <1>8. QED
    BY <1>2, <1>4, <1>5, <1>6, <1>7 DEF o

LEMMA PaintWholeMap ==
    ASSUME NEW F, IsPaint(F)
    PROVE  IsMap(PaintWhole(F), Components, Components)
  <1>1. \A x \in Components : PaintWhole(F)[x] \in Components
    BY PaintWholeIs
  <1>2. PaintWhole(F) = [x \in Components |-> PaintWhole(F)[x]]
    BY DEF PaintWhole
  <1>3. QED
    BY <1>1, <1>2 DEF IsMap

\* Nothing is put over a component that is what it has.
LEMMA OverItself ==
    ASSUME NEW x \in Components
    PROVE  Over(x, x.children, x.accessory) = x
  BY DEF Over, Components, Shape

\* On a component that is less deep they are the same.
LEMMA PaintsAgree ==
    ASSUME NEW F, IsPaint(F)
    PROVE  /\ \A x \in Leaves : PaintInner(F)[x] = F[x]
           /\ \A x \in InnerComponents : PaintWhole(F)[x] = PaintInner(F)[x]
  <1>1. ASSUME NEW x \in Leaves
        PROVE  PaintInner(F)[x] = F[x]
    <2>1. x \in InnerComponents /\ x \in Components /\ x.children = <<>> /\ x.accessory = <<>>
      BY Nesting, PartTypes
    <2>2. Over(x, Mapped(F, x.children), Mapped(F, x.accessory)) = x
      BY <2>1, MappedEmpty, OverItself
    <2>3. QED
      BY <2>1, <2>2 DEF PaintInner
  <1>2. ASSUME NEW x \in InnerComponents
        PROVE  PaintWhole(F)[x] = PaintInner(F)[x]
    <2>1. PICK s \in Seq(Leaves), t \in Seq(Leaves) : s = x.children /\ t = x.accessory
      BY PartTypes
    <2>2. SameOn(PaintInner(F), F, Leaves)
      BY <1>1 DEF SameOn
    <2>3. PICK G : G = PaintInner(F)
      OBVIOUS
    <2>4. Mapped(G, s) = Mapped(F, s) /\ Mapped(G, t) = Mapped(F, t)
      BY <2>2, <2>3, MappedSame
    <2>5. x \in Components
      BY Nesting
    <2>6. QED
      BY <2>1, <2>3, <2>4, <2>5 DEF PaintInner, PaintWhole
  <1>3. QED
    BY <1>1, <1>2

\* The parts of what is painted are the painted parts.
LEMMA PaintedInnerParts ==
    ASSUME NEW F, IsPaint(F), NEW x \in InnerComponents
    PROVE  InnerParts[PaintInner(F)[x]] = Mapped(PaintWhole(F), InnerParts[x])
  <1>1. PICK G : G = PaintWhole(F)
    OBVIOUS
  <1>2. IsMap(G, Components, Components)
    BY <1>1, PaintWholeMap
  <1>3. PICK a \in Seq(Components), b \in Seq(Components), d \in Seq(Components) :
            a = <<x>> /\ b = x.children /\ d = x.accessory
    <2>1. x.children \in Seq(Components) /\ x.accessory \in Seq(Components) /\ x \in Components
      BY PartTypes, Nesting
    <2>2. <<x>> \in Seq(Components)
      BY <2>1
    <2>3. QED
      BY <2>1, <2>2
  <1>4. PICK ab \in Seq(Components) : ab = a \o b
    BY ConcatProperties
  <1>a. Distributes(G, Components)
    BY <1>2, MappedOfTwo
  <1>5. Mapped(G, ab \o d) = Mapped(G, ab) \o Mapped(G, d)
    BY <1>a DEF Distributes
  <1>6. Mapped(G, a \o b) = Mapped(G, a) \o Mapped(G, b)
    BY <1>a DEF Distributes
  <1>7. Mapped(G, a) = <<PaintInner(F)[x]>>
    <2>1. Mapped(G, a) = <<G[x]>>
      BY <1>3, MappedOne
    <2>2. G[x] = PaintInner(F)[x]
      BY <1>1, PaintsAgree
    <2>3. QED
      BY <2>1, <2>2
  <1>8. Mapped(G, b) = Mapped(F, x.children) /\ Mapped(G, d) = Mapped(F, x.accessory)
    <2>1. SameOn(G, F, Leaves)
      BY <1>1, PaintsAgree, Nesting DEF SameOn
    <2>2. b \in Seq(Leaves) /\ d \in Seq(Leaves)
      BY <1>3, PartTypes
    <2>3. Mapped(G, b) = Mapped(F, b) /\ Mapped(G, d) = Mapped(F, d)
      BY <2>1, <2>2, MappedSame
    <2>4. QED
      BY <1>3, <2>3
  <1>9. InnerParts[x] = ab \o d
    BY <1>3, <1>4 DEF InnerParts
  <1>10. /\ PaintInner(F)[x] \in InnerComponents
         /\ PaintInner(F)[x].children = Mapped(F, x.children)
         /\ PaintInner(F)[x].accessory = Mapped(F, x.accessory)
    BY PaintInnerIs
  <1>11. InnerParts[PaintInner(F)[x]]
            = <<PaintInner(F)[x]>> \o Mapped(F, x.children) \o Mapped(F, x.accessory)
    <2> DEFINE y == PaintInner(F)[x]
    <2>1. InnerParts[y] = <<y>> \o y.children \o y.accessory
      BY <1>10 DEF InnerParts
    <2>2. QED
      BY <1>10, <2>1
  <1>12. QED
    BY <1>1, <1>4, <1>5, <1>6, <1>7, <1>8, <1>9, <1>11

LEMMA PaintedParts ==
    ASSUME NEW F, IsPaint(F), NEW c \in Components
    PROVE  Parts(PaintWhole(F)[c]) = Mapped(PaintWhole(F), Parts(c))
  <1>1. PICK G : G = PaintWhole(F)
    OBVIOUS
  <1>2. IsMap(G, Components, Components)
    BY <1>1, PaintWholeMap
  <1>3. PICK I : I = PaintInner(F)
    OBVIOUS
  <1>4. IsMap(I, InnerComponents, InnerComponents)
    BY <1>3, PaintInnerMap
  <1>5. PICK s \in Seq(InnerComponents), t \in Seq(InnerComponents) :
            s = c.children /\ t = c.accessory
    BY PartTypes
  <1> DEFINE Z == [x \in InnerComponents |-> InnerParts[I[x]]]
  <1>6. /\ IsMap(Z, InnerComponents, Seq(Components))
        /\ Follows(Z, InnerParts, I, InnerComponents)
    <2>1. \A x \in InnerComponents : InnerParts[I[x]] \in Seq(Components)
      BY <1>4, InnerPartsMap DEF IsMap
    <2>2. QED
      BY <2>1 DEF IsMap, Follows
  <1>7. Maps(Z, G, InnerParts, InnerComponents)
    <2>1. \A x \in InnerComponents : InnerParts[I[x]] = Mapped(G, InnerParts[x])
      BY <1>1, <1>3, PaintedInnerParts
    <2>2. QED
      BY <2>1 DEF Maps
  <1> HIDE DEF Z
  <1>8. Gathered(InnerParts, Mapped(I, s)) = Gathered(Z, s)
    BY <1>4, <1>6, GatheredOfMapped
  <1>9. Mapped(G, Gathered(InnerParts, s)) = Gathered(Z, s)
    BY <1>2, <1>6, <1>7, InnerPartsMap, MappedOfGathered
  <1>10. Mapped(G, t) = Mapped(I, t)
    <2>1. SameOn(G, I, InnerComponents)
      BY <1>1, <1>3, PaintsAgree DEF SameOn
    <2>2. QED
      BY <2>1, MappedSame
  <1>11. PICK a \in Seq(Components), b \in Seq(Components), d \in Seq(Components) :
            a = <<c>> /\ b = Gathered(InnerParts, s) /\ d = t
    <2>1. t \in Seq(Components) /\ Gathered(InnerParts, s) \in Seq(Components)
      BY <1>5, Nesting, PartsAre
    <2>2. <<c>> \in Seq(Components)
      OBVIOUS
    <2>3. QED
      BY <2>1, <2>2
  <1>12. PICK ab \in Seq(Components) : ab = a \o b
    BY ConcatProperties
  <1>13. Mapped(G, ab \o d) = Mapped(G, ab) \o Mapped(G, d)
    <2>1. Distributes(G, Components)
      BY <1>2, MappedOfTwo
    <2>2. QED
      BY <2>1 DEF Distributes
  <1>14. Mapped(G, a \o b) = Mapped(G, a) \o Mapped(G, b)
    <2>1. Distributes(G, Components)
      BY <1>2, MappedOfTwo
    <2>2. QED
      BY <2>1 DEF Distributes
  <1>15. Mapped(G, a) = <<G[c]>>
    BY <1>11, MappedOne
  <1>16. Parts(c) = ab \o d
    BY <1>5, <1>11, <1>12, PartsAre
  <1>17. /\ G[c] \in Components
         /\ G[c].children = Mapped(I, s) /\ G[c].accessory = Mapped(I, t)
    BY <1>1, <1>3, <1>5, PaintWholeIs
  <1>18. Parts(G[c]) = <<G[c]>> \o Gathered(InnerParts, Mapped(I, s)) \o Mapped(I, t)
    <2>1. PICK y \in Components : y = G[c]
      BY <1>17
    <2>2. Parts(y) = <<y>> \o Gathered(InnerParts, y.children) \o y.accessory
      BY PartsAre
    <2>3. QED
      BY <1>17, <2>1, <2>2
  <1>19. Parts(G[c]) = Mapped(G, Parts(c))
    BY <1>8, <1>9, <1>10, <1>11, <1>12, <1>13, <1>14, <1>15, <1>16, <1>18
  <1>20. QED
    BY <1>1, <1>19

Painted(F, components) == Mapped(PaintWhole(F), components)

LEMMA PaintedAllParts ==
    ASSUME NEW F, IsPaint(F), NEW components \in Seq(Components)
    PROVE  /\ Painted(F, components) \in Seq(Components)
           /\ AllParts(Painted(F, components)) = Painted(F, AllParts(components))
  <1>1. PICK G : G = PaintWhole(F)
    OBVIOUS
  <1>2. IsMap(G, Components, Components)
    BY <1>1, PaintWholeMap
  <1>3. Mapped(G, components) \in Seq(Components)
    BY <1>2, MappedType
  <1> DEFINE Z == [c \in Components |-> ComponentParts[G[c]]]
  <1>4. /\ IsMap(Z, Components, Seq(Components))
        /\ Follows(Z, ComponentParts, G, Components)
    <2>1. \A c \in Components : ComponentParts[G[c]] \in Seq(Components)
      BY <1>2, ComponentPartsMap DEF IsMap
    <2>2. QED
      BY <2>1 DEF IsMap, Follows
  <1>5. Maps(Z, G, ComponentParts, Components)
    <2>1. \A c \in Components : ComponentParts[G[c]] = Mapped(G, ComponentParts[c])
      <3>1. \A c \in Components : Parts(G[c]) = Mapped(G, Parts(c)) /\ G[c] \in Components
        BY <1>1, PaintedParts, PaintWholeIs
      <3>2. QED
        BY <3>1 DEF ComponentParts
    <2>2. QED
      BY <2>1 DEF Maps
  <1> HIDE DEF Z
  <1>6. Gathered(ComponentParts, Mapped(G, components)) = Gathered(Z, components)
    BY <1>2, <1>4, GatheredOfMapped
  <1>7. Mapped(G, Gathered(ComponentParts, components)) = Gathered(Z, components)
    BY <1>2, <1>4, <1>5, ComponentPartsMap, MappedOfGathered
  <1>8. AllParts(Mapped(G, components)) = Gathered(ComponentParts, Mapped(G, components))
    <2>1. PICK s \in Seq(Components) : s = Mapped(G, components)
      BY <1>3
    <2>2. AllParts(s) = Gathered(ComponentParts, s)
      BY AllPartsAre
    <2>3. QED
      BY <2>1, <2>2
  <1>9. AllParts(components) = Gathered(ComponentParts, components)
    BY AllPartsAre
  <1>10. QED
    BY <1>1, <1>3, <1>6, <1>7, <1>8, <1>9 DEF Painted

\* What F makes of the optional fields and of what is disabled is decided by those
\* of the component itself.
IsOwn(F) ==
    \A c, d \in Components :
        c.type = d.type /\ c.extra = d.extra /\ c.disabled = d.disabled
            => F[c].extra = F[d].extra /\ F[c].disabled = F[d].disabled

NormalPaint == [c \in Components |-> NormalPart(c)]

ObservedPaint == [c \in Components |-> ObservedPart(c)]

Dropped(type) == {"id", "flag"} \union (IF type = "thumbnail" THEN {"meta"} ELSE {})

DisabledPaint == [c \in Components |-> Disabled(c)]

LEMMA NormalFields ==
    ASSUME NEW c \in Components
    PROVE  LET y == NormalPaint[c] IN
           /\ y \in Components
           /\ y.type = c.type /\ y.text = c.text /\ y.id = c.id /\ y.url = c.url
           /\ y.children = c.children /\ y.accessory = c.accessory
           /\ y.extra = c.extra \ Dropped(c.type) /\ y.disabled = c.disabled
  <1>1. PICK e : e = c.extra \ Dropped(c.type)
    OBVIOUS
  <1>2. e \in SUBSET Optional
    BY <1>1 DEF Components, Shape
  <1> DEFINE y == [c EXCEPT !.extra = e]
  <1>3. y \in Components
    BY <1>2 DEF Components, Shape
  <1>4. /\ y.type = c.type /\ y.text = c.text /\ y.id = c.id /\ y.url = c.url
        /\ y.children = c.children /\ y.accessory = c.accessory
        /\ y.extra = e /\ y.disabled = c.disabled
    BY DEF Components, Shape
  <1>5. NormalPaint[c] = y
    BY <1>1 DEF NormalPaint, NormalPart, Dropped
  <1> HIDE DEF y
  <1>6. QED
    BY <1>1, <1>3, <1>4, <1>5

LEMMA NormalIsPaint == IsPaint(NormalPaint) /\ IsOwn(NormalPaint)
  <1>1. NormalPaint = [c \in Components |-> NormalPaint[c]]
    BY DEF NormalPaint
  <1>2. IsPaint(NormalPaint)
    BY <1>1, NormalFields DEF IsPaint
  <1>3. IsOwn(NormalPaint)
    BY NormalFields DEF IsOwn
  <1>4. QED
    BY <1>2, <1>3

\* Another set of optional fields.
LEMMA OtherExtra ==
    ASSUME NEW c \in Components, NEW e \in SUBSET Optional
    PROVE  LET y == [c EXCEPT !.extra = e] IN
           /\ y \in Components
           /\ y.type = c.type /\ y.text = c.text /\ y.id = c.id /\ y.url = c.url
           /\ y.children = c.children /\ y.accessory = c.accessory
           /\ y.extra = e /\ y.disabled = c.disabled
  BY DEF Components, Shape

RereadExtra(extra, type, flag) ==
    (extra \ ({"meta"} \union (IF type = "text" THEN {"id"} ELSE {}))) \union flag

AnsweredExtra(extra, type, flag) ==
    extra \union {"id"} \union flag
        \union (IF type \in {"thumbnail", "gallery"} THEN {"meta"} ELSE {})
        \union (IF type = "separator" THEN {"default"} ELSE {})

LEMMA RereadIs ==
    ASSUME NEW c \in Components
    PROVE  LET y == Reread(c) IN
           /\ y \in Components
           /\ y.type = c.type /\ y.text = c.text /\ y.id = c.id /\ y.url = c.url
           /\ y.children = c.children /\ y.accessory = c.accessory
           /\ y.extra = RereadExtra(c.extra, c.type, Flag(c))
           /\ y.disabled = c.disabled /\ Flag(y) = Flag(c)
  <1>1. PICK e : e = RereadExtra(c.extra, c.type, Flag(c))
    OBVIOUS
  <1>2. e \in SUBSET Optional
    <2>1. c.extra \in SUBSET Optional /\ Flag(c) \in SUBSET Optional
      BY DEF Components, Shape, Flag, Optional
    <2>2. QED
      BY <1>1, <2>1 DEF RereadExtra
  <1>3. PICK y \in Components :
            /\ y = [c EXCEPT !.extra = e]
            /\ y.type = c.type /\ y.text = c.text /\ y.id = c.id /\ y.url = c.url
            /\ y.children = c.children /\ y.accessory = c.accessory
            /\ y.extra = e /\ y.disabled = c.disabled
    BY <1>2, OtherExtra
  <1>4. Reread(c) = y
    BY <1>1, <1>3 DEF Reread, RereadExtra
  <1>5. Flag(y) = Flag(c)
    BY <1>3 DEF Flag
  <1>6. QED
    BY <1>1, <1>3, <1>4, <1>5

LEMMA AnsweredIs ==
    ASSUME NEW c \in Components
    PROVE  LET y == Answered(c) IN
           /\ y \in Components
           /\ y.type = c.type /\ y.text = c.text /\ y.id = c.id /\ y.url = c.url
           /\ y.children = c.children /\ y.accessory = c.accessory
           /\ y.extra = AnsweredExtra(c.extra, c.type, Flag(c))
           /\ y.disabled = c.disabled /\ Flag(y) = Flag(c)
  <1>1. PICK e : e = AnsweredExtra(c.extra, c.type, Flag(c))
    OBVIOUS
  <1>2. e \in SUBSET Optional
    <2>1. c.extra \in SUBSET Optional /\ Flag(c) \in SUBSET Optional
      BY DEF Components, Shape, Flag, Optional
    <2>2. {"id", "meta", "default"} \subseteq Optional
      BY DEF Optional
    <2>3. QED
      BY <1>1, <2>1, <2>2 DEF AnsweredExtra
  <1>3. PICK y \in Components :
            /\ y = [c EXCEPT !.extra = e]
            /\ y.type = c.type /\ y.text = c.text /\ y.id = c.id /\ y.url = c.url
            /\ y.children = c.children /\ y.accessory = c.accessory
            /\ y.extra = e /\ y.disabled = c.disabled
    BY <1>2, OtherExtra
  <1>4. Answered(c) = y
    BY <1>1, <1>3 DEF Answered, AnsweredExtra
  <1>5. Flag(y) = Flag(c)
    BY <1>3 DEF Flag
  <1>6. QED
    BY <1>1, <1>3, <1>4, <1>5

\* What has been observed has, in normal form, the optional fields it had that are
\* neither dropped nor metadata, and a separator has all it may have.
LEMMA ObservedFields ==
    ASSUME NEW c \in Components
    PROVE  LET y == ObservedPaint[c] IN
           /\ y \in Components
           /\ y.type = c.type /\ y.text = c.text /\ y.id = c.id /\ y.url = c.url
           /\ y.children = c.children /\ y.accessory = c.accessory
           /\ y.disabled = c.disabled
           /\ y.extra = RereadExtra(AnsweredExtra(RereadExtra(c.extra, c.type, Flag(c)),
                                                  c.type, Flag(c)), c.type, Flag(c))
           /\ y.extra \ Dropped(c.type)
                = (c.extra \ (Dropped(c.type) \union {"meta"})) \union
                      (IF c.type = "separator" THEN {"default"} ELSE {})
  <1>1. PICK a \in Components :
            /\ a = Reread(c)
            /\ a.type = c.type /\ a.text = c.text /\ a.id = c.id /\ a.url = c.url
            /\ a.children = c.children /\ a.accessory = c.accessory
            /\ a.extra = RereadExtra(c.extra, c.type, Flag(c))
            /\ a.disabled = c.disabled /\ Flag(a) = Flag(c)
    BY RereadIs
  <1>2. PICK b \in Components :
            /\ b = Answered(a)
            /\ b.type = c.type /\ b.text = c.text /\ b.id = c.id /\ b.url = c.url
            /\ b.children = c.children /\ b.accessory = c.accessory
            /\ b.extra = AnsweredExtra(a.extra, c.type, Flag(c))
            /\ b.disabled = c.disabled /\ Flag(b) = Flag(c)
    BY <1>1, AnsweredIs
  <1>3. PICK y \in Components :
            /\ y = Reread(b)
            /\ y.type = c.type /\ y.text = c.text /\ y.id = c.id /\ y.url = c.url
            /\ y.children = c.children /\ y.accessory = c.accessory
            /\ y.extra = RereadExtra(b.extra, c.type, Flag(c))
            /\ y.disabled = c.disabled
    BY <1>2, RereadIs
  <1>4. ObservedPaint[c] = y
    BY <1>1, <1>2, <1>3 DEF ObservedPaint, ObservedPart
  <1>5. y.extra \ Dropped(c.type)
            = (c.extra \ (Dropped(c.type) \union {"meta"})) \union
                  (IF c.type = "separator" THEN {"default"} ELSE {})
    <2>1. Flag(c) \subseteq {"flag"}
      BY DEF Flag
    <2>2. PICK f, e, t : f = Flag(c) /\ e = c.extra /\ t = c.type
      OBVIOUS
    <2>3. y.extra = RereadExtra(AnsweredExtra(RereadExtra(e, t, f), t, f), t, f)
      BY <1>1, <1>2, <1>3, <2>2
    <2>4. f \subseteq {"flag"}
      BY <2>1, <2>2
    <2>5. RereadExtra(AnsweredExtra(RereadExtra(e, t, f), t, f), t, f) \ Dropped(t)
            = (e \ (Dropped(t) \union {"meta"})) \union
                  (IF t = "separator" THEN {"default"} ELSE {})
      <3>1. CASE t = "separator"
        BY <2>4, <3>1 DEF RereadExtra, AnsweredExtra, Dropped
      <3>2. CASE t \in {"thumbnail", "gallery"}
        BY <2>4, <3>2 DEF RereadExtra, AnsweredExtra, Dropped
      <3>3. CASE t \notin {"separator", "thumbnail", "gallery"}
        BY <2>4, <3>3 DEF RereadExtra, AnsweredExtra, Dropped
      <3>4. QED
        BY <3>1, <3>2, <3>3
    <2>6. QED
      BY <2>2, <2>3, <2>5
  <1>6. QED
    BY <1>1, <1>2, <1>3, <1>4, <1>5

LEMMA ObservedIsPaint == IsPaint(ObservedPaint) /\ IsOwn(ObservedPaint)
  <1>1. ObservedPaint = [c \in Components |-> ObservedPaint[c]]
    BY DEF ObservedPaint
  <1>2. \A c \in Components :
            /\ ObservedPaint[c] \in Components
            /\ ObservedPaint[c].type = c.type /\ ObservedPaint[c].text = c.text
            /\ ObservedPaint[c].id = c.id /\ ObservedPaint[c].url = c.url
            /\ ObservedPaint[c].children = c.children
            /\ ObservedPaint[c].accessory = c.accessory
            /\ ObservedPaint[c].disabled = c.disabled
    BY ObservedFields
  <1>3. IsPaint(ObservedPaint)
    BY <1>1, <1>2 DEF IsPaint
  <1>4. IsOwn(ObservedPaint)
    <2>1. SUFFICES ASSUME NEW c \in Components, NEW d \in Components,
                          c.type = d.type, c.extra = d.extra, c.disabled = d.disabled
                   PROVE  /\ ObservedPaint[c].extra = ObservedPaint[d].extra
                          /\ ObservedPaint[c].disabled = ObservedPaint[d].disabled
      BY DEF IsOwn
    <2>2. Flag(c) = Flag(d)
      BY <2>1 DEF Flag
    <2>3. QED
      BY <2>1, <2>2, ObservedFields
  <1>5. QED
    BY <1>3, <1>4

LEMMA DisabledFields ==
    ASSUME NEW c \in Components
    PROVE  LET y == DisabledPaint[c] IN
           /\ y \in Components
           /\ y.type = c.type /\ y.text = c.text /\ y.id = c.id /\ y.url = c.url
           /\ y.children = c.children /\ y.accessory = c.accessory
           /\ y.type = "button" => y.disabled
           /\ y.disabled => c.disabled \/ c.type = "button"
  <1> DEFINE y == [c EXCEPT !.disabled = TRUE]
  <1>1. y \in Components
    BY DEF Components, Shape
  <1>2. /\ y.type = c.type /\ y.text = c.text /\ y.id = c.id /\ y.url = c.url
        /\ y.children = c.children /\ y.accessory = c.accessory
    BY DEF Components, Shape
  <1>3. y.disabled
    BY DEF Components, Shape
  <1>4. DisabledPaint[c] = IF c.type = "button" THEN y ELSE c
    BY DEF DisabledPaint, Disabled
  <1> HIDE DEF y
  <1>5. CASE c.type = "button"
    BY <1>1, <1>2, <1>3, <1>4, <1>5
  <1>6. CASE c.type # "button"
    BY <1>4, <1>6
  <1>7. QED
    BY <1>5, <1>6

LEMMA DisabledIsPaint == IsPaint(DisabledPaint)
  <1>1. DisabledPaint = [c \in Components |-> DisabledPaint[c]]
    BY DEF DisabledPaint
  <1>2. QED
    BY <1>1, DisabledFields DEF IsPaint

LEMMA PreviewIsPainted ==
    ASSUME NEW components \in Seq(Components)
    PROVE  Preview(components) = Painted(DisabledPaint, components)
  <1>1. ASSUME NEW x \in InnerComponents
        PROVE  Disabled([x EXCEPT !.children = [i \in DOMAIN x.children |-> Disabled(x.children[i])],
                                  !.accessory = [i \in DOMAIN x.accessory |-> Disabled(x.accessory[i])]])
                   = PaintInner(DisabledPaint)[x]
    <2> DEFINE F == DisabledPaint
    <2>1. /\ x.children \in Seq(Components) /\ x.accessory \in Seq(Components)
      BY PartTypes, Nesting
    <2>2. /\ [i \in DOMAIN x.children |-> Disabled(x.children[i])] = Mapped(F, x.children)
          /\ [i \in DOMAIN x.accessory |-> Disabled(x.accessory[i])] = Mapped(F, x.accessory)
      BY <2>1, Domains, ElementOfSeq DEF Mapped, DisabledPaint
    <2>3. Over(x, Mapped(F, x.children), Mapped(F, x.accessory)) \in Components
      BY DisabledIsPaint, PaintInnerIs, Nesting
    <2>4. PaintInner(F)[x] = Disabled(Over(x, Mapped(F, x.children), Mapped(F, x.accessory)))
      BY <2>3 DEF PaintInner, DisabledPaint
    <2>5. QED
      BY <2>2, <2>4 DEF Over
  <1>2. ASSUME NEW c \in Components
        PROVE  Rebuilt(Disabled, c) = PaintWhole(DisabledPaint)[c]
    <2> DEFINE F == DisabledPaint
               In(x) == Disabled([x EXCEPT !.children = [i \in DOMAIN x.children |-> Disabled(x.children[i])],
                                  !.accessory = [i \in DOMAIN x.accessory |-> Disabled(x.accessory[i])]])
               I == PaintInner(F)
    <2>1. /\ c.children \in Seq(InnerComponents) /\ c.accessory \in Seq(InnerComponents)
      BY PartTypes
    <2>2. \A x \in InnerComponents : In(x) = I[x]
      BY <1>1
    <2>3. Rebuilt(Disabled, c)
             = Disabled([c EXCEPT !.children = [i \in DOMAIN c.children |-> In(c.children[i])],
                                  !.accessory = [i \in DOMAIN c.accessory |-> In(c.accessory[i])]])
      BY DEF Rebuilt
    <2> HIDE DEF In, I
    <2>4. /\ [i \in DOMAIN c.children |-> In(c.children[i])] = Mapped(I, c.children)
          /\ [i \in DOMAIN c.accessory |-> In(c.accessory[i])] = Mapped(I, c.accessory)
      BY <2>1, <2>2, Domains, ElementOfSeq DEF Mapped
    <2>5. Over(c, Mapped(I, c.children), Mapped(I, c.accessory)) \in Components
      BY DisabledIsPaint, PaintWholeIs DEF I
    <2>6. PaintWhole(F)[c] = Disabled(Over(c, Mapped(I, c.children), Mapped(I, c.accessory)))
      BY <2>5 DEF PaintWhole, DisabledPaint, I
    <2>7. QED
      BY <2>3, <2>4, <2>6 DEF Over
  <1>3. \A i \in 1..Len(components) :
            Rebuilt(Disabled, components[i]) = PaintWhole(DisabledPaint)[components[i]]
    BY <1>2, ElementOfSeq
  <1>4. DOMAIN components = 1..Len(components)
    BY Domains
  <1>5. QED
    BY <1>3, <1>4 DEF Preview, Painted, Mapped

LEMMA NormalIsPainted ==
    ASSUME NEW components \in Seq(Components)
    PROVE  Normal(components) = Painted(NormalPaint, components)
  <1>1. ASSUME NEW x \in InnerComponents
        PROVE  NormalPart([x EXCEPT !.children = [i \in DOMAIN x.children |-> NormalPart(x.children[i])],
                                  !.accessory = [i \in DOMAIN x.accessory |-> NormalPart(x.accessory[i])]])
                   = PaintInner(NormalPaint)[x]
    <2> DEFINE F == NormalPaint
    <2>1. /\ x.children \in Seq(Components) /\ x.accessory \in Seq(Components)
      BY PartTypes, Nesting
    <2>2. /\ [i \in DOMAIN x.children |-> NormalPart(x.children[i])] = Mapped(F, x.children)
          /\ [i \in DOMAIN x.accessory |-> NormalPart(x.accessory[i])] = Mapped(F, x.accessory)
      BY <2>1, Domains, ElementOfSeq DEF Mapped, NormalPaint
    <2>3. Over(x, Mapped(F, x.children), Mapped(F, x.accessory)) \in Components
      BY NormalIsPaint, PaintInnerIs, Nesting
    <2>4. PaintInner(F)[x] = NormalPart(Over(x, Mapped(F, x.children), Mapped(F, x.accessory)))
      BY <2>3 DEF PaintInner, NormalPaint
    <2>5. QED
      BY <2>2, <2>4 DEF Over
  <1>2. ASSUME NEW c \in Components
        PROVE  Rebuilt(NormalPart, c) = PaintWhole(NormalPaint)[c]
    <2> DEFINE F == NormalPaint
               In(x) == NormalPart([x EXCEPT !.children = [i \in DOMAIN x.children |-> NormalPart(x.children[i])],
                                  !.accessory = [i \in DOMAIN x.accessory |-> NormalPart(x.accessory[i])]])
               I == PaintInner(F)
    <2>1. /\ c.children \in Seq(InnerComponents) /\ c.accessory \in Seq(InnerComponents)
      BY PartTypes
    <2>2. \A x \in InnerComponents : In(x) = I[x]
      BY <1>1
    <2>3. Rebuilt(NormalPart, c)
             = NormalPart([c EXCEPT !.children = [i \in DOMAIN c.children |-> In(c.children[i])],
                                  !.accessory = [i \in DOMAIN c.accessory |-> In(c.accessory[i])]])
      BY DEF Rebuilt
    <2> HIDE DEF In, I
    <2>4. /\ [i \in DOMAIN c.children |-> In(c.children[i])] = Mapped(I, c.children)
          /\ [i \in DOMAIN c.accessory |-> In(c.accessory[i])] = Mapped(I, c.accessory)
      BY <2>1, <2>2, Domains, ElementOfSeq DEF Mapped
    <2>5. Over(c, Mapped(I, c.children), Mapped(I, c.accessory)) \in Components
      BY NormalIsPaint, PaintWholeIs DEF I
    <2>6. PaintWhole(F)[c] = NormalPart(Over(c, Mapped(I, c.children), Mapped(I, c.accessory)))
      BY <2>5 DEF PaintWhole, NormalPaint, I
    <2>7. QED
      BY <2>3, <2>4, <2>6 DEF Over
  <1>3. \A i \in 1..Len(components) :
            Rebuilt(NormalPart, components[i]) = PaintWhole(NormalPaint)[components[i]]
    BY <1>2, ElementOfSeq
  <1>4. DOMAIN components = 1..Len(components)
    BY Domains
  <1>5. QED
    BY <1>3, <1>4 DEF Normal, Painted, Mapped

LEMMA ObservedIsPainted ==
    ASSUME NEW components \in Seq(Components)
    PROVE  Observed(components) = Painted(ObservedPaint, components)
  <1>1. ASSUME NEW x \in InnerComponents
        PROVE  ObservedPart([x EXCEPT !.children = [i \in DOMAIN x.children |-> ObservedPart(x.children[i])],
                                  !.accessory = [i \in DOMAIN x.accessory |-> ObservedPart(x.accessory[i])]])
                   = PaintInner(ObservedPaint)[x]
    <2> DEFINE F == ObservedPaint
    <2>1. /\ x.children \in Seq(Components) /\ x.accessory \in Seq(Components)
      BY PartTypes, Nesting
    <2>2. /\ [i \in DOMAIN x.children |-> ObservedPart(x.children[i])] = Mapped(F, x.children)
          /\ [i \in DOMAIN x.accessory |-> ObservedPart(x.accessory[i])] = Mapped(F, x.accessory)
      BY <2>1, Domains, ElementOfSeq DEF Mapped, ObservedPaint
    <2>3. Over(x, Mapped(F, x.children), Mapped(F, x.accessory)) \in Components
      BY ObservedIsPaint, PaintInnerIs, Nesting
    <2>4. PaintInner(F)[x] = ObservedPart(Over(x, Mapped(F, x.children), Mapped(F, x.accessory)))
      BY <2>3 DEF PaintInner, ObservedPaint
    <2>5. QED
      BY <2>2, <2>4 DEF Over
  <1>2. ASSUME NEW c \in Components
        PROVE  Rebuilt(ObservedPart, c) = PaintWhole(ObservedPaint)[c]
    <2> DEFINE F == ObservedPaint
               In(x) == ObservedPart([x EXCEPT !.children = [i \in DOMAIN x.children |-> ObservedPart(x.children[i])],
                                  !.accessory = [i \in DOMAIN x.accessory |-> ObservedPart(x.accessory[i])]])
               I == PaintInner(F)
    <2>1. /\ c.children \in Seq(InnerComponents) /\ c.accessory \in Seq(InnerComponents)
      BY PartTypes
    <2>2. \A x \in InnerComponents : In(x) = I[x]
      BY <1>1
    <2>3. Rebuilt(ObservedPart, c)
             = ObservedPart([c EXCEPT !.children = [i \in DOMAIN c.children |-> In(c.children[i])],
                                  !.accessory = [i \in DOMAIN c.accessory |-> In(c.accessory[i])]])
      BY DEF Rebuilt
    <2> HIDE DEF In, I
    <2>4. /\ [i \in DOMAIN c.children |-> In(c.children[i])] = Mapped(I, c.children)
          /\ [i \in DOMAIN c.accessory |-> In(c.accessory[i])] = Mapped(I, c.accessory)
      BY <2>1, <2>2, Domains, ElementOfSeq DEF Mapped
    <2>5. Over(c, Mapped(I, c.children), Mapped(I, c.accessory)) \in Components
      BY ObservedIsPaint, PaintWholeIs DEF I
    <2>6. PaintWhole(F)[c] = ObservedPart(Over(c, Mapped(I, c.children), Mapped(I, c.accessory)))
      BY <2>5 DEF PaintWhole, ObservedPaint, I
    <2>7. QED
      BY <2>3, <2>4, <2>6 DEF Over
  <1>3. \A i \in 1..Len(components) :
            Rebuilt(ObservedPart, components[i]) = PaintWhole(ObservedPaint)[components[i]]
    BY <1>2, ElementOfSeq
  <1>4. DOMAIN components = 1..Len(components)
    BY Domains
  <1>5. QED
    BY <1>3, <1>4 DEF Observed, Painted, Mapped

-----------------------------------------------------------------------------
(* The preview.                                                            *)

ReadText == [c \in Components |-> c.text]

LEMMA ReadTextMap == IsMap(ReadText, Components, Seq(Strings))
  BY DEF ReadText, IsMap, Components, Shape

LEMMA TextOfIs ==
    ASSUME NEW components \in Seq(Components)
    PROVE  /\ TextOf(components) = Read(ReadText, components)
           /\ TextOf(components) \in Seq(Strings)
  <1>1. PICK s \in Seq(Components) : s = AllParts(components)
    BY AllPartsAre
  <1>2. DOMAIN s = 1..Len(s) /\ \A i \in 1..Len(s) : s[i] \in Components
    BY Domains, ElementOfSeq
  <1>3. [i \in DOMAIN s |-> s[i].text] = Mapped(ReadText, s)
    BY <1>2 DEF Mapped, ReadText
  <1>4. TextOf(components) = Gathered(ReadText, s)
    BY <1>1, <1>3 DEF TextOf, Gathered
  <1>5. Gathered(ReadText, s) \in Seq(Strings)
    BY ReadTextMap, GatheredType
  <1>6. QED
    BY <1>1, <1>4, <1>5 DEF Read

\* A reader sees the same of what is painted.
LEMMA PaintedText ==
    ASSUME NEW F, IsPaint(F), NEW components \in Seq(Components)
    PROVE  TextOf(Painted(F, components)) = TextOf(components)
  <1>1. PICK s \in Seq(Components) : s = AllParts(components)
    BY AllPartsAre
  <1>2. PICK G : G = PaintWhole(F)
    OBVIOUS
  <1>3. IsMap(G, Components, Components)
    BY <1>2, PaintWholeMap
  <1>4. Follows(ReadText, ReadText, G, Components)
    <2>1. \A c \in Components : G[c] \in Components /\ G[c].text = c.text
      BY <1>2, PaintWholeIs
    <2>2. QED
      BY <2>1 DEF Follows, ReadText
  <1>5. Gathered(ReadText, Mapped(G, s)) = Gathered(ReadText, s)
    BY <1>3, <1>4, GatheredOfMapped
  <1>6. PICK p \in Seq(Components) :
            p = Painted(F, components) /\ AllParts(p) = Mapped(G, s)
    BY <1>1, <1>2, PaintedAllParts DEF Painted
  <1>7. TextOf(p) = Gathered(ReadText, AllParts(p))
    BY TextOfIs DEF Read
  <1>8. TextOf(components) = Gathered(ReadText, s)
    BY <1>1, TextOfIs DEF Read
  <1>9. QED
    BY <1>5, <1>6, <1>7, <1>8

LEMMA NormalIs ==
    ASSUME NEW components \in Seq(Components)
    PROVE  /\ Normal(components) = Painted(NormalPaint, components)
           /\ Normal(components) \in Seq(Components)
           /\ TextOf(Normal(components)) = TextOf(components)
  <1>1. Normal(components) = Painted(NormalPaint, components)
    BY NormalIsPainted
  <1>2. IsPaint(NormalPaint)
    BY NormalIsPaint
  <1>3. /\ Painted(NormalPaint, components) \in Seq(Components)
        /\ TextOf(Painted(NormalPaint, components)) = TextOf(components)
    BY <1>2, PaintedAllParts, PaintedText
  <1>4. QED
    BY <1>1, <1>3

LEMMA PreviewOfBody ==
    ASSUME NEW components \in Seq(Components)
    PROVE  LET shown == Preview(Normal(components)) IN
           /\ \A i \in DOMAIN AllParts(shown) :
                  AllParts(shown)[i].type = "button" => AllParts(shown)[i].disabled
           /\ TextOf(shown) = TextOf(components)
  <1>1. PICK n \in Seq(Components) : n = Normal(components) /\ TextOf(n) = TextOf(components)
    BY NormalIs
  <1>2. PICK F : F = DisabledPaint
    OBVIOUS
  <1>3. IsPaint(F)
    BY <1>2, DisabledIsPaint
  <1>4. PICK shown \in Seq(Components) : shown = Preview(n) /\ shown = Painted(F, n)
    BY <1>2, <1>3, PreviewIsPainted, PaintedAllParts
  <1>5. TextOf(shown) = TextOf(components)
    BY <1>1, <1>3, <1>4, PaintedText
  <1>6. PICK s \in Seq(Components) : s = AllParts(n) /\ AllParts(shown) = Painted(F, s)
    BY <1>3, <1>4, PaintedAllParts, AllPartsAre
  <1>7. PICK G : G = PaintWhole(F) /\ IsMap(G, Components, Components)
    BY <1>3, PaintWholeMap
  <1>8. /\ Len(Mapped(G, s)) = Len(s) /\ Mapped(G, s) \in Seq(Components)
        /\ \A i \in 1..Len(s) : s[i] \in Components /\ Mapped(G, s)[i] = G[s[i]]
    BY <1>7, MappedType
  <1>9. \A c \in Components : G[c].type = "button" => G[c].disabled
    <2> SUFFICES ASSUME NEW c \in Components, G[c].type = "button"
                 PROVE  G[c].disabled
      OBVIOUS
    <2>1. PICK o \in Components : G[c] = F[o]
      BY <1>3, <1>7, PaintWholeIs
    <2>2. F[o].type = "button" => F[o].disabled
      BY <1>2, DisabledFields
    <2>3. QED
      BY <2>1, <2>2
  <1>10. DOMAIN AllParts(shown) = 1..Len(s)
    BY <1>6, <1>7, <1>8, Domains DEF Painted
  <1>11. \A i \in 1..Len(s) : AllParts(shown)[i] = G[s[i]] /\ s[i] \in Components
    BY <1>6, <1>7, <1>8 DEF Painted
  <1>12. \A i \in DOMAIN AllParts(shown) :
             AllParts(shown)[i].type = "button" => AllParts(shown)[i].disabled
    BY <1>9, <1>10, <1>11
  <1>13. QED
    BY <1>1, <1>4, <1>5, <1>12

-----------------------------------------------------------------------------
(* The normal form.                                                        *)

\* What is painted with F keeps what F makes of the component itself.
LEMMA OwnInner ==
    ASSUME NEW F, IsPaint(F), IsOwn(F), NEW u \in InnerComponents
    PROVE  /\ PaintInner(F)[u].extra = F[u].extra
           /\ PaintInner(F)[u].disabled = F[u].disabled
  <1>1. PICK o \in InnerComponents :
            o = Over(u, Mapped(F, u.children), Mapped(F, u.accessory)) /\ PaintInner(F)[u] = F[o]
    BY PaintInnerIs
  <1>2. o \in Components /\ u \in Components
    BY Nesting
  <1>3. o.type = u.type /\ o.extra = u.extra /\ o.disabled = u.disabled
    BY <1>1 DEF Over, InnerComponents, Shape
  <1>4. QED
    BY <1>1, <1>2, <1>3 DEF IsOwn

LEMMA OwnWhole ==
    ASSUME NEW F, IsPaint(F), IsOwn(F), NEW u \in Components
    PROVE  /\ PaintWhole(F)[u].extra = F[u].extra
           /\ PaintWhole(F)[u].disabled = F[u].disabled
  <1>1. PICK o \in Components :
            /\ o = Over(u, Mapped(PaintInner(F), u.children), Mapped(PaintInner(F), u.accessory))
            /\ PaintWhole(F)[u] = F[o]
    BY PaintWholeIs
  <1>2. o.type = u.type /\ o.extra = u.extra /\ o.disabled = u.disabled
    BY <1>1 DEF Over, Components, Shape
  <1>3. QED
    BY <1>1, <1>2 DEF IsOwn

\* Painting with G, then with F, is painting with H, when it is on each component.
Then(F, G, H) ==
    /\ IsPaint(F) /\ IsPaint(G) /\ IsPaint(H)
    /\ IsOwn(F) /\ IsOwn(G) /\ IsOwn(H)
    /\ \A c \in Components : F[G[c]] = H[c]

LEMMA ThenOwn ==
    ASSUME NEW D, NEW E, NEW H, Then(D, E, H),
           NEW x \in Components, NEW y \in Components,
           y.type = x.type, y.extra = E[x].extra, y.disabled = E[x].disabled
    PROVE  D[y].extra = H[x].extra /\ D[y].disabled = H[x].disabled
  <1>1. PICK m \in Components : m = E[x] /\ m.type = x.type
    BY DEF Then, IsPaint
  <1>2. D[m].extra = D[y].extra /\ D[m].disabled = D[y].disabled
    BY <1>1 DEF Then, IsOwn
  <1>3. D[m] = H[x]
    BY <1>1 DEF Then
  <1>4. QED
    BY <1>2, <1>3

LEMMA ThenInner ==
    ASSUME NEW D, NEW E, NEW H, Then(D, E, H), NEW x \in InnerComponents
    PROVE  PaintInner(D)[PaintInner(E)[x]] = PaintInner(H)[x]
  <1>2. IsPaint(D) /\ IsPaint(E) /\ IsPaint(H) /\ IsOwn(D) /\ IsOwn(E) /\ IsOwn(H)
    BY DEF Then
  <1>3. PICK y \in InnerComponents : y = PaintInner(E)[x]
    BY <1>2, PaintInnerIs
  <1>4. PICK z \in InnerComponents : z = PaintInner(D)[y]
    BY <1>2, PaintInnerIs
  <1>5. PICK w \in InnerComponents : w = PaintInner(H)[x]
    BY <1>2, PaintInnerIs
  <1>6. Follows(H, D, E, Leaves)
    BY Nesting DEF Follows, Then
  <1>7. PICK L : L = [l \in Leaves |-> E[l]] /\ IsMap(L, Leaves, Leaves)
    <2>1. \A l \in Leaves : E[l] \in Leaves
      BY <1>2, PaintDepth
    <2>2. [l \in Leaves |-> E[l]] \in [Leaves -> Leaves]
      BY <2>1
    <2>3. QED
      BY <2>2 DEF IsMap
  <1>8. \A s \in Seq(Leaves) : Mapped(D, Mapped(E, s)) = Mapped(H, s)
    <2> SUFFICES ASSUME NEW s \in Seq(Leaves)
                 PROVE  Mapped(D, Mapped(E, s)) = Mapped(H, s)
      OBVIOUS
    <2>1. SameOn(E, L, Leaves) /\ Follows(H, D, L, Leaves)
      BY <1>6, <1>7 DEF SameOn, Follows
    <2>2. Mapped(E, s) = Mapped(L, s)
      BY <2>1, MappedSame
    <2>3. Mapped(D, Mapped(L, s)) = Mapped(H, s)
      BY <1>7, <2>1, GatheredOfMapped
    <2>4. QED
      BY <2>2, <2>3
  <1>9. /\ x.children \in Seq(Leaves) /\ x.accessory \in Seq(Leaves)
    BY PartTypes
  <1>10. /\ y.type = x.type /\ y.text = x.text /\ y.id = x.id /\ y.url = x.url
         /\ y.children = Mapped(E, x.children) /\ y.accessory = Mapped(E, x.accessory)
    BY <1>2, <1>3, PaintInnerIs
  <1>11. /\ z.type = y.type /\ z.text = y.text /\ z.id = y.id /\ z.url = y.url
         /\ z.children = Mapped(D, y.children) /\ z.accessory = Mapped(D, y.accessory)
    BY <1>2, <1>4, PaintInnerIs
  <1>12. /\ w.type = x.type /\ w.text = x.text /\ w.id = x.id /\ w.url = x.url
         /\ w.children = Mapped(H, x.children) /\ w.accessory = Mapped(H, x.accessory)
    BY <1>2, <1>5, PaintInnerIs
  <1>13. z.children = w.children /\ z.accessory = w.accessory
    BY <1>8, <1>9, <1>10, <1>11, <1>12
  <1>14. z.extra = w.extra /\ z.disabled = w.disabled
    <2>1. x \in Components /\ y \in Components
      BY Nesting
    <2>2. y.extra = E[x].extra /\ y.disabled = E[x].disabled
      BY <1>2, <1>3, OwnInner
    <2>3. z.extra = D[y].extra /\ z.disabled = D[y].disabled
      BY <1>2, <1>4, OwnInner
    <2>4. w.extra = H[x].extra /\ w.disabled = H[x].disabled
      BY <1>2, <1>5, OwnInner
    <2>5. QED
      BY <1>10, <2>1, <2>2, <2>3, <2>4, ThenOwn
  <1>15. z = w
    <2>1. z \in Components /\ w \in Components
      BY Nesting
    <2>2. z.type = w.type /\ z.text = w.text /\ z.id = w.id /\ z.url = w.url
      BY <1>10, <1>11, <1>12
    <2>3. QED
      BY <1>13, <1>14, <2>1, <2>2, SameComponents
  <1>16. QED
    BY <1>3, <1>4, <1>5, <1>15

LEMMA ThenWhole ==
    ASSUME NEW D, NEW E, NEW H, Then(D, E, H), NEW x \in Components
    PROVE  PaintWhole(D)[PaintWhole(E)[x]] = PaintWhole(H)[x]
  <1>2. IsPaint(D) /\ IsPaint(E) /\ IsPaint(H) /\ IsOwn(D) /\ IsOwn(E) /\ IsOwn(H)
    BY DEF Then
  <1>3. PICK y \in Components : y = PaintWhole(E)[x]
    BY <1>2, PaintWholeIs
  <1>4. PICK z \in Components : z = PaintWhole(D)[y]
    BY <1>2, PaintWholeIs
  <1>5. PICK w \in Components : w = PaintWhole(H)[x]
    BY <1>2, PaintWholeIs
  <1>6. PICK ID, IE, IH : ID = PaintInner(D) /\ IE = PaintInner(E) /\ IH = PaintInner(H)
    OBVIOUS
  <1>7. Follows(IH, ID, IE, InnerComponents) /\ IsMap(IE, InnerComponents, InnerComponents)
    <2>1. \A u \in InnerComponents : IH[u] = ID[IE[u]]
      BY <1>6, ThenInner
    <2>2. QED
      BY <1>2, <1>6, <2>1, PaintInnerMap DEF Follows
  <1>8. \A s \in Seq(InnerComponents) : Mapped(ID, Mapped(IE, s)) = Mapped(IH, s)
    BY <1>7, GatheredOfMapped
  <1>9. /\ x.children \in Seq(InnerComponents) /\ x.accessory \in Seq(InnerComponents)
    BY PartTypes
  <1>10. /\ y.type = x.type /\ y.text = x.text /\ y.id = x.id /\ y.url = x.url
         /\ y.children = Mapped(IE, x.children) /\ y.accessory = Mapped(IE, x.accessory)
    BY <1>2, <1>3, <1>6, PaintWholeIs
  <1>11. /\ z.type = y.type /\ z.text = y.text /\ z.id = y.id /\ z.url = y.url
         /\ z.children = Mapped(ID, y.children) /\ z.accessory = Mapped(ID, y.accessory)
    BY <1>2, <1>4, <1>6, PaintWholeIs
  <1>12. /\ w.type = x.type /\ w.text = x.text /\ w.id = x.id /\ w.url = x.url
         /\ w.children = Mapped(IH, x.children) /\ w.accessory = Mapped(IH, x.accessory)
    BY <1>2, <1>5, <1>6, PaintWholeIs
  <1>13. z.children = w.children /\ z.accessory = w.accessory
    BY <1>8, <1>9, <1>10, <1>11, <1>12
  <1>14. z.extra = w.extra /\ z.disabled = w.disabled
    <2>2. y.extra = E[x].extra /\ y.disabled = E[x].disabled
      BY <1>2, <1>3, OwnWhole
    <2>3. z.extra = D[y].extra /\ z.disabled = D[y].disabled
      BY <1>2, <1>4, OwnWhole
    <2>4. w.extra = H[x].extra /\ w.disabled = H[x].disabled
      BY <1>2, <1>5, OwnWhole
    <2>5. QED
      BY <1>10, <2>2, <2>3, <2>4, ThenOwn
  <1>15. z = w
    <2>1. z.type = w.type /\ z.text = w.text /\ z.id = w.id /\ z.url = w.url
      BY <1>10, <1>11, <1>12
    <2>2. QED
      BY <1>13, <1>14, <2>1, SameComponents
  <1>16. QED
    BY <1>3, <1>4, <1>5, <1>15

LEMMA ThenPainted ==
    ASSUME NEW D, NEW E, NEW H, Then(D, E, H), NEW components \in Seq(Components)
    PROVE  Painted(D, Painted(E, components)) = Painted(H, components)
  <1>1. PICK WD, WE, WH : WD = PaintWhole(D) /\ WE = PaintWhole(E) /\ WH = PaintWhole(H)
    OBVIOUS
  <1>2. IsMap(WE, Components, Components)
    BY <1>1, PaintWholeMap DEF Then
  <1>3. Follows(WH, WD, WE, Components)
    <2>1. \A c \in Components : WH[c] = WD[WE[c]]
      BY <1>1, ThenWhole
    <2>2. QED
      BY <2>1 DEF Follows
  <1>4. Mapped(WD, Mapped(WE, components)) = Mapped(WH, components)
    BY <1>2, <1>3, GatheredOfMapped
  <1>5. QED
    BY <1>1, <1>4 DEF Painted

\* A normal form is its own normal form.
LEMMA NormalTwice ==
    ASSUME NEW components \in Seq(Components)
    PROVE  Normal(Normal(components)) = Normal(components)
  <1>1. PICK N : N = NormalPaint /\ IsPaint(N) /\ IsOwn(N)
    BY NormalIsPaint
  <1>2. ASSUME NEW c \in Components
        PROVE  N[N[c]] = N[c]
    <2>1. PICK y \in Components :
              /\ y = N[c] /\ y.type = c.type /\ y.text = c.text /\ y.id = c.id /\ y.url = c.url
              /\ y.children = c.children /\ y.accessory = c.accessory
              /\ y.extra = c.extra \ Dropped(c.type) /\ y.disabled = c.disabled
      BY <1>1, NormalFields
    <2>2. PICK z \in Components :
              /\ z = N[y] /\ z.type = y.type /\ z.text = y.text /\ z.id = y.id /\ z.url = y.url
              /\ z.children = y.children /\ z.accessory = y.accessory
              /\ z.extra = y.extra \ Dropped(y.type) /\ z.disabled = y.disabled
      BY <1>1, NormalFields
    <2>3. z.extra = y.extra
      BY <2>1, <2>2
    <2>4. z = y
      BY <2>2, <2>3, SameComponents
    <2>5. QED
      BY <2>1, <2>2, <2>4
  <1>3. Then(N, N, N)
    BY <1>1, <1>2 DEF Then
  <1>4. PICK n \in Seq(Components) : n = Normal(components) /\ n = Painted(N, components)
    BY <1>1, NormalIs
  <1>5. Painted(N, Painted(N, components)) = Painted(N, components)
    BY <1>3, ThenPainted
  <1>6. Normal(n) = Painted(N, n)
    BY <1>1, NormalIs
  <1>7. QED
    BY <1>4, <1>5, <1>6

-----------------------------------------------------------------------------
(* The removal of the verification button.                                 *)

With(c, children) == [c EXCEPT !.children = children]

CleanLeaves == {x \in Leaves : x.id # Verify}

CleanInners ==
    {x \in InnerComponents : /\ x.id # Verify
                             /\ x.children \in Seq(CleanLeaves)
                             /\ x.accessory \in Seq(CleanLeaves)}

CleanAccessories == {x \in InnerComponents : x.id # Verify}

CleanComponents ==
    {c \in Components : /\ c.id # Verify
                        /\ c.children \in Seq(CleanInners)
                        /\ c.accessory \in Seq(CleanAccessories)}

OfLeaf == [x \in Leaves |-> CleanLeaf(x)]
OfInner == [x \in InnerComponents |-> CleanInner(x)]
OfWhole == [c \in Components |-> Clean(c)]

LEMMA BareFields ==
    ASSUME NEW type \in Types
    PROVE  LET b == Bare(type) IN
           /\ b \in Leaves
           /\ b.type = type /\ b.text = <<>> /\ b.id = NoId /\ b.url = NoUrl
           /\ b.extra = {} /\ ~b.disabled /\ b.children = <<>> /\ b.accessory = <<>>
  <1>1. /\ <<>> \in Seq({}) /\ Len(<<>>) <= 1 /\ <<>> \in Seq(Strings)
        /\ {} \in SUBSET {"id", "flag"} /\ FALSE \in BOOLEAN
    BY EmptySeq
  <1>2. NoId \in Strings /\ NoUrl \in Strings
    BY PayloadsAssumption
  <1>3. Bare(type) \in Leaves
    BY <1>1, <1>2 DEF Bare, Leaves, Shape
  <1>4. QED
    BY <1>3 DEF Bare

LEMMA TextFields ==
    ASSUME NEW text \in Seq(Strings)
    PROVE  LET t == Text(text) IN
           /\ t \in Leaves /\ t \in InnerComponents /\ t \in Components
           /\ t.type = "text" /\ t.text = text /\ t.id = NoId /\ t.url = NoUrl
           /\ t.extra = {} /\ ~t.disabled /\ t.children = <<>> /\ t.accessory = <<>>
  <1>1. PICK b \in Leaves :
            /\ b = Bare("text")
            /\ b.type = "text" /\ b.text = <<>> /\ b.id = NoId /\ b.url = NoUrl
            /\ b.extra = {} /\ ~b.disabled /\ b.children = <<>> /\ b.accessory = <<>>
    <2>1. "text" \in Types
      BY DEF Types
    <2>2. QED
      BY <2>1, BareFields
  <1>2. Text(text) = [b EXCEPT !.text = text]
    BY <1>1 DEF Text
  <1>3. [b EXCEPT !.text = text] \in Leaves
    BY DEF Leaves, Shape
  <1>4. LET t == [b EXCEPT !.text = text] IN
        /\ t.type = "text" /\ t.text = text /\ t.id = NoId /\ t.url = NoUrl
        /\ t.extra = {} /\ ~t.disabled /\ t.children = <<>> /\ t.accessory = <<>>
    BY <1>1 DEF Leaves, Shape
  <1>5. QED
    BY <1>2, <1>3, <1>4, Nesting

LEMMA WithInner ==
    ASSUME NEW x \in InnerComponents, NEW children \in Seq(Leaves)
    PROVE  LET y == With(x, children) IN
           /\ y \in InnerComponents /\ y.children = children /\ y.accessory = x.accessory
           /\ y.type = x.type /\ y.text = x.text /\ y.id = x.id /\ y.url = x.url
           /\ y.extra = x.extra /\ y.disabled = x.disabled
  BY DEF With, InnerComponents, Shape

LEMMA WithWhole ==
    ASSUME NEW c \in Components, NEW children \in Seq(InnerComponents)
    PROVE  LET y == With(c, children) IN
           /\ y \in Components /\ y.children = children /\ y.accessory = c.accessory
           /\ y.type = c.type /\ y.text = c.text /\ y.id = c.id /\ y.url = c.url
           /\ y.extra = c.extra /\ y.disabled = c.disabled
  BY DEF With, Components, Shape

LEMMA WithItself ==
    ASSUME NEW x \in Components
    PROVE  With(x, x.children) = x
  BY DEF With, Components, Shape

LEMMA OfLeafIs ==
    ASSUME NEW x \in Leaves
    PROVE  /\ CleanLeaf(x) = IF x.id = Verify THEN <<>> ELSE <<x>>
           /\ CleanLeaf(x) \in Seq(CleanLeaves) /\ CleanLeaf(x) \in Seq(Leaves)
  <1>1. x.children = <<>> /\ x.accessory = <<>> /\ x \in Components
    BY PartTypes, Nesting
  <1>2. FlattenSeq([i \in DOMAIN x.children |-> <<x.children[i]>>]) = <<>>
    <2>1. [i \in DOMAIN x.children |-> <<x.children[i]>>] = <<>>
      BY <1>1
    <2>2. QED
      BY <2>1, FlattenEmpty
  <1>3. CleanLeaf(x) = IF x.id = Verify THEN <<>> ELSE <<With(x, <<>>)>>
    BY <1>1, <1>2 DEF CleanLeaf, CleanWith, With, Emptied
  <1>4. With(x, <<>>) = x
    BY <1>1, WithItself
  <1>5. CleanLeaf(x) = IF x.id = Verify THEN <<>> ELSE <<x>>
    BY <1>3, <1>4
  <1>6. x.id # Verify => <<x>> \in Seq(CleanLeaves)
    BY DEF CleanLeaves
  <1>7. <<>> \in Seq(CleanLeaves)
    BY EmptySeq
  <1>8. CleanLeaves \subseteq Leaves
    BY DEF CleanLeaves
  <1>9. Seq(CleanLeaves) \subseteq Seq(Leaves)
    BY <1>8, LargerSeq
  <1>10. QED
    BY <1>5, <1>6, <1>7, <1>9

LEMMA OfLeafMap == IsMap(OfLeaf, Leaves, Seq(CleanLeaves)) /\ IsMap(OfLeaf, Leaves, Seq(Leaves))
  BY OfLeafIs DEF OfLeaf, IsMap

\* What remains of the children of an inner component.
KeptLeaves(x) == Gathered(OfLeaf, x.children)

\* One that does not have the button as its accessory.
LEMMA CleanAccessory ==
    ASSUME NEW x \in Components,
           ~(x.accessory # <<>> /\ x.accessory[1].id = Verify)
    PROVE  /\ x \in InnerComponents => x.accessory \in Seq(CleanLeaves)
           /\ x.accessory \in Seq(CleanAccessories)
  <1>1. Len(x.accessory) <= 1 /\ Len(x.accessory) \in Nat
    BY FewAccessories
  <1>2. x.accessory \in Seq(InnerComponents)
    BY PartTypes
  <1>3. \A i \in 1..Len(x.accessory) : x.accessory[i].id # Verify
    <2>1. ASSUME NEW i \in 1..Len(x.accessory)
          PROVE  x.accessory[i].id # Verify
      <3>1. i = 1 /\ x.accessory # <<>>
        BY <1>1, <1>2
      <3>2. QED
        BY <3>1
    <2>2. QED
      BY <2>1
  <1>4. x.accessory \in Seq(CleanAccessories)
    <2>1. \A i \in 1..Len(x.accessory) : x.accessory[i] \in CleanAccessories
      BY <1>2, <1>3, ElementOfSeq DEF CleanAccessories
    <2>2. x.accessory = [i \in 1..Len(x.accessory) |-> x.accessory[i]]
      BY <1>2
    <2>3. QED
      BY <1>1, <2>1, <2>2, IsASeq
  <1>5. ASSUME x \in InnerComponents
        PROVE  x.accessory \in Seq(CleanLeaves)
    <2>1. x.accessory \in Seq(Leaves)
      BY <1>5, PartTypes
    <2>2. \A i \in 1..Len(x.accessory) : x.accessory[i] \in CleanLeaves
      BY <1>3, <2>1, ElementOfSeq DEF CleanLeaves
    <2>3. x.accessory = [i \in 1..Len(x.accessory) |-> x.accessory[i]]
      BY <1>2
    <2>4. QED
      BY <1>1, <2>2, <2>3, IsASeq
  <1>6. QED
    BY <1>4, <1>5

LEMMA OfInnerIs ==
    ASSUME NEW x \in InnerComponents
    PROVE  /\ KeptLeaves(x) \in Seq(CleanLeaves) /\ KeptLeaves(x) \in Seq(Leaves)
           /\ CleanInner(x) =
                IF x.id = Verify \/ (x.children # <<>> /\ KeptLeaves(x) = <<>>)
                THEN <<>>
                ELSE IF x.accessory # <<>> /\ x.accessory[1].id = Verify
                     THEN <<Text(TextOf(KeptLeaves(x)))>>
                     ELSE <<With(x, KeptLeaves(x))>>
           /\ CleanInner(x) \in Seq(CleanInners) /\ CleanInner(x) \in Seq(InnerComponents)
  <1>1. x.children \in Seq(Leaves) /\ x \in Components
    BY PartTypes, Nesting
  <1>2. KeptLeaves(x) \in Seq(CleanLeaves) /\ KeptLeaves(x) \in Seq(Leaves)
    BY <1>1, OfLeafMap, GatheredType DEF KeptLeaves
  <1>3. FlattenSeq([i \in DOMAIN x.children |-> CleanLeaf(x.children[i])]) = KeptLeaves(x)
    <2>1. DOMAIN x.children = 1..Len(x.children)
      BY <1>1, Domains
    <2>2. \A i \in 1..Len(x.children) : x.children[i] \in Leaves
      BY <1>1, ElementOfSeq
    <2>3. [i \in DOMAIN x.children |-> CleanLeaf(x.children[i])] = Mapped(OfLeaf, x.children)
      BY <2>1, <2>2 DEF Mapped, OfLeaf
    <2>4. QED
      BY <2>3 DEF KeptLeaves, Gathered
  <1>4. CleanInner(x) =
            IF x.id = Verify \/ (x.children # <<>> /\ KeptLeaves(x) = <<>>)
            THEN <<>>
            ELSE IF x.accessory # <<>> /\ x.accessory[1].id = Verify
                 THEN <<Text(TextOf(KeptLeaves(x)))>>
                 ELSE <<With(x, KeptLeaves(x))>>
    BY <1>3 DEF CleanInner, CleanWith, With, Emptied
  <1>5. <<>> \in Seq(CleanLeaves) /\ <<>> \in Seq(CleanInners)
    BY EmptySeq
  <1>6. Text(TextOf(KeptLeaves(x))) \in CleanInners
    <2>1. TextOf(KeptLeaves(x)) \in Seq(Strings)
      BY <1>2, Nesting, TextOfIs
    <2>2. NoId # Verify
      BY DEF NoId, Verify
    <2>3. QED
      BY <1>5, <2>1, <2>2, TextFields DEF CleanInners
  <1>7. ASSUME x.id # Verify, ~(x.accessory # <<>> /\ x.accessory[1].id = Verify)
        PROVE  With(x, KeptLeaves(x)) \in CleanInners
    <2>1. x.accessory \in Seq(CleanLeaves)
      BY <1>1, <1>7, CleanAccessory
    <2>2. QED
      BY <1>2, <1>7, <2>1, WithInner DEF CleanInners
  <1>8. CleanInner(x) \in Seq(CleanInners)
    BY <1>4, <1>5, <1>6, <1>7
  <1>9. CleanInners \subseteq InnerComponents
    BY DEF CleanInners
  <1>10. Seq(CleanInners) \subseteq Seq(InnerComponents)
    BY <1>9, LargerSeq
  <1>11. QED
    BY <1>2, <1>4, <1>8, <1>10

LEMMA OfInnerMap ==
    /\ IsMap(OfInner, InnerComponents, Seq(CleanInners))
    /\ IsMap(OfInner, InnerComponents, Seq(InnerComponents))
  BY OfInnerIs DEF OfInner, IsMap

\* What remains of the children of a component.
KeptInners(c) == Gathered(OfInner, c.children)

LEMMA OfWholeIs ==
    ASSUME NEW c \in Components
    PROVE  /\ KeptInners(c) \in Seq(CleanInners) /\ KeptInners(c) \in Seq(InnerComponents)
           /\ Clean(c) =
                IF c.id = Verify \/ (c.children # <<>> /\ KeptInners(c) = <<>>)
                THEN <<>>
                ELSE IF c.accessory # <<>> /\ c.accessory[1].id = Verify
                     THEN <<Text(TextOf(KeptInners(c)))>>
                     ELSE <<With(c, KeptInners(c))>>
           /\ Clean(c) \in Seq(CleanComponents) /\ Clean(c) \in Seq(Components)
  <1>1. c.children \in Seq(InnerComponents)
    BY PartTypes
  <1>2. KeptInners(c) \in Seq(CleanInners) /\ KeptInners(c) \in Seq(InnerComponents)
    BY <1>1, OfInnerMap, GatheredType DEF KeptInners
  <1>3. FlattenSeq([i \in DOMAIN c.children |-> CleanInner(c.children[i])]) = KeptInners(c)
    <2>1. DOMAIN c.children = 1..Len(c.children)
      BY <1>1, Domains
    <2>2. \A i \in 1..Len(c.children) : c.children[i] \in InnerComponents
      BY <1>1, ElementOfSeq
    <2>3. [i \in DOMAIN c.children |-> CleanInner(c.children[i])] = Mapped(OfInner, c.children)
      BY <2>1, <2>2 DEF Mapped, OfInner
    <2>4. QED
      BY <2>3 DEF KeptInners, Gathered
  <1>4. Clean(c) =
            IF c.id = Verify \/ (c.children # <<>> /\ KeptInners(c) = <<>>)
            THEN <<>>
            ELSE IF c.accessory # <<>> /\ c.accessory[1].id = Verify
                 THEN <<Text(TextOf(KeptInners(c)))>>
                 ELSE <<With(c, KeptInners(c))>>
    BY <1>3 DEF Clean, CleanWith, With, Emptied
  <1>5. <<>> \in Seq(CleanInners) /\ <<>> \in Seq(CleanAccessories) /\ <<>> \in Seq(CleanComponents)
    BY EmptySeq
  <1>6. Text(TextOf(KeptInners(c))) \in CleanComponents
    <2>1. TextOf(KeptInners(c)) \in Seq(Strings)
      BY <1>2, Nesting, TextOfIs
    <2>2. NoId # Verify
      BY DEF NoId, Verify
    <2>3. QED
      BY <1>5, <2>1, <2>2, TextFields DEF CleanComponents
  <1>7. ASSUME c.id # Verify, ~(c.accessory # <<>> /\ c.accessory[1].id = Verify)
        PROVE  With(c, KeptInners(c)) \in CleanComponents
    <2>1. c.accessory \in Seq(CleanAccessories)
      BY <1>7, CleanAccessory
    <2>2. QED
      BY <1>2, <1>7, <2>1, WithWhole DEF CleanComponents
  <1>8. Clean(c) \in Seq(CleanComponents)
    BY <1>4, <1>5, <1>6, <1>7
  <1>9. CleanComponents \subseteq Components
    BY DEF CleanComponents
  <1>10. Seq(CleanComponents) \subseteq Seq(Components)
    BY <1>9, LargerSeq
  <1>11. QED
    BY <1>2, <1>4, <1>8, <1>10

LEMMA OfWholeMap ==
    /\ IsMap(OfWhole, Components, Seq(CleanComponents))
    /\ IsMap(OfWhole, Components, Seq(Components))
  BY OfWholeIs DEF OfWhole, IsMap

-----------------------------------------------------------------------------
(* Exactly one button.                                                     *)

VerifyRow == Row(<<Button(Verify)>>)

LEMMA ButtonFields ==
    LET b == Button(Verify) IN
    /\ b \in Leaves /\ b \in InnerComponents /\ b \in Components
    /\ b.type = "button" /\ b.text = <<>> /\ b.id = Verify /\ b.url = NoUrl
    /\ b.extra = {} /\ b.children = <<>> /\ b.accessory = <<>>
  <1>1. "button" \in Types
    BY DEF Types
  <1>2. PICK b \in Leaves :
            /\ b = Bare("button")
            /\ b.type = "button" /\ b.text = <<>> /\ b.id = NoId /\ b.url = NoUrl
            /\ b.extra = {} /\ b.children = <<>> /\ b.accessory = <<>>
    BY <1>1, BareFields
  <1>3. Button(Verify) = [b EXCEPT !.id = Verify]
    BY <1>2 DEF Button
  <1>4. [b EXCEPT !.id = Verify] \in Leaves
    BY PayloadsAssumption DEF Leaves, Shape
  <1>5. LET y == [b EXCEPT !.id = Verify] IN
        /\ y.type = "button" /\ y.text = <<>> /\ y.id = Verify /\ y.url = NoUrl
        /\ y.extra = {} /\ y.children = <<>> /\ y.accessory = <<>>
    BY <1>2 DEF Leaves, Shape
  <1>6. QED
    BY <1>3, <1>4, <1>5, Nesting

LEMMA RowFields ==
    /\ VerifyRow \in InnerComponents /\ VerifyRow \in Components
    /\ VerifyRow.type = "row" /\ VerifyRow.text = <<>> /\ VerifyRow.id = NoId
    /\ VerifyRow.url = NoUrl /\ VerifyRow.extra = {} /\ ~VerifyRow.disabled
    /\ VerifyRow.children = <<Button(Verify)>> /\ VerifyRow.accessory = <<>>
    /\ <<Button(Verify)>> \in Seq(Leaves)
  <1>1. "row" \in Types
    BY DEF Types
  <1>2. PICK b \in Leaves :
            /\ b = Bare("row")
            /\ b.type = "row" /\ b.text = <<>> /\ b.id = NoId /\ b.url = NoUrl
            /\ b.extra = {} /\ ~b.disabled /\ b.children = <<>> /\ b.accessory = <<>>
    BY <1>1, BareFields
  <1>3. PICK s \in Seq(Leaves) : s = <<Button(Verify)>>
    <2>1. PICK l \in Leaves : l = Button(Verify)
      BY ButtonFields
    <2>2. <<l>> \in Seq(Leaves)
      OBVIOUS
    <2>3. QED
      BY <2>1, <2>2
  <1>4. b \in InnerComponents
    BY Nesting
  <1>5. VerifyRow = With(b, s)
    BY <1>2, <1>3 DEF VerifyRow, Row, With
  <1>6. /\ With(b, s) \in InnerComponents /\ With(b, s).children = s
        /\ With(b, s).accessory = b.accessory
        /\ With(b, s).type = b.type /\ With(b, s).text = b.text /\ With(b, s).id = b.id
        /\ With(b, s).url = b.url /\ With(b, s).extra = b.extra
        /\ With(b, s).disabled = b.disabled
    BY <1>4, WithInner
  <1>7. With(b, s) \in Components
    BY <1>6, Nesting
  <1>8. QED
    BY <1>2, <1>3, <1>5, <1>6, <1>7

LEMMA WithVerificationButtonIs ==
    ASSUME NEW components \in Seq(Components)
    PROVE  /\ WithVerificationButton(components)
                = Gathered(OfWhole, components) \o <<VerifyRow>>
           /\ Gathered(OfWhole, components) \in Seq(CleanComponents)
           /\ Gathered(OfWhole, components) \in Seq(Components)
           /\ <<VerifyRow>> \in Seq(Components)
           /\ WithVerificationButton(components) \in Seq(Components)
  <1>1. DOMAIN components = 1..Len(components)
    BY Domains
  <1>2. \A i \in 1..Len(components) : components[i] \in Components
    BY ElementOfSeq
  <1>3. [i \in DOMAIN components |-> Clean(components[i])] = Mapped(OfWhole, components)
    BY <1>1, <1>2 DEF Mapped, OfWhole
  <1>4. WithVerificationButton(components) = Gathered(OfWhole, components) \o <<VerifyRow>>
    BY <1>3 DEF WithVerificationButton, Gathered, VerifyRow
  <1>5. /\ Gathered(OfWhole, components) \in Seq(CleanComponents)
        /\ Gathered(OfWhole, components) \in Seq(Components)
    BY OfWholeMap, GatheredType
  <1>6. <<VerifyRow>> \in Seq(Components)
    BY RowFields
  <1>7. QED
    BY <1>4, <1>5, <1>6, ConcatProperties

\* The verification buttons among components.
ReadVerify == [c \in Components |-> IF c.id = Verify THEN <<c>> ELSE <<>>]

LEMMA ReadVerifyMap == IsMap(ReadVerify, Components, Seq(Components))
  <1>1. <<>> \in Seq(Components) /\ \A c \in Components : <<c>> \in Seq(Components)
    BY EmptySeq
  <1>2. QED
    BY <1>1 DEF ReadVerify, IsMap

LEMMA FilteredVerify ==
    ASSUME NEW components \in Seq(Components)
    PROVE  VerifyButtons(components) = Read(ReadVerify, components)
  <1>1. PICK s \in Seq(Components) : s = AllParts(components)
    BY AllPartsAre
  <1>2. DOMAIN s = 1..Len(s) /\ \A i \in 1..Len(s) : s[i] \in Components
    BY Domains, ElementOfSeq
  <1>3. [i \in DOMAIN s |-> IF s[i].id = Verify THEN <<s[i]>> ELSE <<>>] = Mapped(ReadVerify, s)
    BY <1>2 DEF Mapped, ReadVerify
  <1>4. VerifyButtons(components) = Gathered(ReadVerify, s)
    BY <1>1, <1>3 DEF VerifyButtons, Filtered, Gathered
  <1>5. QED
    BY <1>1, <1>4 DEF Read

\* There is none in what has been cleaned.
LEMMA CleanReadsNothing ==
    /\ GivesNothing(ReadVerify, CleanLeaves)
    /\ GivesNothing(ReadVerify, CleanAccessories)
    /\ GivesNothing(ReadInner(ReadVerify), CleanInners)
    /\ GivesNothing(ReadWhole(ReadVerify), CleanComponents)
  <1>1. GivesNothing(ReadVerify, CleanLeaves)
    BY Nesting DEF GivesNothing, ReadVerify, CleanLeaves
  <1>2. GivesNothing(ReadVerify, CleanAccessories)
    BY Nesting DEF GivesNothing, ReadVerify, CleanAccessories
  <1>3. ASSUME NEW x \in CleanInners
        PROVE  ReadInner(ReadVerify)[x] = <<>>
    <2>1. /\ x \in InnerComponents /\ x \in Components /\ x.id # Verify
          /\ x.children \in Seq(CleanLeaves) /\ x.accessory \in Seq(CleanLeaves)
      BY Nesting DEF CleanInners
    <2>2. Gathered(ReadVerify, x.children) = <<>> /\ Gathered(ReadVerify, x.accessory) = <<>>
      BY <1>1, <2>1, GatheredNothing
    <2>3. ReadVerify[x] = <<>>
      BY <2>1 DEF ReadVerify
    <2>4. ReadInner(ReadVerify)[x] = <<>> \o <<>> \o <<>>
      BY <2>1, <2>2, <2>3 DEF ReadInner
    <2>5. QED
      BY <2>4
  <1>4. GivesNothing(ReadInner(ReadVerify), CleanInners)
    BY <1>3 DEF GivesNothing
  <1>5. ASSUME NEW x \in CleanComponents
        PROVE  ReadWhole(ReadVerify)[x] = <<>>
    <2>1. /\ x \in Components /\ x.id # Verify
          /\ x.children \in Seq(CleanInners) /\ x.accessory \in Seq(CleanAccessories)
      BY DEF CleanComponents
    <2>2. PICK R : R = ReadInner(ReadVerify)
      OBVIOUS
    <2>3. Gathered(R, x.children) = <<>> /\ Gathered(ReadVerify, x.accessory) = <<>>
      BY <1>2, <1>4, <2>1, <2>2, GatheredNothing
    <2>4. ReadVerify[x] = <<>>
      BY <2>1 DEF ReadVerify
    <2>5. ReadWhole(ReadVerify)[x] = <<>> \o <<>> \o <<>>
      BY <2>1, <2>2, <2>3, <2>4 DEF ReadWhole
    <2>6. QED
      BY <2>5
  <1>6. GivesNothing(ReadWhole(ReadVerify), CleanComponents)
    BY <1>5 DEF GivesNothing
  <1>7. QED
    BY <1>1, <1>2, <1>4, <1>6

LEMMA OneButton ==
    ASSUME NEW components \in Seq(Components)
    PROVE  LET with == WithVerificationButton(components) IN
           /\ Len(VerifyButtons(with)) = 1
           /\ Last(with) = VerifyRow
  <1>1. PICK kept \in Seq(Components), one \in Seq(Components) :
            /\ kept = Gathered(OfWhole, components) /\ kept \in Seq(CleanComponents)
            /\ one = <<VerifyRow>>
            /\ WithVerificationButton(components) = kept \o one
    BY WithVerificationButtonIs
  <1>2. PICK with \in Seq(Components) : with = kept \o one
    BY ConcatProperties
  <1>3. PICK R : R = ReadWhole(ReadVerify)
    OBVIOUS
  <1>a. IsMap(R, Components, Seq(Components))
    BY <1>3, ReadVerifyMap, ReadWholeMap
  <1>4. Gathered(R, kept) = <<>>
    BY <1>1, <1>3, CleanReadsNothing, GatheredNothing
  <1>5. Gathered(R, one) = R[VerifyRow]
    BY <1>1, <1>a, RowFields, GatheredOne
  <1>6. R[VerifyRow] = <<Button(Verify)>>
    <2>1. ReadVerify[VerifyRow] = <<>>
      BY RowFields DEF ReadVerify, NoId, Verify
    <2>2. Gathered(ReadInner(ReadVerify), <<Button(Verify)>>) = ReadInner(ReadVerify)[Button(Verify)]
      <3>1. PICK I : I = ReadInner(ReadVerify) /\ IsMap(I, InnerComponents, Seq(Components))
        BY ReadVerifyMap, ReadInnerMap
      <3>2. PICK b \in InnerComponents : b = Button(Verify)
        BY ButtonFields
      <3>3. Gathered(I, <<b>>) = I[b]
        BY <3>1, GatheredOne
      <3>4. QED
        BY <3>1, <3>2, <3>3
    <2>3. ReadInner(ReadVerify)[Button(Verify)] = <<Button(Verify)>>
      <3>1. ReadVerify[Button(Verify)] = <<Button(Verify)>>
        BY ButtonFields DEF ReadVerify
      <3>2. ReadInner(ReadVerify)[Button(Verify)] = <<Button(Verify)>> \o <<>> \o <<>>
        BY <3>1, ButtonFields, GatheredEmpty DEF ReadInner
      <3>3. QED
        BY <3>2
    <2>4. R[VerifyRow] = <<>> \o <<Button(Verify)>> \o <<>>
      <3>1. PICK r \in Components :
                r = VerifyRow /\ r.children = <<Button(Verify)>> /\ r.accessory = <<>>
        BY RowFields
      <3>2. R[r] = ReadVerify[r] \o Gathered(ReadInner(ReadVerify), r.children)
                                \o Gathered(ReadVerify, r.accessory)
        BY <1>3 DEF ReadWhole
      <3>3. QED
        BY <1>3, <2>1, <2>2, <2>3, <3>1, <3>2, GatheredEmpty
    <2>5. QED
      BY <2>4
  <1>7. Gathered(R, kept \o one) = Gathered(R, kept) \o Gathered(R, one)
    <2>1. Gathers(R, Components)
      BY <1>a, GatheredOfTwo
    <2>2. QED
      BY <2>1 DEF Gathers
  <1>8. Read(ReadVerify, with) = <<Button(Verify)>>
    <2>1. Read(ReadVerify, with) = Gathered(R, with)
      BY <1>3, ReadVerifyMap, ReadIs
    <2>2. Gathered(R, with) = <<>> \o <<Button(Verify)>>
      BY <1>2, <1>4, <1>5, <1>6, <1>7
    <2>3. QED
      BY <2>1, <2>2
  <1>9. Len(VerifyButtons(with)) = 1
    <2>1. Len(<<Button(Verify)>>) = 1
      OBVIOUS
    <2>2. QED
      BY <1>8, <2>1, FilteredVerify
  <1>10. Last(with) = VerifyRow
    <2>1. /\ Len(with) = Len(kept) + 1 /\ Len(kept) \in Nat /\ Len(one) = 1
          /\ with[Len(kept) + 1] = one[1]
      BY <1>1, <1>2, ConcatProperties, LenProperties
    <2>2. QED
      BY <1>1, <2>1 DEF Last
  <1>11. QED
    BY <1>1, <1>2, <1>9, <1>10

-----------------------------------------------------------------------------
(* The normal form of what is cleaned is the cleaned normal form.           *)

LEMMA NormalInnerFields ==
    ASSUME NEW u \in InnerComponents
    PROVE  /\ PaintInner(NormalPaint)[u].extra = u.extra \ Dropped(u.type)
           /\ PaintInner(NormalPaint)[u].disabled = u.disabled
  BY Nesting, NormalIsPaint, NormalFields, OwnInner

LEMMA NormalWholeFields ==
    ASSUME NEW u \in Components
    PROVE  /\ PaintWhole(NormalPaint)[u].extra = u.extra \ Dropped(u.type)
           /\ PaintWhole(NormalPaint)[u].disabled = u.disabled
  BY NormalIsPaint, NormalFields, OwnWhole

PaintLeaf(F) == [l \in Leaves |-> F[l]]

LEMMA PaintLeafIs ==
    ASSUME NEW F, IsPaint(F)
    PROVE  /\ IsMap(PaintLeaf(F), Leaves, Leaves)
           /\ \A s \in Seq(Leaves) : Mapped(F, s) = Mapped(PaintLeaf(F), s)
           /\ \A s \in Seq(Leaves) : Mapped(PaintWhole(F), s) = Mapped(PaintLeaf(F), s)
  <1>1. \A l \in Leaves : F[l] \in Leaves
    BY PaintDepth
  <1>2. IsMap(PaintLeaf(F), Leaves, Leaves)
    BY <1>1 DEF PaintLeaf, IsMap
  <1>3. SameOn(F, PaintLeaf(F), Leaves)
    BY DEF SameOn, PaintLeaf
  <1>4. SameOn(PaintWhole(F), PaintLeaf(F), Leaves)
    BY PaintsAgree, Nesting DEF SameOn, PaintLeaf
  <1>5. PICK G, H : G = PaintLeaf(F) /\ H = PaintWhole(F)
    OBVIOUS
  <1>6. SameOn(F, G, Leaves) /\ SameOn(H, G, Leaves)
    BY <1>3, <1>4, <1>5
  <1>7. \A s \in Seq(Leaves) : Mapped(F, s) = Mapped(G, s) /\ Mapped(H, s) = Mapped(G, s)
    BY <1>6, MappedSame
  <1>8. QED
    BY <1>2, <1>5, <1>7

\* A text made by the cleaning is in normal form.
LEMMA TextIsNormal ==
    ASSUME NEW text \in Seq(Strings)
    PROVE  /\ NormalPaint[Text(text)] = Text(text)
           /\ PaintInner(NormalPaint)[Text(text)] = Text(text)
           /\ PaintWhole(NormalPaint)[Text(text)] = Text(text)
  <1>1. PICK t \in Leaves :
            t = Text(text) /\ t.extra = {}
    BY TextFields
  <1>2. t \in Components /\ t \in InnerComponents
    BY Nesting
  <1>4. NormalPaint[t] = t
    <2>1. PICK y \in Components : y = NormalPaint[t]
      BY <1>2, NormalFields
    <2>2. /\ y.type = t.type /\ y.text = t.text /\ y.id = t.id /\ y.url = t.url
          /\ y.children = t.children /\ y.accessory = t.accessory
          /\ y.extra = t.extra \ Dropped(t.type) /\ y.disabled = t.disabled
      BY <1>2, <2>1, NormalFields
    <2>3. y.extra = t.extra
      BY <1>1, <2>2
    <2>4. QED
      BY <1>2, <2>1, <2>2, <2>3, SameComponents
  <1>5. QED
    BY <1>1, <1>2, <1>4, NormalIsPaint, PaintsAgree

LEMMA CleanNormalLeaf ==
    ASSUME NEW x \in Leaves
    PROVE  CleanLeaf(NormalPaint[x]) = Mapped(PaintLeaf(NormalPaint), CleanLeaf(x))
  <1>1. PICK F : F = NormalPaint /\ IsPaint(F)
    BY NormalIsPaint
  <1>2. PICK y \in Leaves : y = F[x] /\ y.id = x.id
    <2>1. x \in Components
      BY Nesting
    <2>2. F[x] \in Leaves
      BY <1>1, PaintDepth
    <2>3. F[x].id = x.id
      BY <1>1, <2>1 DEF IsPaint
    <2>4. QED
      BY <2>2, <2>3
  <1>3. CleanLeaf(x) = (IF x.id = Verify THEN <<>> ELSE <<x>>)
    BY OfLeafIs
  <1>4. CleanLeaf(y) = (IF y.id = Verify THEN <<>> ELSE <<y>>)
    BY OfLeafIs
  <1>5. PICK L : L = PaintLeaf(F)
    OBVIOUS
  <1>6. L[x] = y
    BY <1>2, <1>5 DEF PaintLeaf
  <1>7. Mapped(L, <<>>) = <<>> /\ Mapped(L, <<x>>) = <<y>>
    BY <1>6, MappedEmpty, MappedOne
  <1>8. CleanLeaf(y) = Mapped(L, CleanLeaf(x))
    BY <1>2, <1>3, <1>4, <1>7
  <1>9. QED
    BY <1>1, <1>2, <1>5, <1>8

\* What is kept of the normal children is the normal form of what is kept.
LEMMA KeptNormalLeaves ==
    ASSUME NEW s \in Seq(Leaves)
    PROVE  LET N == PaintLeaf(NormalPaint) IN
           Gathered(OfLeaf, Mapped(N, s)) = Mapped(N, Gathered(OfLeaf, s))
  <1>1. PICK N : N = PaintLeaf(NormalPaint)
    OBVIOUS
  <1>2. IsMap(N, Leaves, Leaves)
    BY <1>1, NormalIsPaint, PaintLeafIs
  <1>3. PICK Z : Z = [l \in Leaves |-> OfLeaf[N[l]]]
    OBVIOUS
  <1>4. \A l \in Leaves : N[l] \in Leaves
    BY <1>2 DEF IsMap
  <1>5. IsMap(Z, Leaves, Seq(Leaves))
    <2>1. \A l \in Leaves : OfLeaf[N[l]] \in Seq(Leaves)
      BY <1>4, OfLeafMap DEF IsMap
    <2>2. QED
      BY <1>3, <2>1 DEF IsMap
  <1>6. Follows(Z, OfLeaf, N, Leaves)
    BY <1>3 DEF Follows
  <1>7. Maps(Z, N, OfLeaf, Leaves)
    <2>1. ASSUME NEW l \in Leaves
          PROVE  Z[l] = Mapped(N, OfLeaf[l])
      <3>1. N[l] = NormalPaint[l]
        BY <1>1 DEF PaintLeaf
      <3>2. CleanLeaf(N[l]) = Mapped(N, CleanLeaf(l))
        BY <1>1, <3>1, CleanNormalLeaf
      <3>3. QED
        BY <1>3, <1>4, <3>2 DEF OfLeaf
    <2>2. QED
      BY <2>1 DEF Maps
  <1>8. Gathered(OfLeaf, Mapped(N, s)) = Gathered(Z, s)
    BY <1>2, <1>6, GatheredOfMapped
  <1>9. Mapped(N, Gathered(OfLeaf, s)) = Gathered(Z, s)
    BY <1>2, <1>5, <1>7, OfLeafMap, MappedOfGathered
  <1>10. QED
    BY <1>1, <1>8, <1>9

LEMMA CleanNormalInner ==
    ASSUME NEW x \in InnerComponents
    PROVE  LET N == PaintInner(NormalPaint) IN
           CleanInner(N[x]) = Mapped(N, CleanInner(x))
  <1>1. PICK F, L, N : F = NormalPaint /\ L = PaintLeaf(F) /\ N = PaintInner(F)
    OBVIOUS
  <1>3. IsPaint(F)
    BY <1>1, NormalIsPaint
  <1>4. x.children \in Seq(Leaves) /\ x.accessory \in Seq(Leaves)
    BY PartTypes
  <1>5. PICK y \in InnerComponents :
            /\ y = N[x] /\ y.type = x.type /\ y.text = x.text /\ y.id = x.id /\ y.url = x.url
            /\ y.children = Mapped(L, x.children) /\ y.accessory = Mapped(L, x.accessory)
    BY <1>1, <1>3, <1>4, PaintInnerIs, PaintLeafIs
  <1>a. IsMap(L, Leaves, Leaves)
    BY <1>1, <1>3, PaintLeafIs
  <1>6. KeptLeaves(x) \in Seq(Leaves)
    BY OfInnerIs
  <1>7. KeptLeaves(y) = Mapped(L, KeptLeaves(x))
    BY <1>1, <1>4, <1>5, KeptNormalLeaves DEF KeptLeaves
  <1>8. \A s \in Seq(Leaves) : Len(Mapped(L, s)) = Len(s) /\ (Mapped(L, s) = <<>> <=> s = <<>>)
    <2> SUFFICES ASSUME NEW s \in Seq(Leaves)
                 PROVE  Len(Mapped(L, s)) = Len(s) /\ (Mapped(L, s) = <<>> <=> s = <<>>)
      OBVIOUS
    <2>1. Mapped(L, s) \in Seq(Leaves) /\ Len(Mapped(L, s)) = Len(s)
      BY <1>a, MappedType
    <2>2. \A t \in Seq(Leaves) : t = <<>> <=> Len(t) = 0
      BY EmptySeq
    <2>3. QED
      BY <2>1, <2>2
  <1>9. y.accessory # <<>> /\ y.accessory[1].id = Verify
            <=> x.accessory # <<>> /\ x.accessory[1].id = Verify
    <2>1. y.accessory # <<>> <=> x.accessory # <<>>
      BY <1>4, <1>5, <1>8
    <2>2. ASSUME x.accessory # <<>>
          PROVE  y.accessory[1].id = x.accessory[1].id
      <3>1. 1 \in 1..Len(x.accessory)
        BY <1>4, <2>2, LenProperties
      <3>2. y.accessory[1] = L[x.accessory[1]] /\ x.accessory[1] \in Leaves
        BY <1>4, <1>5, <3>1, ElementOfSeq DEF Mapped
      <3>3. L[x.accessory[1]] = F[x.accessory[1]] /\ x.accessory[1] \in Components
        BY <1>1, <3>2, Nesting DEF PaintLeaf
      <3>4. QED
        BY <1>3, <3>2, <3>3 DEF IsPaint
    <2>3. QED
      BY <2>1, <2>2
  <1>10. y.id = Verify \/ (y.children # <<>> /\ KeptLeaves(y) = <<>>)
            <=> x.id = Verify \/ (x.children # <<>> /\ KeptLeaves(x) = <<>>)
    BY <1>4, <1>5, <1>6, <1>7, <1>8
  <1>11. TextOf(KeptLeaves(y)) = TextOf(KeptLeaves(x)) /\ TextOf(KeptLeaves(x)) \in Seq(Strings)
    <2>1. PICK s \in Seq(Components) : s = KeptLeaves(x)
      BY <1>6, Nesting
    <2>2. Painted(F, s) = Mapped(L, s)
      BY <1>1, <1>3, <1>6, <2>1, PaintLeafIs DEF Painted
    <2>3. TextOf(Painted(F, s)) = TextOf(s) /\ TextOf(s) \in Seq(Strings)
      BY <1>3, PaintedText, TextOfIs
    <2>4. QED
      BY <1>7, <2>1, <2>2, <2>3
  <1>12. N[Text(TextOf(KeptLeaves(x)))] = Text(TextOf(KeptLeaves(x)))
    BY <1>1, <1>11, TextIsNormal
  <1>13. N[With(x, KeptLeaves(x))] = With(y, KeptLeaves(y))
    <2>1. PICK w \in InnerComponents :
              /\ w = With(x, KeptLeaves(x)) /\ w.children = KeptLeaves(x) /\ w.accessory = x.accessory
              /\ w.type = x.type /\ w.text = x.text /\ w.id = x.id /\ w.url = x.url
              /\ w.extra = x.extra /\ w.disabled = x.disabled
      BY <1>6, WithInner
    <2>2. PICK v \in InnerComponents :
              /\ v = N[w] /\ v.type = w.type /\ v.text = w.text /\ v.id = w.id /\ v.url = w.url
              /\ v.children = Mapped(F, w.children) /\ v.accessory = Mapped(F, w.accessory)
      BY <1>1, <1>3, PaintInnerIs
    <2>3. v.children = Mapped(L, w.children) /\ v.accessory = Mapped(L, w.accessory)
      BY <1>1, <1>3, <1>4, <1>6, <2>1, <2>2, PaintLeafIs
    <2>4. v.extra = w.extra \ Dropped(w.type) /\ v.disabled = w.disabled
      BY <1>1, <2>2, NormalInnerFields
    <2>5. KeptLeaves(y) \in Seq(Leaves)
      BY OfInnerIs
    <2>6. PICK u \in InnerComponents :
              /\ u = With(y, KeptLeaves(y)) /\ u.children = KeptLeaves(y) /\ u.accessory = y.accessory
              /\ u.type = y.type /\ u.text = y.text /\ u.id = y.id /\ u.url = y.url
              /\ u.extra = y.extra /\ u.disabled = y.disabled
      BY <2>5, WithInner
    <2>7. y.extra = x.extra \ Dropped(x.type) /\ y.disabled = x.disabled
      BY <1>1, <1>5, NormalInnerFields
    <2>8. u \in Components /\ v \in Components
      BY Nesting
    <2>9. u.children = v.children /\ u.accessory = v.accessory
      BY <1>5, <1>7, <2>1, <2>3, <2>6
    <2>10. /\ u.type = v.type /\ u.text = v.text /\ u.id = v.id /\ u.url = v.url
           /\ u.extra = v.extra /\ u.disabled = v.disabled
      BY <1>5, <2>1, <2>2, <2>4, <2>6, <2>7
    <2>11. u = v
      BY <2>8, <2>9, <2>10, SameComponents
    <2>12. QED
      BY <2>1, <2>2, <2>6, <2>11
  <1>14. CleanInner(x) =
            IF x.id = Verify \/ (x.children # <<>> /\ KeptLeaves(x) = <<>>)
            THEN <<>>
            ELSE IF x.accessory # <<>> /\ x.accessory[1].id = Verify
                 THEN <<Text(TextOf(KeptLeaves(x)))>>
                 ELSE <<With(x, KeptLeaves(x))>>
    BY OfInnerIs
  <1>15. CleanInner(y) =
            IF y.id = Verify \/ (y.children # <<>> /\ KeptLeaves(y) = <<>>)
            THEN <<>>
            ELSE IF y.accessory # <<>> /\ y.accessory[1].id = Verify
                 THEN <<Text(TextOf(KeptLeaves(y)))>>
                 ELSE <<With(y, KeptLeaves(y))>>
    BY OfInnerIs
  <1>16. /\ Mapped(N, <<>>) = <<>>
         /\ Mapped(N, <<Text(TextOf(KeptLeaves(x)))>>) = <<Text(TextOf(KeptLeaves(y)))>>
         /\ Mapped(N, <<With(x, KeptLeaves(x))>>) = <<With(y, KeptLeaves(y))>>
    BY <1>11, <1>12, <1>13, MappedEmpty, MappedOne
  <1>17. CleanInner(y) = Mapped(N, CleanInner(x))
    <2>1. CASE x.id = Verify \/ (x.children # <<>> /\ KeptLeaves(x) = <<>>)
      BY <1>10, <1>14, <1>15, <1>16, <2>1
    <2>2. CASE ~(x.id = Verify \/ (x.children # <<>> /\ KeptLeaves(x) = <<>>))
      <3>1. CASE x.accessory # <<>> /\ x.accessory[1].id = Verify
        BY <1>9, <1>10, <1>14, <1>15, <1>16, <2>2, <3>1
      <3>2. CASE ~(x.accessory # <<>> /\ x.accessory[1].id = Verify)
        BY <1>9, <1>10, <1>14, <1>15, <1>16, <2>2, <3>2
      <3>3. QED
        BY <3>1, <3>2
    <2>3. QED
      BY <2>1, <2>2
  <1>18. QED
    BY <1>1, <1>5, <1>17

LEMMA KeptNormalInners ==
    ASSUME NEW s \in Seq(InnerComponents)
    PROVE  LET N == PaintInner(NormalPaint) IN
           Gathered(OfInner, Mapped(N, s)) = Mapped(N, Gathered(OfInner, s))
  <1>1. PICK N : N = PaintInner(NormalPaint)
    OBVIOUS
  <1>2. IsMap(N, InnerComponents, InnerComponents)
    BY <1>1, NormalIsPaint, PaintInnerMap
  <1>3. PICK Z : Z = [x \in InnerComponents |-> OfInner[N[x]]]
    OBVIOUS
  <1>4. \A x \in InnerComponents : N[x] \in InnerComponents
    BY <1>2 DEF IsMap
  <1>5. IsMap(Z, InnerComponents, Seq(InnerComponents))
    <2>1. \A x \in InnerComponents : OfInner[N[x]] \in Seq(InnerComponents)
      BY <1>4, OfInnerMap DEF IsMap
    <2>2. QED
      BY <1>3, <2>1 DEF IsMap
  <1>6. Follows(Z, OfInner, N, InnerComponents)
    BY <1>3 DEF Follows
  <1>7. Maps(Z, N, OfInner, InnerComponents)
    <2>1. ASSUME NEW x \in InnerComponents
          PROVE  Z[x] = Mapped(N, OfInner[x])
      <3>1. CleanInner(N[x]) = Mapped(N, CleanInner(x))
        BY <1>1, CleanNormalInner
      <3>2. QED
        BY <1>3, <1>4, <3>1 DEF OfInner
    <2>2. QED
      BY <2>1 DEF Maps
  <1>8. Gathered(OfInner, Mapped(N, s)) = Gathered(Z, s)
    BY <1>2, <1>6, GatheredOfMapped
  <1>9. Mapped(N, Gathered(OfInner, s)) = Gathered(Z, s)
    BY <1>2, <1>5, <1>7, OfInnerMap, MappedOfGathered
  <1>10. QED
    BY <1>1, <1>8, <1>9

LEMMA CleanNormalWhole ==
    ASSUME NEW x \in Components
    PROVE  LET N == PaintWhole(NormalPaint) IN
           Clean(N[x]) = Mapped(N, Clean(x))
  <1>1. PICK F, L, N : F = NormalPaint /\ L = PaintInner(F) /\ N = PaintWhole(F)
    OBVIOUS
  <1>3. IsPaint(F)
    BY <1>1, NormalIsPaint
  <1>4. x.children \in Seq(InnerComponents) /\ x.accessory \in Seq(InnerComponents)
    BY PartTypes
  <1>5. PICK y \in Components :
            /\ y = N[x] /\ y.type = x.type /\ y.text = x.text /\ y.id = x.id /\ y.url = x.url
            /\ y.children = Mapped(L, x.children) /\ y.accessory = Mapped(L, x.accessory)
    BY <1>1, <1>3, PaintWholeIs
  <1>a. IsMap(L, InnerComponents, InnerComponents)
    BY <1>1, <1>3, PaintInnerMap
  <1>6. KeptInners(x) \in Seq(InnerComponents)
    BY OfWholeIs
  <1>7. KeptInners(y) = Mapped(L, KeptInners(x))
    BY <1>1, <1>4, <1>5, KeptNormalInners DEF KeptInners
  <1>8. \A s \in Seq(InnerComponents) :
            Len(Mapped(L, s)) = Len(s) /\ (Mapped(L, s) = <<>> <=> s = <<>>)
    <2> SUFFICES ASSUME NEW s \in Seq(InnerComponents)
                 PROVE  Len(Mapped(L, s)) = Len(s) /\ (Mapped(L, s) = <<>> <=> s = <<>>)
      OBVIOUS
    <2>1. Mapped(L, s) \in Seq(InnerComponents) /\ Len(Mapped(L, s)) = Len(s)
      BY <1>a, MappedType
    <2>2. \A t \in Seq(InnerComponents) : t = <<>> <=> Len(t) = 0
      BY EmptySeq
    <2>3. QED
      BY <2>1, <2>2
  <1>9. y.accessory # <<>> /\ y.accessory[1].id = Verify
            <=> x.accessory # <<>> /\ x.accessory[1].id = Verify
    <2>1. y.accessory # <<>> <=> x.accessory # <<>>
      BY <1>4, <1>5, <1>8
    <2>2. ASSUME x.accessory # <<>>
          PROVE  y.accessory[1].id = x.accessory[1].id
      <3>1. 1 \in 1..Len(x.accessory)
        BY <1>4, <2>2, LenProperties
      <3>2. y.accessory[1] = L[x.accessory[1]] /\ x.accessory[1] \in InnerComponents
        BY <1>4, <1>5, <3>1, ElementOfSeq DEF Mapped
      <3>4. QED
        BY <1>1, <1>3, <3>2, PaintInnerIs
    <2>3. QED
      BY <2>1, <2>2
  <1>10. y.id = Verify \/ (y.children # <<>> /\ KeptInners(y) = <<>>)
            <=> x.id = Verify \/ (x.children # <<>> /\ KeptInners(x) = <<>>)
    BY <1>4, <1>5, <1>6, <1>7, <1>8
  <1>b. SameOn(N, L, InnerComponents)
    BY <1>1, <1>3, PaintsAgree DEF SameOn
  <1>11. TextOf(KeptInners(y)) = TextOf(KeptInners(x)) /\ TextOf(KeptInners(x)) \in Seq(Strings)
    <2>1. PICK s \in Seq(Components) : s = KeptInners(x)
      BY <1>6, Nesting
    <2>a. Mapped(N, s) = Mapped(L, s)
      BY <1>6, <1>b, <2>1, MappedSame
    <2>2. Painted(F, s) = Mapped(L, s)
      BY <1>1, <2>a DEF Painted
    <2>3. TextOf(Painted(F, s)) = TextOf(s) /\ TextOf(s) \in Seq(Strings)
      BY <1>3, PaintedText, TextOfIs
    <2>4. QED
      BY <1>7, <2>1, <2>2, <2>3
  <1>12. N[Text(TextOf(KeptInners(x)))] = Text(TextOf(KeptInners(x)))
    BY <1>1, <1>11, TextIsNormal
  <1>13. N[With(x, KeptInners(x))] = With(y, KeptInners(y))
    <2>1. PICK w \in Components :
              /\ w = With(x, KeptInners(x)) /\ w.children = KeptInners(x) /\ w.accessory = x.accessory
              /\ w.type = x.type /\ w.text = x.text /\ w.id = x.id /\ w.url = x.url
              /\ w.extra = x.extra /\ w.disabled = x.disabled
      BY <1>6, WithWhole
    <2>2. PICK v \in Components :
              /\ v = N[w] /\ v.type = w.type /\ v.text = w.text /\ v.id = w.id /\ v.url = w.url
              /\ v.children = Mapped(L, w.children) /\ v.accessory = Mapped(L, w.accessory)
      BY <1>1, <1>3, PaintWholeIs
    <2>4. v.extra = w.extra \ Dropped(w.type) /\ v.disabled = w.disabled
      BY <1>1, <2>2, NormalWholeFields
    <2>5. KeptInners(y) \in Seq(InnerComponents)
      BY OfWholeIs
    <2>6. PICK u \in Components :
              /\ u = With(y, KeptInners(y)) /\ u.children = KeptInners(y) /\ u.accessory = y.accessory
              /\ u.type = y.type /\ u.text = y.text /\ u.id = y.id /\ u.url = y.url
              /\ u.extra = y.extra /\ u.disabled = y.disabled
      BY <2>5, WithWhole
    <2>7. y.extra = x.extra \ Dropped(x.type) /\ y.disabled = x.disabled
      BY <1>1, <1>5, NormalWholeFields
    <2>9. u.children = v.children /\ u.accessory = v.accessory
      BY <1>5, <1>7, <2>1, <2>2, <2>6
    <2>10. /\ u.type = v.type /\ u.text = v.text /\ u.id = v.id /\ u.url = v.url
           /\ u.extra = v.extra /\ u.disabled = v.disabled
      BY <1>5, <2>1, <2>2, <2>4, <2>6, <2>7
    <2>11. u = v
      BY <2>9, <2>10, SameComponents
    <2>12. QED
      BY <2>1, <2>2, <2>6, <2>11
  <1>14. Clean(x) =
            IF x.id = Verify \/ (x.children # <<>> /\ KeptInners(x) = <<>>)
            THEN <<>>
            ELSE IF x.accessory # <<>> /\ x.accessory[1].id = Verify
                 THEN <<Text(TextOf(KeptInners(x)))>>
                 ELSE <<With(x, KeptInners(x))>>
    BY OfWholeIs
  <1>15. Clean(y) =
            IF y.id = Verify \/ (y.children # <<>> /\ KeptInners(y) = <<>>)
            THEN <<>>
            ELSE IF y.accessory # <<>> /\ y.accessory[1].id = Verify
                 THEN <<Text(TextOf(KeptInners(y)))>>
                 ELSE <<With(y, KeptInners(y))>>
    BY OfWholeIs
  <1>16. /\ Mapped(N, <<>>) = <<>>
         /\ Mapped(N, <<Text(TextOf(KeptInners(x)))>>) = <<Text(TextOf(KeptInners(y)))>>
         /\ Mapped(N, <<With(x, KeptInners(x))>>) = <<With(y, KeptInners(y))>>
    BY <1>11, <1>12, <1>13, MappedEmpty, MappedOne
  <1>17. Clean(y) = Mapped(N, Clean(x))
    <2>1. CASE x.id = Verify \/ (x.children # <<>> /\ KeptInners(x) = <<>>)
      BY <1>10, <1>14, <1>15, <1>16, <2>1
    <2>2. CASE ~(x.id = Verify \/ (x.children # <<>> /\ KeptInners(x) = <<>>))
      <3>1. CASE x.accessory # <<>> /\ x.accessory[1].id = Verify
        BY <1>9, <1>10, <1>14, <1>15, <1>16, <2>2, <3>1
      <3>2. CASE ~(x.accessory # <<>> /\ x.accessory[1].id = Verify)
        BY <1>9, <1>10, <1>14, <1>15, <1>16, <2>2, <3>2
      <3>3. QED
        BY <3>1, <3>2
    <2>3. QED
      BY <2>1, <2>2
  <1>18. QED
    BY <1>1, <1>5, <1>17

\* The row with the button is in normal form.
LEMMA RowIsNormal == PaintWhole(NormalPaint)[VerifyRow] = VerifyRow
  <1>1. PICK F : F = NormalPaint /\ IsPaint(F)
    BY NormalIsPaint
  <1>2. PICK b \in Leaves : b = Button(Verify) /\ b.extra = {}
    BY ButtonFields
  <1>3. F[b] = b
    <2>1. b \in Components
      BY Nesting
    <2>3. PICK y \in Components : y = F[b]
      BY <1>1, <2>1, NormalFields
    <2>4. /\ y.type = b.type /\ y.text = b.text /\ y.id = b.id /\ y.url = b.url
          /\ y.children = b.children /\ y.accessory = b.accessory
          /\ y.extra = b.extra \ Dropped(b.type) /\ y.disabled = b.disabled
      BY <1>1, <2>1, <2>3, NormalFields
    <2>5. y.extra = b.extra
      BY <1>2, <2>4
    <2>6. QED
      BY <2>1, <2>3, <2>4, <2>5, SameComponents
  <1>4. PICK r \in InnerComponents :
            /\ r = VerifyRow /\ r.children = <<b>> /\ r.accessory = <<>> /\ r.extra = {}
            /\ r \in Components
    BY <1>2, RowFields
  <1>5. Mapped(F, r.children) = r.children /\ Mapped(F, r.accessory) = r.accessory
    BY <1>3, <1>4, MappedOne, MappedEmpty
  <1>6. PICK y \in InnerComponents :
            /\ y = PaintInner(F)[r]
            /\ y.type = r.type /\ y.text = r.text /\ y.id = r.id /\ y.url = r.url
            /\ y.children = r.children /\ y.accessory = r.accessory
    BY <1>1, <1>5, PaintInnerIs
  <1>7. y.extra = r.extra \ Dropped(r.type) /\ y.disabled = r.disabled
    BY <1>1, <1>6, NormalInnerFields
  <1>8. y = r
    <2>1. y \in Components
      BY Nesting
    <2>2. y.extra = r.extra
      BY <1>4, <1>7
    <2>3. QED
      BY <1>4, <1>6, <1>7, <2>1, <2>2, SameComponents
  <1>9. PaintWhole(F)[r] = PaintInner(F)[r]
    BY <1>1, PaintsAgree
  <1>10. QED
    BY <1>1, <1>4, <1>6, <1>8, <1>9

\* The job's body in normal form is the one it makes of the normal form.
LEMMA NormalOfButton ==
    ASSUME NEW components \in Seq(Components)
    PROVE  Normal(WithVerificationButton(components))
               = WithVerificationButton(Normal(components))
  <1>1. PICK N : N = PaintWhole(NormalPaint)
    OBVIOUS
  <1>2. IsMap(N, Components, Components)
    BY <1>1, NormalIsPaint, PaintWholeMap
  <1>3. PICK g \in Seq(Components) : g = Gathered(OfWhole, components)
    BY WithVerificationButtonIs
  <1>4. PICK r \in Seq(Components) : r = <<VerifyRow>>
    BY WithVerificationButtonIs
  <1>5. \A s \in Seq(Components) : Normal(s) = Mapped(N, s) /\ Normal(s) \in Seq(Components)
    BY <1>1, NormalIs DEF Painted
  <1>6. WithVerificationButton(components) = g \o r /\ g \o r \in Seq(Components)
    BY <1>3, <1>4, WithVerificationButtonIs
  <1>7. Normal(WithVerificationButton(components)) = Mapped(N, g) \o Mapped(N, r)
    <2>1. PICK w \in Seq(Components) : w = WithVerificationButton(components) /\ w = g \o r
      BY <1>6
    <2>a. Distributes(N, Components)
      BY <1>2, MappedOfTwo
    <2>2. Mapped(N, g \o r) = Mapped(N, g) \o Mapped(N, r)
      BY <2>a DEF Distributes
    <2>3. Normal(w) = Mapped(N, w)
      BY <1>5
    <2>4. QED
      BY <2>1, <2>2, <2>3
  <1>8. Mapped(N, r) = r
    BY <1>1, <1>4, RowIsNormal, MappedOne
  <1>9. PICK Z : Z = [x \in Components |-> OfWhole[N[x]]]
    OBVIOUS
  <1>10. \A x \in Components : N[x] \in Components
    BY <1>2 DEF IsMap
  <1>11. IsMap(Z, Components, Seq(Components))
    <2>1. \A x \in Components : OfWhole[N[x]] \in Seq(Components)
      BY <1>10, OfWholeMap DEF IsMap
    <2>2. QED
      BY <1>9, <2>1 DEF IsMap
  <1>12. Follows(Z, OfWhole, N, Components)
    BY <1>9 DEF Follows
  <1>13. Maps(Z, N, OfWhole, Components)
    <2>1. ASSUME NEW x \in Components
          PROVE  Z[x] = Mapped(N, OfWhole[x])
      <3>1. Clean(N[x]) = Mapped(N, Clean(x))
        BY <1>1, CleanNormalWhole
      <3>2. QED
        BY <1>9, <1>10, <3>1 DEF OfWhole
    <2>2. QED
      BY <2>1 DEF Maps
  <1>14. Gathered(OfWhole, Mapped(N, components)) = Gathered(Z, components)
    BY <1>2, <1>12, GatheredOfMapped
  <1>15. Mapped(N, g) = Gathered(Z, components)
    BY <1>2, <1>3, <1>11, <1>13, OfWholeMap, MappedOfGathered
  <1>16. WithVerificationButton(Normal(components)) = Gathered(OfWhole, Normal(components)) \o r
    BY <1>4, <1>5, WithVerificationButtonIs
  <1>17. QED
    BY <1>5, <1>7, <1>8, <1>14, <1>15, <1>16

-----------------------------------------------------------------------------
(* What is clean stays as it is when it is cleaned again.                   *)

LEMMA CleanInnerAgain == IsIdentity(OfInner, CleanInners)
  <1> SUFFICES ASSUME NEW x \in CleanInners
               PROVE  OfInner[x] = <<x>>
    BY DEF IsIdentity
  <1>1. /\ x \in InnerComponents /\ x.id # Verify
        /\ x.children \in Seq(CleanLeaves) /\ x.accessory \in Seq(CleanLeaves)
    BY DEF CleanInners
  <1>2. IsIdentity(OfLeaf, CleanLeaves)
    <2>1. ASSUME NEW l \in CleanLeaves
          PROVE  OfLeaf[l] = <<l>>
      <3>1. l \in Leaves /\ l.id # Verify
        BY DEF CleanLeaves
      <3>2. QED
        BY <3>1, OfLeafIs DEF OfLeaf
    <2>2. QED
      BY <2>1 DEF IsIdentity
  <1>3. KeptLeaves(x) = x.children
    BY <1>1, <1>2, GatheredItself DEF KeptLeaves
  <1>4. ~(x.accessory # <<>> /\ x.accessory[1].id = Verify)
    <2>1. ASSUME x.accessory # <<>>
          PROVE  x.accessory[1].id # Verify
      <3>1. 1 \in 1..Len(x.accessory)
        BY <1>1, <2>1, LenProperties
      <3>2. x.accessory[1] \in CleanLeaves
        BY <1>1, <3>1, ElementOfSeq
      <3>3. QED
        BY <3>2 DEF CleanLeaves
    <2>2. QED
      BY <2>1
  <1>5. CleanInner(x) = <<With(x, x.children)>>
    BY <1>1, <1>3, <1>4, OfInnerIs
  <1>6. With(x, x.children) = x
    BY <1>1, Nesting, WithItself
  <1>7. QED
    BY <1>1, <1>5, <1>6 DEF OfInner

LEMMA CleanAgain == IsIdentity(OfWhole, CleanComponents)
  <1> SUFFICES ASSUME NEW x \in CleanComponents
               PROVE  OfWhole[x] = <<x>>
    BY DEF IsIdentity
  <1>1. /\ x \in Components /\ x.id # Verify
        /\ x.children \in Seq(CleanInners) /\ x.accessory \in Seq(CleanAccessories)
    BY DEF CleanComponents
  <1>3. KeptInners(x) = x.children
    BY <1>1, CleanInnerAgain, GatheredItself DEF KeptInners
  <1>4. ~(x.accessory # <<>> /\ x.accessory[1].id = Verify)
    <2>1. ASSUME x.accessory # <<>>
          PROVE  x.accessory[1].id # Verify
      <3>1. 1 \in 1..Len(x.accessory)
        BY <1>1, <2>1, LenProperties
      <3>2. x.accessory[1] \in CleanAccessories
        BY <1>1, <3>1, ElementOfSeq
      <3>3. QED
        BY <3>2 DEF CleanAccessories
    <2>2. QED
      BY <2>1
  <1>5. Clean(x) = <<With(x, x.children)>>
    BY <1>1, <1>3, <1>4, OfWholeIs
  <1>6. With(x, x.children) = x
    BY <1>1, WithItself
  <1>7. QED
    BY <1>1, <1>5, <1>6 DEF OfWhole

\* Nothing is left of the row with the button.
LEMMA RowIsCleaned == Clean(VerifyRow) = <<>>
  <1>1. PICK b \in Leaves : b = Button(Verify) /\ b.id = Verify
    BY ButtonFields
  <1>2. b \in InnerComponents
    BY Nesting
  <1>3. CleanInner(b) = <<>>
    BY <1>1, <1>2, OfInnerIs
  <1>4. PICK r \in Components : r = VerifyRow /\ r.children = <<b>>
    BY <1>1, RowFields
  <1>5. KeptInners(r) = <<>>
    <2>1. Gathered(OfInner, <<b>>) = OfInner[b]
      BY <1>2, OfInnerMap, GatheredOne
    <2>2. QED
      BY <1>2, <1>3, <1>4, <2>1 DEF KeptInners, OfInner
  <1>6. r.children # <<>>
    BY <1>4
  <1>7. Clean(r) = <<>>
    BY <1>5, <1>6, OfWholeIs
  <1>8. QED
    BY <1>4, <1>7

\* A second pass of the job changes nothing.
LEMMA ButtonTwice ==
    ASSUME NEW components \in Seq(Components)
    PROVE  WithVerificationButton(WithVerificationButton(components))
               = WithVerificationButton(components)
  <1>1. PICK g \in Seq(CleanComponents) :
            g = Gathered(OfWhole, components) /\ g \in Seq(Components)
    BY WithVerificationButtonIs
  <1>2. PICK r \in Seq(Components) : r = <<VerifyRow>>
    BY WithVerificationButtonIs
  <1>3. PICK w \in Seq(Components) : w = WithVerificationButton(components) /\ w = g \o r
    BY <1>1, <1>2, WithVerificationButtonIs
  <1>4. Gathered(OfWhole, g) = g
    BY <1>1, CleanAgain, GatheredItself
  <1>5. Gathered(OfWhole, r) = <<>>
    <2>1. PICK v \in Components : v = VerifyRow
      BY RowFields
    <2>2. Gathered(OfWhole, <<v>>) = OfWhole[v]
      BY OfWholeMap, GatheredOne
    <2>3. OfWhole[v] = <<>>
      BY <2>1, RowIsCleaned DEF OfWhole
    <2>4. QED
      BY <1>2, <2>1, <2>2, <2>3
  <1>6. Gathered(OfWhole, g \o r) = g \o <<>>
    <2>0. g \in Seq(Components)
      BY <1>1
    <2>1. Gathered(OfWhole, g \o r) = Gathered(OfWhole, g) \o Gathered(OfWhole, r)
      BY <2>0, OfWholeMap, GatheredConcat
    <2>2. QED
      BY <1>4, <1>5, <2>1
  <1>7. g \o <<>> = g
    BY <1>1
  <1>8. WithVerificationButton(w) = Gathered(OfWhole, w) \o r
    BY <1>2, WithVerificationButtonIs
  <1>9. QED
    BY <1>3, <1>6, <1>7, <1>8

-----------------------------------------------------------------------------
(* Conversion makes components.                                            *)

LEMMA PictureFields ==
    ASSUME NEW url \in Strings
    PROVE  /\ LET g == Gallery(url) IN
              /\ g \in Leaves /\ g.type = "gallery" /\ g.text = <<>> /\ g.id = NoId
              /\ g.url = url /\ g.extra = {} /\ g.children = <<>> /\ g.accessory = <<>>
           /\ LET t == Thumbnail(url) IN
              /\ t \in Leaves /\ t.type = "thumbnail" /\ t.text = <<>> /\ t.id = NoId
              /\ t.url = url /\ t.extra = {} /\ t.children = <<>> /\ t.accessory = <<>>
  <1>1. ASSUME NEW type \in Types
        PROVE  LET g == [Bare(type) EXCEPT !.url = url] IN
               /\ g \in Leaves /\ g.type = type /\ g.text = <<>> /\ g.id = NoId
               /\ g.url = url /\ g.extra = {} /\ g.children = <<>> /\ g.accessory = <<>>
    <2>1. PICK b \in Leaves :
              /\ b = Bare(type)
              /\ b.type = type /\ b.text = <<>> /\ b.id = NoId /\ b.url = NoUrl
              /\ b.extra = {} /\ b.children = <<>> /\ b.accessory = <<>>
      BY BareFields
    <2>2. [b EXCEPT !.url = url] \in Leaves
      BY DEF Leaves, Shape
    <2>3. LET g == [b EXCEPT !.url = url] IN
          /\ g.type = type /\ g.text = <<>> /\ g.id = NoId
          /\ g.url = url /\ g.extra = {} /\ g.children = <<>> /\ g.accessory = <<>>
      BY <2>1 DEF Leaves, Shape
    <2>4. QED
      BY <2>1, <2>2, <2>3
  <1>2. "gallery" \in Types /\ "thumbnail" \in Types
    BY DEF Types
  <1>3. QED
    BY <1>1, <1>2 DEF Gallery, Thumbnail

LEMMA ContainerFields ==
    ASSUME NEW items \in Seq(InnerComponents)
    PROVE  LET c == Container(items) IN
           /\ c \in Components /\ c.type = "container" /\ c.text = <<>> /\ c.id = NoId
           /\ c.url = NoUrl /\ c.extra = {} /\ c.children = items /\ c.accessory = <<>>
  <1>1. "container" \in Types
    BY DEF Types
  <1>2. PICK b \in Leaves :
            /\ b = Bare("container")
            /\ b.type = "container" /\ b.text = <<>> /\ b.id = NoId /\ b.url = NoUrl
            /\ b.extra = {} /\ b.children = <<>> /\ b.accessory = <<>>
    BY <1>1, BareFields
  <1>3. b \in Components
    BY Nesting
  <1>4. Container(items) = With(b, items)
    BY <1>2 DEF Container, With
  <1>5. QED
    BY <1>2, <1>3, <1>4, WithWhole

LEMMA SectionFields ==
    ASSUME NEW texts \in Seq(Leaves), NEW leaf \in Leaves
    PROVE  LET c == Section(texts, leaf) IN
           /\ c \in InnerComponents /\ c.type = "section" /\ c.text = <<>> /\ c.id = NoId
           /\ c.url = NoUrl /\ c.extra = {} /\ c.children = texts /\ c.accessory = <<leaf>>
  <1>1. "section" \in Types
    BY DEF Types
  <1>2. PICK b \in Leaves :
            /\ b = Bare("section")
            /\ b.type = "section" /\ b.text = <<>> /\ b.id = NoId /\ b.url = NoUrl
            /\ b.extra = {} /\ b.children = <<>> /\ b.accessory = <<>>
    BY <1>1, BareFields
  <1>3. b \in InnerComponents
    BY Nesting
  <1>4. Section(texts, leaf) = Over(b, texts, <<leaf>>)
    BY <1>2 DEF Section, Over
  <1>a. <<leaf>> \in Seq(Leaves) /\ Len(<<leaf>>) <= 1
    OBVIOUS
  <1>5. PICK a \in Seq(Leaves) : a = <<leaf>> /\ Len(a) <= 1
    BY <1>a
  <1>c. Len(a) <= 1
    BY <1>5
  <1>6. PICK y \in InnerComponents :
            /\ y = Over(b, texts, a) /\ y.children = texts /\ y.accessory = a
            /\ y.type = b.type /\ y.text = b.text /\ y.id = b.id /\ y.url = b.url
            /\ y.extra = b.extra
    BY <1>3, <1>c, OverInner
  <1>7. QED
    BY <1>2, <1>4, <1>5, <1>6

\* The texts that are not blank.
NotBlank == [t \in Seq(Strings) |-> IF ~Blank(t) THEN <<t>> ELSE <<>>]

AsText == [t \in Seq(Strings) |-> Text(t)]

LEMMA NotBlankMap == IsMap(NotBlank, Seq(Strings), Seq(Seq(Strings)))
  BY DEF IsMap, NotBlank

LEMMA AsTextMap == IsMap(AsText, Seq(Strings), Leaves)
  BY TextFields DEF IsMap, AsText

LEMMA TextsAre ==
    ASSUME NEW embed \in Embeds
    PROVE  LET three == <<embed.header, embed.description, embed.fields>> IN
           /\ three \in Seq(Seq(Strings))
           /\ Texts(embed) = Gathered(NotBlank, three)
           /\ Texts(embed) \in Seq(Seq(Strings))
           /\ [i \in DOMAIN Texts(embed) |-> Text(Texts(embed)[i])] = Mapped(AsText, Texts(embed))
           /\ Mapped(AsText, Texts(embed)) \in Seq(Leaves)
  <1>a. PICK a, b, c \in Seq(Strings) :
            a = embed.header /\ b = embed.description /\ c = embed.fields
    BY DEF Embeds
  <1>b. <<a, b, c>> \in Seq(Seq(Strings))
    OBVIOUS
  <1>1. PICK s \in Seq(Seq(Strings)) : s = <<embed.header, embed.description, embed.fields>>
    BY <1>a, <1>b
  <1>2. DOMAIN s = 1..Len(s) /\ \A i \in 1..Len(s) : s[i] \in Seq(Strings)
    BY Domains, ElementOfSeq
  <1>3. [i \in DOMAIN s |-> IF ~Blank(s[i]) THEN <<s[i]>> ELSE <<>>] = Mapped(NotBlank, s)
    BY <1>2 DEF Mapped, NotBlank
  <1>4. Texts(embed) = Gathered(NotBlank, s)
    BY <1>1, <1>3 DEF Texts, Filtered, Gathered
  <1>5. PICK t \in Seq(Seq(Strings)) : t = Texts(embed)
    BY <1>4, NotBlankMap, GatheredType
  <1>6. DOMAIN t = 1..Len(t) /\ \A i \in 1..Len(t) : t[i] \in Seq(Strings)
    BY Domains, ElementOfSeq
  <1>7. [i \in DOMAIN t |-> Text(t[i])] = Mapped(AsText, t)
    BY <1>6 DEF Mapped, AsText
  <1>8. Mapped(AsText, t) \in Seq(Leaves)
    BY AsTextMap, MappedType
  <1>9. QED
    BY <1>1, <1>4, <1>5, <1>7, <1>8

LEMMA ChildrenType ==
    ASSUME NEW embed \in Embeds
    PROVE  Children(embed) \in Seq(InnerComponents)
  <1>1. PICK texts \in Seq(Leaves) :
            texts = [i \in DOMAIN Texts(embed) |-> Text(Texts(embed)[i])]
    BY TextsAre
  <1>2. embed.thumbnail \in Strings /\ embed.image \in Strings /\ embed.footer \in Seq(Strings)
    BY DEF Embeds
  <1>3. \A url \in Strings : Pictures(url) \in Seq(Leaves)
    BY PictureFields DEF Pictures
  <1>4. PICK first \in Seq(InnerComponents) :
            first = IF embed.thumbnail # NoUrl /\ texts # <<>>
                    THEN <<Section(texts, Thumbnail(embed.thumbnail))>>
                    ELSE texts \o Pictures(embed.thumbnail)
    <2>1. PICK s \in InnerComponents : s = Section(texts, Thumbnail(embed.thumbnail))
      BY <1>2, PictureFields, SectionFields
    <2>2. <<s>> \in Seq(InnerComponents)
      OBVIOUS
    <2>3. texts \o Pictures(embed.thumbnail) \in Seq(Leaves)
      BY <1>2, <1>3
    <2>4. texts \o Pictures(embed.thumbnail) \in Seq(InnerComponents)
      BY <2>3, Nesting
    <2>5. QED
      BY <2>1, <2>2, <2>4
  <1>5. PICK second \in Seq(InnerComponents) : second = Pictures(embed.image)
    BY <1>2, <1>3, Nesting
  <1>6. PICK third \in Seq(InnerComponents) :
            third = IF Blank(embed.footer) THEN <<>> ELSE <<Text(embed.footer)>>
    <2>1. PICK s \in InnerComponents : s = Text(embed.footer)
      BY <1>2, TextFields
    <2>2. <<s>> \in Seq(InnerComponents) /\ <<>> \in Seq(InnerComponents)
      OBVIOUS
    <2>3. QED
      BY <2>1, <2>2
  <1>7. Children(embed) = first \o second \o third
    BY <1>1, <1>4, <1>5, <1>6 DEF Children
  <1>8. QED
    BY <1>7

OfEmbed == [e \in Embeds |-> ConvertEmbed(e)]

LEMMA OfEmbedMap == IsMap(OfEmbed, Embeds, Seq(Components))
  <1>1. ASSUME NEW e \in Embeds
        PROVE  ConvertEmbed(e) \in Seq(Components)
    <2>1. PICK c \in Components : c = Container(Children(e))
      BY ChildrenType, ContainerFields
    <2>2. <<c>> \in Seq(Components) /\ <<>> \in Seq(Components)
      OBVIOUS
    <2>3. QED
      BY <2>1, <2>2 DEF ConvertEmbed
  <1>2. QED
    BY <1>1 DEF IsMap, OfEmbed

\* The content as a text.
AsContent(content) == IF Blank(content) THEN <<>> ELSE <<Text(content)>>

LEMMA ConvertIs ==
    ASSUME NEW body \in ClassicBodies
    PROVE  /\ Convert(body) = AsContent(body.content) \o Gathered(OfEmbed, body.embeds)
                                 \o body.components
           /\ AsContent(body.content) \in Seq(Components)
           /\ body.embeds \in Seq(Embeds)
           /\ Gathered(OfEmbed, body.embeds) \in Seq(Components)
           /\ body.components \in Seq(Components)
           /\ Convert(body) \in Seq(Components)
  <1>1. /\ body.content \in Seq(Strings) /\ body.embeds \in Seq(Embeds)
        /\ body.components \in Seq(Components)
    BY DEF ClassicBodies
  <1>2. PICK a \in Seq(Components) : a = AsContent(body.content)
    <2>1. PICK c \in Components : c = Text(body.content)
      BY <1>1, TextFields
    <2>2. <<c>> \in Seq(Components) /\ <<>> \in Seq(Components)
      OBVIOUS
    <2>3. QED
      BY <2>1, <2>2 DEF AsContent
  <1>3. PICK s \in Seq(Embeds) : s = body.embeds
    BY <1>1
  <1>4. PICK g \in Seq(Components) : g = Gathered(OfEmbed, s)
    BY OfEmbedMap, GatheredType
  <1>5. DOMAIN s = 1..Len(s) /\ \A i \in 1..Len(s) : s[i] \in Embeds
    BY Domains, ElementOfSeq
  <1>6. [i \in DOMAIN s |-> ConvertEmbed(s[i])] = Mapped(OfEmbed, s)
    BY <1>5 DEF Mapped, OfEmbed
  <1>7. Convert(body) = a \o g \o body.components
    BY <1>2, <1>3, <1>4, <1>6 DEF Convert, AsContent, Gathered
  <1>8. a \o g \o body.components \in Seq(Components)
    BY <1>1
  <1>9. QED
    BY <1>1, <1>2, <1>3, <1>4, <1>7, <1>8

LEMMA ParsedType ==
    ASSUME NEW body \in ComponentBodies \union ClassicBodies
    PROVE  Parsed(body) \in Seq(Components)
  <1>1. CASE body \in ComponentBodies
    BY <1>1 DEF ComponentBodies, Parsed
  <1>2. CASE body \in ClassicBodies
    BY <1>2, ConvertIs DEF ClassicBodies, Parsed
  <1>3. QED
    BY <1>1, <1>2

-----------------------------------------------------------------------------
(* What valid components are made of.                                      *)

ValidTexts == {x \in Leaves : ValidText(x)}
ValidButtons == {x \in Leaves : ValidButton(x)}
ValidItems == {x \in InnerComponents : ValidItem(x)}
ValidComponents == {x \in Components : ValidComponent(x)}

\* Valid items without a part, rows and sections.
PlainItem(x) ==
    /\ x \in Leaves /\ x.id = NoId
    /\ \/ ValidText(x)
       \/ x.type \in {"gallery", "separator"} /\ x.text = <<>>

RowItem(x) ==
    /\ x.type = "row" /\ x.text = <<>> /\ x.id = NoId /\ x.accessory = <<>>
    /\ Is(x, "row")
    /\ x.children \in Seq(ValidButtons) /\ Len(x.children) \in 1..5

SectionItem(x) ==
    /\ x.type = "section" /\ x.text = <<>> /\ x.id = NoId
    /\ x.children \in Seq(ValidTexts) /\ Len(x.children) \in 1..3
    /\ x.accessory \in Seq(Leaves) /\ Len(x.accessory) = 1
    /\ ValidAccessory(x.accessory[1]) /\ x.accessory[1] \in Leaves

\* A component with neither children nor accessory is a leaf.
LEMMA LeafShape ==
    ASSUME NEW x \in Components
    PROVE  /\ ValidText(x) => x \in ValidTexts /\ x.id = NoId /\ x.type = "text"
           /\ ValidButton(x) => x \in ValidButtons /\ x.text = <<>> /\ x.type = "button"
           /\ ValidAccessory(x) => x \in Leaves /\ x.text = <<>>
           /\ Is(x, "gallery") \/ Is(x, "separator") => x \in Leaves /\ x.id = NoId /\ x.text = <<>>
  <1>1. \A type \in {"text", "button", "gallery", "separator", "thumbnail"} :
            Is(x, type) => x.children = <<>> /\ x.accessory = <<>>
    BY DEF Is
  <1>2. x.children = <<>> /\ x.accessory = <<>> => x \in Leaves
    BY Depth
  <1>3. ValidText(x) => Is(x, "text")
    BY DEF ValidText
  <1>4. ValidButton(x) => Is(x, "button")
    BY DEF ValidButton
  <1>5. ValidAccessory(x) => Is(x, "button") \/ Is(x, "thumbnail")
    BY <1>4 DEF ValidAccessory
  <1>6. \A type : Is(x, type) => /\ x.type = type /\ (x.text # <<>> => type = "text")
                                 /\ (x.id # NoId => type = "button")
    BY DEF Is
  <1>7. QED
    BY <1>1, <1>2, <1>3, <1>4, <1>5, <1>6 DEF ValidTexts, ValidButtons

LEMMA ItemShape ==
    ASSUME NEW x \in Components, ValidItem(x)
    PROVE  x \in ValidItems /\ (PlainItem(x) \/ RowItem(x) \/ SectionItem(x))
  <1>0. /\ x.children \in Seq(InnerComponents) /\ DOMAIN x.children = 1..Len(x.children)
        /\ \A i \in 1..Len(x.children) : x.children[i] \in InnerComponents
        /\ \A i \in 1..Len(x.children) : x.children[i] \in Components
    BY PartTypes, Domains, ElementOfSeq, Nesting
  <1>1. CASE ValidText(x) \/ Is(x, "gallery") \/ Is(x, "separator")
    <2>1. x \in Leaves /\ x.id = NoId
      BY <1>1, LeafShape DEF ValidTexts
    <2>2. PlainItem(x)
      BY <1>1, <2>1, LeafShape DEF PlainItem, Is
    <2>3. QED
      BY <2>1, <2>2, Nesting DEF ValidItems
  <1>2. CASE ValidRow(x)
    <2>1. x.type = "row" /\ x.text = <<>> /\ x.id = NoId /\ x.accessory = <<>>
      BY <1>2 DEF ValidRow, Is
    <2>2. \A i \in 1..Len(x.children) : x.children[i] \in ValidButtons
      BY <1>0, <1>2, LeafShape DEF ValidRow
    <2>3. x.children \in Seq(ValidButtons)
      BY <1>0, <2>2, AllIn
    <2>4. RowItem(x)
      BY <1>2, <2>1, <2>3 DEF RowItem, ValidRow
    <2>5. x.children \in Seq(Leaves) /\ x.accessory \in Seq(Leaves)
      <3>1. ValidButtons \subseteq Leaves
        BY DEF ValidButtons
      <3>2. <<>> \in Seq(Leaves)
        OBVIOUS
      <3>3. QED
        BY <2>1, <2>3, <3>1, <3>2, LargerSeq
    <2>6. x \in InnerComponents
      BY <2>5, Depth
    <2>7. QED
      BY <2>4, <2>6 DEF ValidItems
  <1>3. CASE ValidSection(x)
    <2>1. x.type = "section" /\ x.text = <<>> /\ x.id = NoId
      BY <1>3 DEF ValidSection, Is
    <2>2. \A i \in 1..Len(x.children) : x.children[i] \in ValidTexts
      BY <1>0, <1>3, LeafShape DEF ValidSection
    <2>3. x.children \in Seq(ValidTexts)
      BY <1>0, <2>2, AllIn
    <2>4. x.accessory # <<>> /\ x.accessory \in Seq(InnerComponents) /\ Len(x.accessory) = 1
      <3>1. x.accessory # <<>> /\ x.accessory \in Seq(InnerComponents)
        BY <1>3, PartTypes DEF ValidSection
      <3>2. Len(x.accessory) <= 1 /\ Len(x.accessory) \in Nat
        BY FewAccessories
      <3>3. Len(x.accessory) # 0
        BY <3>1, EmptySeq
      <3>4. Len(x.accessory) = 1
        <4>1. PICK n \in Nat : n = Len(x.accessory)
          BY <3>2
        <4>2. n <= 1 /\ n # 0
          BY <3>2, <3>3, <4>1
        <4>3. n = 1
          BY <4>2
        <4>4. QED
          BY <4>1, <4>3
      <3>5. QED
        BY <3>1, <3>4
    <2>5. x.accessory[1] \in Components
      <3>1. 1 \in 1..Len(x.accessory)
        BY <2>4
      <3>2. x.accessory[1] \in InnerComponents
        BY <2>4, <3>1, ElementOfSeq
      <3>3. QED
        BY <3>2, Nesting
    <2>6. ValidAccessory(x.accessory[1]) /\ x.accessory[1] \in Leaves
      BY <1>3, <2>5, LeafShape DEF ValidSection
    <2>7. x.accessory \in Seq(Leaves)
      <3>1. \A i \in 1..Len(x.accessory) : x.accessory[i] \in Leaves
        BY <2>4, <2>6
      <3>2. QED
        BY <2>4, <3>1, AllIn
    <2>8. SectionItem(x)
      BY <1>3, <2>1, <2>3, <2>4, <2>6, <2>7 DEF SectionItem, ValidSection
    <2>9. x.children \in Seq(Leaves)
      <3>1. ValidTexts \subseteq Leaves
        BY DEF ValidTexts
      <3>2. QED
        BY <2>3, <3>1, LargerSeq
    <2>10. x \in InnerComponents
      BY <2>7, <2>9, Depth
    <2>11. QED
      BY <2>8, <2>10 DEF ValidItems
  <1>4. QED
    BY <1>1, <1>2, <1>3 DEF ValidItem

\* Those that are no items are containers of items.
LEMMA ComponentShape ==
    ASSUME NEW x \in Components, ValidComponent(x)
    PROVE  \/ x \in ValidItems
           \/ /\ x.type = "container" /\ x.text = <<>> /\ x.id = NoId /\ x.accessory = <<>>
              /\ x.children \in Seq(ValidItems) /\ x.children # <<>>
              /\ Is(x, "container")
  <1>1. CASE ValidItem(x)
    BY <1>1, ItemShape
  <1>2. CASE /\ Is(x, "container")
             /\ x.children # <<>>
             /\ \A i \in DOMAIN x.children : ValidItem(x.children[i])
    <2>1. /\ x.children \in Seq(InnerComponents) /\ DOMAIN x.children = 1..Len(x.children)
          /\ \A i \in 1..Len(x.children) : x.children[i] \in InnerComponents
      BY PartTypes, Domains, ElementOfSeq
    <2>2. \A i \in 1..Len(x.children) : x.children[i] \in ValidItems
      BY <1>2, <2>1 DEF ValidItems
    <2>3. x.children \in Seq(ValidItems)
      BY <2>1, <2>2, AllIn
    <2>4. QED
      BY <1>2, <2>3 DEF Is
  <1>3. QED
    BY <1>1, <1>2 DEF ValidComponent

-----------------------------------------------------------------------------
(* What cleaning makes of valid components.                                *)

\* On a component that is less deep it is the same.
LEMMA CleansAgree ==
    /\ \A x \in Leaves : CleanInner(x) = CleanLeaf(x)
    /\ \A x \in InnerComponents : Clean(x) = CleanInner(x)
  <1>1. ASSUME NEW x \in Leaves
        PROVE  CleanInner(x) = CleanLeaf(x)
    <2>1. x.children = <<>> /\ x.accessory = <<>> /\ x \in InnerComponents /\ x \in Components
      BY PartTypes, Nesting
    <2>2. KeptLeaves(x) = <<>>
      BY <2>1, GatheredEmpty DEF KeptLeaves
    <2>3. With(x, KeptLeaves(x)) = x
      BY <2>1, <2>2, WithItself
    <2>4. CleanInner(x) = IF x.id = Verify THEN <<>> ELSE <<x>>
      BY <2>1, <2>3, OfInnerIs
    <2>5. QED
      BY <2>4, OfLeafIs
  <1>2. SameOn(OfInner, OfLeaf, Leaves)
    BY <1>1, Nesting DEF SameOn, OfInner, OfLeaf
  <1>3. ASSUME NEW x \in InnerComponents
        PROVE  Clean(x) = CleanInner(x)
    <2>1. x.children \in Seq(Leaves) /\ x \in Components
      BY PartTypes, Nesting
    <2>2. KeptInners(x) = KeptLeaves(x)
      BY <1>2, <2>1, MappedSame DEF KeptInners, KeptLeaves
    <2>3. Clean(x) =
            IF x.id = Verify \/ (x.children # <<>> /\ KeptLeaves(x) = <<>>)
            THEN <<>>
            ELSE IF x.accessory # <<>> /\ x.accessory[1].id = Verify
                 THEN <<Text(TextOf(KeptLeaves(x)))>>
                 ELSE <<With(x, KeptLeaves(x))>>
      BY <2>1, <2>2, OfWholeIs
    <2>4. QED
      BY <2>3, OfInnerIs
  <1>4. QED
    BY <1>1, <1>3

LEMMA CleanPlain ==
    ASSUME NEW x \in InnerComponents, PlainItem(x)
    PROVE  CleanInner(x) = <<x>>
  <1>1. x \in Leaves /\ x.id # Verify
    BY DEF PlainItem, NoId, Verify
  <1>2. QED
    BY <1>1, CleansAgree, OfLeafIs

LEMMA CleanRow ==
    ASSUME NEW x \in InnerComponents, RowItem(x)
    PROVE  /\ KeptLeaves(x) \in Seq(ValidButtons)
           /\ Len(KeptLeaves(x)) \in 0..5
           /\ CleanInner(x) = IF KeptLeaves(x) = <<>> THEN <<>> ELSE <<With(x, KeptLeaves(x))>>
  <1>1. /\ x.children \in Seq(ValidButtons) /\ Len(x.children) \in 1..5
        /\ x.id # Verify /\ x.accessory = <<>>
    BY DEF RowItem, NoId, Verify
  <1>2. Gives(OfLeaf, ValidButtons, ValidButtons)
    <2>1. ASSUME NEW l \in ValidButtons
          PROVE  OfLeaf[l] \in Seq(ValidButtons)
      <3>1. l \in Leaves
        BY DEF ValidButtons
      <3>2. OfLeaf[l] = IF l.id = Verify THEN <<>> ELSE <<l>>
        BY <3>1, OfLeafIs DEF OfLeaf
      <3>3. <<l>> \in Seq(ValidButtons) /\ <<>> \in Seq(ValidButtons)
        OBVIOUS
      <3>4. QED
        BY <3>2, <3>3
    <2>2. QED
      BY <2>1 DEF Gives
  <1>3. KeptLeaves(x) \in Seq(ValidButtons)
    BY <1>1, <1>2, GatheredInto DEF KeptLeaves
  <1>4. PICK s \in Seq(Leaves) : s = x.children
    BY PartTypes
  <1>5. PICK One : One = [l \in Leaves |-> <<l>>]
    OBVIOUS
  <1>6. IsMap(One, Leaves, Seq(Leaves))
    BY <1>5 DEF IsMap
  <1>7. GivesLess(OfLeaf, One, Leaves)
    <2>1. ASSUME NEW l \in Leaves
          PROVE  Len(OfLeaf[l]) <= Len(One[l])
      <3>1. OfLeaf[l] = IF l.id = Verify THEN <<>> ELSE <<l>>
        BY OfLeafIs DEF OfLeaf
      <3>2. Len(<<l>>) = 1 /\ Len(<<>>) = 0 /\ One[l] = <<l>>
        BY <1>5
      <3>3. QED
        BY <3>1, <3>2
    <2>2. QED
      BY <2>1 DEF GivesLess
  <1>8. Len(Gathered(OfLeaf, s)) <= Len(Gathered(One, s))
    BY <1>6, <1>7, OfLeafMap, GatheredLess
  <1>9. Gathered(One, s) = s
    <2>1. IsIdentity(One, Leaves)
      BY <1>5 DEF IsIdentity
    <2>2. QED
      BY <2>1, GatheredItself
  <1>10. Len(KeptLeaves(x)) \in 0..5
    <2>1. PICK n, m \in Nat : n = Len(KeptLeaves(x)) /\ m = Len(x.children)
      BY <1>1, <1>3, LenProperties
    <2>2. n <= m
      BY <1>4, <1>8, <1>9, <2>1 DEF KeptLeaves
    <2>a. m \in 1..5
      BY <1>1, <2>1
    <2>3. n \in 0..5
      BY <2>2, <2>a
    <2>4. QED
      BY <2>1, <2>3
  <1>11. x.children # <<>>
    <2>1. PICK m \in 1..5 : m = Len(x.children)
      BY <1>1
    <2>2. m # 0
      OBVIOUS
    <2>3. QED
      BY <2>1, <2>2
  <1>12. QED
    BY <1>1, <1>3, <1>10, <1>11, OfInnerIs

LEMMA CleanSection ==
    ASSUME NEW x \in InnerComponents, SectionItem(x)
    PROVE  /\ KeptLeaves(x) = x.children
           /\ CleanInner(x) = IF x.accessory[1].id = Verify
                              THEN <<Text(TextOf(x.children))>>
                              ELSE <<x>>
  <1>1. /\ x.children \in Seq(ValidTexts) /\ Len(x.children) \in 1..3
        /\ x.id # Verify /\ Len(x.accessory) = 1 /\ x.accessory \in Seq(Leaves)
    BY DEF SectionItem, NoId, Verify
  <1>2. IsIdentity(OfLeaf, ValidTexts)
    <2>1. ASSUME NEW l \in ValidTexts
          PROVE  OfLeaf[l] = <<l>>
      <3>1. l \in Leaves /\ ValidText(l) /\ l \in Components
        BY Nesting DEF ValidTexts
      <3>2. l.id # Verify
        BY <3>1, LeafShape DEF NoId, Verify
      <3>3. QED
        BY <3>1, <3>2, OfLeafIs DEF OfLeaf
    <2>2. QED
      BY <2>1 DEF IsIdentity
  <1>3. KeptLeaves(x) = x.children
    BY <1>1, <1>2, GatheredItself DEF KeptLeaves
  <1>4. x.children # <<>> /\ x.accessory # <<>>
    BY <1>1, EmptySeq
  <1>5. With(x, x.children) = x
    BY Nesting, WithItself
  <1>6. QED
    BY <1>1, <1>3, <1>4, <1>5, OfInnerIs

-----------------------------------------------------------------------------
(* What a reader finds in valid components stays when they are cleaned.     *)

\* On a component that is less deep they are the same.
LEMMA ReadsAgree ==
    ASSUME NEW X, NEW W, IsMap(W, Components, Seq(X))
    PROVE  /\ \A x \in Leaves : ReadInner(W)[x] = W[x]
           /\ \A x \in InnerComponents : ReadWhole(W)[x] = ReadInner(W)[x]
  <1>1. ASSUME NEW x \in Leaves
        PROVE  ReadInner(W)[x] = W[x]
    <2>1. x.children = <<>> /\ x.accessory = <<>> /\ x \in InnerComponents /\ x \in Components
      BY PartTypes, Nesting
    <2>2. PICK w \in Seq(X) : w = W[x]
      BY <2>1 DEF IsMap
    <2>3. ReadInner(W)[x] = w \o <<>> \o <<>>
      BY <2>1, <2>2, GatheredEmpty DEF ReadInner
    <2>4. QED
      BY <2>2, <2>3
  <1>2. PICK V : V = ReadInner(W)
    OBVIOUS
  <1>3. SameOn(V, W, Leaves)
    BY <1>1, <1>2 DEF SameOn
  <1>4. ASSUME NEW x \in InnerComponents
        PROVE  ReadWhole(W)[x] = ReadInner(W)[x]
    <2>1. x.children \in Seq(Leaves) /\ x \in Components
      BY PartTypes, Nesting
    <2>2. Gathered(V, x.children) = Gathered(W, x.children)
      BY <1>3, <2>1, MappedSame
    <2>3. QED
      BY <1>2, <2>1, <2>2 DEF ReadInner, ReadWhole
  <1>5. QED
    BY <1>1, <1>4

\* W gives nothing for what cleaning takes away, and for a text what it gives for
\* the texts it was joined from.
Spared(W) ==
    /\ \A c \in Components :
        /\ c.text = <<>> /\ c.id = NoId
        /\ c.type \in {"row", "section", "container"}
        => W[c] = <<>>
    /\ \A c \in Components :
        c.text = <<>> /\ c.type = "button" /\ c.id = Verify => W[c] = <<>>
    /\ \A s \in Seq(ValidTexts) : W[Text(TextOf(s))] = Gathered(W, s)

LEMMA SparedInRow ==
    ASSUME NEW X, NEW W, IsMap(W, Components, Seq(X)), Spared(W),
           NEW x \in InnerComponents, RowItem(x)
    PROVE  Gathered(ReadInner(W), CleanInner(x)) = ReadInner(W)[x]
  <1>1. /\ x.children \in Seq(ValidButtons) /\ x.children \in Seq(Leaves)
        /\ x.accessory = <<>> /\ x \in Components
    BY PartTypes, Nesting DEF RowItem
  <1>2. W[x] = <<>>
    BY <1>1 DEF Spared, RowItem
  <1>3. Gives(OfLeaf, ValidButtons, Leaves) /\ Gives(W, Leaves, X)
    <2>1. \A l \in ValidButtons : OfLeaf[l] \in Seq(Leaves)
      BY OfLeafMap DEF IsMap, ValidButtons
    <2>2. \A l \in Leaves : W[l] \in Seq(X)
      BY Nesting DEF IsMap
    <2>3. QED
      BY <2>1, <2>2 DEF Gives
  <1>4. Composes(W, W, OfLeaf, ValidButtons)
    <2>1. ASSUME NEW l \in ValidButtons
          PROVE  W[l] = Gathered(W, OfLeaf[l])
      <3>1. l \in Leaves /\ l \in Components /\ ValidButton(l)
        BY Nesting DEF ValidButtons
      <3>2. OfLeaf[l] = IF l.id = Verify THEN <<>> ELSE <<l>>
        BY <3>1, OfLeafIs DEF OfLeaf
      <3>3. CASE l.id = Verify
        <4>1. W[l] = <<>>
          BY <3>1, <3>3, LeafShape DEF Spared
        <4>2. QED
          BY <3>2, <3>3, <4>1, GatheredEmpty
      <3>4. CASE l.id # Verify
        <4>1. Gathered(W, <<l>>) = W[l]
          BY <3>1, GatheredOne
        <4>2. QED
          BY <3>2, <3>4, <4>1
      <3>5. QED
        BY <3>3, <3>4
    <2>2. QED
      BY <2>1 DEF Composes
  <1>5. Gathered(W, KeptLeaves(x)) = Gathered(W, x.children)
    BY <1>1, <1>3, <1>4, GatheredThrough DEF KeptLeaves
  <1>6. PICK k \in Seq(Leaves) : k = KeptLeaves(x)
    BY OfInnerIs
  <1>7. PICK g \in Seq(X) : g = Gathered(W, k) /\ g = Gathered(W, x.children)
    BY <1>3, <1>5, <1>6, GatheredInto
  <1>8. ReadInner(W)[x] = g
    <2>1. ReadInner(W)[x] = <<>> \o g \o <<>>
      BY <1>1, <1>2, <1>7, GatheredEmpty DEF ReadInner
    <2>2. QED
      BY <2>1
  <1>9. CASE k = <<>>
    <2>1. CleanInner(x) = <<>>
      BY <1>6, <1>9, CleanRow
    <2>2. g = <<>>
      BY <1>7, <1>9, GatheredEmpty
    <2>3. QED
      BY <1>8, <2>1, <2>2, GatheredEmpty
  <1>10. CASE k # <<>>
    <2>1. PICK y \in InnerComponents :
              /\ y = With(x, k) /\ y.children = k /\ y.accessory = x.accessory
              /\ y.type = x.type /\ y.text = x.text /\ y.id = x.id
      BY WithInner
    <2>2. CleanInner(x) = <<y>>
      BY <1>6, <1>10, <2>1, CleanRow
    <2>3. y \in Components
      BY Nesting
    <2>4. W[y] = <<>>
      BY <2>1, <2>3 DEF Spared, RowItem
    <2>5. ReadInner(W)[y] = <<>> \o g \o <<>>
      BY <1>1, <1>7, <2>1, <2>4, GatheredEmpty DEF ReadInner
    <2>6. Gathered(ReadInner(W), <<y>>) = ReadInner(W)[y]
      BY ReadInnerMap, GatheredOne
    <2>7. QED
      BY <1>8, <2>2, <2>5, <2>6
  <1>11. QED
    BY <1>9, <1>10

LEMMA SparedInSection ==
    ASSUME NEW X, NEW W, IsMap(W, Components, Seq(X)), Spared(W),
           NEW x \in InnerComponents, SectionItem(x)
    PROVE  Gathered(ReadInner(W), CleanInner(x)) = ReadInner(W)[x]
  <1>1. /\ x.children \in Seq(ValidTexts) /\ x.children \in Seq(Leaves)
        /\ x.accessory \in Seq(Leaves) /\ Len(x.accessory) = 1 /\ x \in Components
    BY PartTypes, Nesting DEF SectionItem
  <1>2. W[x] = <<>>
    BY <1>1 DEF Spared, SectionItem
  <1>3. CASE x.accessory[1].id # Verify
    <2>1. CleanInner(x) = <<x>>
      BY <1>3, CleanSection
    <2>2. Gathered(ReadInner(W), <<x>>) = ReadInner(W)[x]
      BY ReadInnerMap, GatheredOne
    <2>3. QED
      BY <2>1, <2>2
  <1>4. CASE x.accessory[1].id = Verify
    <2>1. PICK a \in Leaves : a = x.accessory[1] /\ ValidAccessory(a) /\ a.id = Verify
      BY <1>4 DEF SectionItem
    <2>2. x.accessory = <<a>>
      BY <1>1, <2>1
    <2>3. a \in Components /\ a.type = "button" /\ a.text = <<>>
      <3>1. a \in Components
        BY Nesting
      <3>2. a.id # NoId
        BY <2>1 DEF NoId, Verify
      <3>3. ValidButton(a)
        BY <2>1, <3>2 DEF ValidAccessory, Is
      <3>4. QED
        BY <3>1, <3>3, LeafShape
    <2>4. W[a] = <<>>
      BY <2>1, <2>3 DEF Spared
    <2>5. Gathered(W, x.accessory) = <<>>
      <3>1. Gathered(W, <<a>>) = W[a]
        BY <2>3, GatheredOne
      <3>2. QED
        BY <2>2, <2>4, <3>1
    <2>6. PICK g \in Seq(X) : g = Gathered(W, x.children)
      <3>1. Gives(W, Leaves, X)
        BY Nesting DEF IsMap, Gives
      <3>2. QED
        BY <1>1, <3>1, GatheredInto
    <2>7. ReadInner(W)[x] = <<>> \o g \o <<>>
      BY <1>2, <2>5, <2>6 DEF ReadInner
    <2>8. x.children \in Seq(Components)
      BY <1>1, Nesting
    <2>9. PICK t \in Leaves : t = Text(TextOf(x.children)) /\ t \in InnerComponents
      BY <2>8, TextOfIs, TextFields
    <2>10. CleanInner(x) = <<t>>
      BY <1>4, <2>9, CleanSection
    <2>11. Gathered(ReadInner(W), <<t>>) = ReadInner(W)[t]
      BY <2>9, ReadInnerMap, GatheredOne
    <2>12. ReadInner(W)[t] = W[t]
      BY ReadsAgree
    <2>13. W[t] = g
      BY <1>1, <2>6, <2>9 DEF Spared
    <2>14. QED
      BY <2>7, <2>10, <2>11, <2>12, <2>13
  <1>5. QED
    BY <1>3, <1>4

LEMMA SparedInItem ==
    ASSUME NEW X, NEW W, IsMap(W, Components, Seq(X)), Spared(W), NEW x \in ValidItems
    PROVE  Gathered(ReadInner(W), CleanInner(x)) = ReadInner(W)[x]
  <1>1. x \in InnerComponents /\ x \in Components /\ ValidItem(x)
    BY Nesting DEF ValidItems
  <1>2. CASE PlainItem(x)
    <2>1. CleanInner(x) = <<x>>
      BY <1>1, <1>2, CleanPlain
    <2>2. Gathered(ReadInner(W), <<x>>) = ReadInner(W)[x]
      BY <1>1, ReadInnerMap, GatheredOne
    <2>3. QED
      BY <2>1, <2>2
  <1>3. CASE RowItem(x)
    BY <1>1, <1>3, SparedInRow
  <1>4. CASE SectionItem(x)
    BY <1>1, <1>4, SparedInSection
  <1>5. QED
    BY <1>1, <1>2, <1>3, <1>4, ItemShape

LEMMA SparedInComponent ==
    ASSUME NEW X, NEW W, IsMap(W, Components, Seq(X)), Spared(W), NEW x \in ValidComponents
    PROVE  Gathered(ReadWhole(W), Clean(x)) = ReadWhole(W)[x]
  <1>1. x \in Components /\ ValidComponent(x)
    BY DEF ValidComponents
  <1>2. PICK V, Z : V = ReadInner(W) /\ Z = ReadWhole(W)
    OBVIOUS
  <1>3. IsMap(V, InnerComponents, Seq(X)) /\ IsMap(Z, Components, Seq(X))
    BY <1>2, ReadInnerMap, ReadWholeMap
  <1>4. SameOn(Z, V, InnerComponents)
    BY <1>2, ReadsAgree DEF SameOn
  <1>5. CASE x \in ValidItems
    <2>1. x \in InnerComponents
      BY <1>5 DEF ValidItems
    <2>2. PICK k \in Seq(InnerComponents) : k = CleanInner(x) /\ k = Clean(x)
      BY <2>1, CleansAgree, OfInnerIs
    <2>3. Gathered(Z, k) = Gathered(V, k)
      BY <1>4, MappedSame
    <2>4. Gathered(V, k) = V[x]
      BY <1>2, <1>5, <2>2, SparedInItem
    <2>5. Z[x] = V[x]
      BY <1>4, <2>1 DEF SameOn
    <2>6. QED
      BY <1>2, <2>2, <2>3, <2>4, <2>5
  <1>6. CASE /\ x.type = "container" /\ x.text = <<>> /\ x.id = NoId /\ x.accessory = <<>>
             /\ x.children \in Seq(ValidItems) /\ x.children # <<>>
    <2>1. W[x] = <<>>
      BY <1>1, <1>6 DEF Spared
    <2>2. Gives(OfInner, ValidItems, InnerComponents) /\ Gives(V, InnerComponents, X)
      <3>1. \A l \in ValidItems : OfInner[l] \in Seq(InnerComponents)
        BY OfInnerMap DEF IsMap, ValidItems
      <3>2. \A l \in InnerComponents : V[l] \in Seq(X)
        BY <1>3 DEF IsMap
      <3>3. QED
        BY <3>1, <3>2 DEF Gives
    <2>3. Composes(V, V, OfInner, ValidItems)
      <3>1. ASSUME NEW l \in ValidItems
            PROVE  V[l] = Gathered(V, OfInner[l])
        <4>1. OfInner[l] = CleanInner(l)
          BY DEF OfInner, ValidItems
        <4>2. QED
          BY <1>2, <4>1, SparedInItem
      <3>2. QED
        BY <3>1 DEF Composes
    <2>4. Gathered(V, KeptInners(x)) = Gathered(V, x.children)
      BY <1>6, <2>2, <2>3, GatheredThrough DEF KeptInners
    <2>5. PICK k \in Seq(InnerComponents) : k = KeptInners(x)
      BY <1>1, OfWholeIs
    <2>6. PICK g \in Seq(X) : g = Gathered(V, k) /\ g = Gathered(V, x.children)
      BY <1>3, <2>4, <2>5, GatheredType
    <2>7. Z[x] = g
      <3>1. Z[x] = <<>> \o g \o <<>>
        BY <1>1, <1>2, <1>6, <2>1, <2>6, GatheredEmpty DEF ReadWhole
      <3>2. QED
        BY <3>1
    <2>a. x.id # Verify
      BY <1>6 DEF NoId, Verify
    <2>8. CASE k = <<>>
      <3>1. Clean(x) = <<>>
        BY <1>1, <1>6, <2>5, <2>8, OfWholeIs
      <3>2. g = <<>>
        BY <2>6, <2>8, GatheredEmpty
      <3>3. QED
        BY <1>2, <2>7, <3>1, <3>2, GatheredEmpty
    <2>9. CASE k # <<>>
      <3>1. PICK y \in Components :
                /\ y = With(x, k) /\ y.children = k /\ y.accessory = x.accessory
                /\ y.type = x.type /\ y.text = x.text /\ y.id = x.id
        BY <1>1, WithWhole
      <3>2. Clean(x) = <<y>>
        BY <1>1, <1>6, <2>5, <2>9, <2>a, <3>1, OfWholeIs
      <3>3. W[y] = <<>>
        BY <1>6, <3>1 DEF Spared
      <3>4. Z[y] = <<>> \o g \o <<>>
        BY <1>2, <1>6, <2>6, <3>1, <3>3, GatheredEmpty DEF ReadWhole
      <3>5. Gathered(Z, <<y>>) = Z[y]
        BY <1>3, GatheredOne
      <3>6. QED
        BY <1>2, <2>7, <3>2, <3>4, <3>5
    <2>10. QED
      BY <2>8, <2>9
  <1>7. QED
    BY <1>1, <1>5, <1>6, ComponentShape

\* What the job stores reads as what it found, the button apart.
LEMMA SparedByButton ==
    ASSUME NEW X, NEW W, IsMap(W, Components, Seq(X)), Spared(W),
           NEW components \in Seq(ValidComponents)
    PROVE  Read(W, WithVerificationButton(components)) = Read(W, components)
  <1>1. components \in Seq(Components)
    <2>1. ValidComponents \subseteq Components
      BY DEF ValidComponents
    <2>2. QED
      BY <2>1, LargerSeq
  <1>2. PICK Z : Z = ReadWhole(W)
    OBVIOUS
  <1>3. IsMap(Z, Components, Seq(X))
    BY <1>2, ReadWholeMap
  <1>4. PICK g \in Seq(Components) : g = Gathered(OfWhole, components)
    BY <1>1, WithVerificationButtonIs
  <1>5. PICK r \in Components : r = VerifyRow
    BY RowFields
  <1>6. PICK q \in Seq(Components) : q = <<r>>
    <2>1. <<r>> \in Seq(Components)
      OBVIOUS
    <2>2. QED
      BY <2>1
  <1>7. PICK w \in Seq(Components) : w = WithVerificationButton(components) /\ w = g \o q
    <2>1. PICK w \in Seq(Components) : w = WithVerificationButton(components)
      BY <1>1, WithVerificationButtonIs
    <2>2. w = Gathered(OfWhole, components) \o <<VerifyRow>>
      BY <1>1, <2>1, WithVerificationButtonIs
    <2>3. QED
      BY <1>4, <1>5, <1>6, <2>1, <2>2
  <1>8. Gathered(Z, g \o q) = Gathered(Z, g) \o Gathered(Z, q)
    <2>1. Gathers(Z, Components)
      BY <1>3, GatheredOfTwo
    <2>2. QED
      BY <2>1 DEF Gathers
  <1>9. Gathered(Z, q) = <<>>
    <2>1. Gathered(Z, <<r>>) = Z[r]
      BY <1>3, GatheredOne
    <2>2. PICK b \in Leaves : b = Button(Verify) /\ r.children = <<b>>
      BY <1>5, RowFields, ButtonFields
    <2>3. W[r] = <<>>
      BY <1>5, RowFields DEF Spared
    <2>4. b \in Components /\ b \in InnerComponents
      BY Nesting
    <2>5. W[b] = <<>>
      BY <2>2, <2>4, ButtonFields DEF Spared
    <2>6. ReadInner(W)[b] = <<>>
      BY <2>5, ReadsAgree
    <2>7. Gathered(ReadInner(W), <<b>>) = ReadInner(W)[b]
      BY <2>4, ReadInnerMap, GatheredOne
    <2>8. Z[r] = <<>> \o <<>> \o <<>>
      BY <1>2, <1>5, <2>2, <2>3, <2>6, <2>7, RowFields, GatheredEmpty DEF ReadWhole
    <2>9. QED
      BY <1>6, <2>1, <2>8
  <1>10. Gathered(Z, g) = Gathered(Z, components)
    <2>1. Gives(OfWhole, ValidComponents, Components)
      BY OfWholeMap DEF IsMap, Gives, ValidComponents
    <2>2. Gives(Z, Components, X)
      BY <1>3 DEF IsMap, Gives
    <2>3. Composes(Z, Z, OfWhole, ValidComponents)
      <3>1. ASSUME NEW c \in ValidComponents
            PROVE  Z[c] = Gathered(Z, OfWhole[c])
        <4>1. OfWhole[c] = Clean(c)
          BY DEF OfWhole, ValidComponents
        <4>2. QED
          BY <1>2, <4>1, SparedInComponent
      <3>2. QED
        BY <3>1 DEF Composes
    <2>4. QED
      BY <1>4, <2>1, <2>2, <2>3, GatheredThrough
  <1>11. PICK h \in Seq(X) : h = Gathered(Z, components)
    BY <1>1, <1>3, GatheredType
  <1>12. Gathered(Z, w) = h
    BY <1>7, <1>8, <1>9, <1>10, <1>11
  <1>13. Read(W, w) = Gathered(Z, w)
    BY <1>2, ReadIs
  <1>14. Read(W, components) = h
    BY <1>1, <1>2, <1>11, ReadIs
  <1>15. QED
    BY <1>7, <1>12, <1>13, <1>14

-----------------------------------------------------------------------------
(* Paragraphs, controls and pictures.                                      *)

NonBlankOne == [p \in Strings |-> IF p # "" THEN <<p>> ELSE <<>>]

ReadParagraphs == [c \in Components |-> NonBlank(c.text)]

\* What tells a button from others.
Marks == Strings \X Strings \X BOOLEAN
Mark == [c \in Components |-> <<c.id, c.url, c.disabled>>]

ReadButtons ==
    [c \in Components |-> IF c.type = "button" /\ c.id # Verify THEN <<c>> ELSE <<>>]

ReadControls ==
    [c \in Components |-> IF c.type = "button" /\ c.id # Verify THEN <<Mark[c]>> ELSE <<>>]

ReadPictures ==
    [c \in Components |-> IF c.type \in {"thumbnail", "gallery"} THEN <<c>> ELSE <<>>]

UrlOf == [c \in Components |-> c.url]

ReadUrls ==
    [c \in Components |-> IF c.type \in {"thumbnail", "gallery"} THEN <<c.url>> ELSE <<>>]

LEMMA NonBlankOneMap == IsMap(NonBlankOne, Strings, Seq(Strings))
  <1>1. \A p \in Strings : <<p>> \in Seq(Strings)
    OBVIOUS
  <1>2. <<>> \in Seq(Strings)
    OBVIOUS
  <1>3. QED
    BY <1>1, <1>2 DEF IsMap, NonBlankOne

LEMMA NonBlankIs ==
    ASSUME NEW s \in Seq(Strings)
    PROVE  NonBlank(s) = Gathered(NonBlankOne, s) /\ NonBlank(s) \in Seq(Strings)
  <1>1. DOMAIN s = 1..Len(s) /\ \A i \in 1..Len(s) : s[i] \in Strings
    BY Domains, ElementOfSeq
  <1>2. [i \in DOMAIN s |-> IF s[i] # "" THEN <<s[i]>> ELSE <<>>] = Mapped(NonBlankOne, s)
    BY <1>1 DEF Mapped, NonBlankOne
  <1>3. NonBlank(s) = Gathered(NonBlankOne, s)
    BY <1>2 DEF NonBlank, Filtered, Gathered
  <1>4. QED
    BY <1>3, NonBlankOneMap, GatheredType

LEMMA NonBlankConcat ==
    ASSUME NEW s \in Seq(Strings), NEW t \in Seq(Strings)
    PROVE  NonBlank(s \o t) = NonBlank(s) \o NonBlank(t)
  <1>1. PICK r \in Seq(Strings) : r = s \o t
    BY ConcatProperties
  <1>2. NonBlank(r) = Gathered(NonBlankOne, r)
    BY NonBlankIs
  <1>3. Gathered(NonBlankOne, s \o t) = Gathered(NonBlankOne, s) \o Gathered(NonBlankOne, t)
    BY NonBlankOneMap, GatheredConcat
  <1>4. QED
    BY <1>1, <1>2, <1>3, NonBlankIs

LEMMA BlankIs ==
    ASSUME NEW s \in Seq(Strings)
    PROVE  Blank(s) <=> NonBlank(s) = <<>>
  <1>1. DOMAIN s = 1..Len(s) /\ \A i \in 1..Len(s) : s[i] \in Strings
    BY Domains, ElementOfSeq
  <1>2. ASSUME Blank(s)
        PROVE  NonBlank(s) = <<>>
    <2>1. PICK Q : Q = {p \in Strings : p = ""}
      OBVIOUS
    <2>2. GivesNothing(NonBlankOne, Q)
      BY <2>1 DEF GivesNothing, NonBlankOne
    <2>3. \A i \in 1..Len(s) : s[i] \in Q
      BY <1>1, <1>2, <2>1 DEF Blank
    <2>4. s \in Seq(Q)
      BY <2>3, AllIn
    <2>5. QED
      BY <2>2, <2>4, GatheredNothing, NonBlankIs
  <1>3. ASSUME NonBlank(s) = <<>>
        PROVE  Blank(s)
    <2>1. PICK Q : Q = {p \in Strings : NonBlankOne[p] = <<>>}
      OBVIOUS
    <2>2. Gathered(NonBlankOne, s) = <<>>
      BY <1>3, NonBlankIs
    <2>3. s \in Seq(Q)
      BY <2>1, <2>2, NonBlankOneMap, NothingGathered
    <2>4. \A i \in 1..Len(s) : s[i] \in Q
      BY <2>3, ElementOfSeq
    <2>5. \A p \in Q : p = ""
      <3>1. ASSUME NEW p \in Q
            PROVE  p = ""
        <4>1. p \in Strings /\ NonBlankOne[p] = <<>>
          BY <2>1
        <4>2. p # "" => NonBlankOne[p] = <<p>>
          BY <4>1 DEF NonBlankOne
        <4>3. <<p>> # <<>>
          OBVIOUS
        <4>4. QED
          BY <4>1, <4>2, <4>3
      <3>2. QED
        BY <3>1
    <2>6. QED
      BY <1>1, <2>4, <2>5 DEF Blank
  <1>4. QED
    BY <1>2, <1>3

LEMMA NonBlankEmpty == NonBlank(<<>>) = <<>>
  <1>a. <<>> \in Seq(Strings)
    OBVIOUS
  <1>1. PICK s \in Seq(Strings) : s = <<>>
    BY <1>a
  <1>2. NonBlank(s) = Gathered(NonBlankOne, s)
    BY NonBlankIs
  <1>3. QED
    BY <1>1, <1>2, GatheredEmpty

LEMMA ReaderMaps ==
    /\ IsMap(ReadParagraphs, Components, Seq(Strings))
    /\ IsMap(ReadButtons, Components, Seq(Components))
    /\ IsMap(Mark, Components, Marks)
    /\ IsMap(ReadControls, Components, Seq(Marks))
    /\ IsMap(ReadPictures, Components, Seq(Components))
    /\ IsMap(UrlOf, Components, Strings)
    /\ IsMap(ReadUrls, Components, Seq(Strings))
  <1>1. \A c \in Components : c.text \in Seq(Strings) /\ c.url \in Strings
    BY DEF Components, Shape
  <1>2. \A c \in Components : NonBlank(c.text) \in Seq(Strings)
    BY <1>1, NonBlankIs
  <1>3. IsMap(ReadParagraphs, Components, Seq(Strings))
    BY <1>2 DEF IsMap, ReadParagraphs
  <1>4. /\ IsMap(ReadButtons, Components, Seq(Components))
        /\ IsMap(Mark, Components, Marks)
        /\ IsMap(ReadControls, Components, Seq(Marks))
    <2>1. IsMap(ReadButtons, Components, Seq(Components))
      BY DEF IsMap, ReadButtons
    <2>2. \A c \in Components : c.id \in Strings /\ c.url \in Strings /\ c.disabled \in BOOLEAN
      BY DEF Components, Shape
    <2>3. \A c \in Components : Mark[c] \in Marks
      BY <2>2 DEF Mark, Marks
    <2>4. IsMap(Mark, Components, Marks)
      BY <2>3 DEF IsMap, Mark
    <2>5. \A m \in Marks : <<m>> \in Seq(Marks)
      OBVIOUS
    <2>6. <<>> \in Seq(Marks)
      BY EmptySeq
    <2>7. IsMap(ReadControls, Components, Seq(Marks))
      BY <2>3, <2>5, <2>6 DEF IsMap, ReadControls
    <2>8. QED
      BY <2>1, <2>4, <2>7
  <1>5. IsMap(ReadPictures, Components, Seq(Components))
    BY DEF IsMap, ReadPictures
  <1>6. IsMap(UrlOf, Components, Strings)
    BY <1>1 DEF IsMap, UrlOf
  <1>7. IsMap(ReadUrls, Components, Seq(Strings))
    BY <1>1 DEF IsMap, ReadUrls
  <1>8. QED
    BY <1>3, <1>4, <1>5, <1>6, <1>7

\* A leaf has no other parts.
LEMMA LeafParts ==
    ASSUME NEW s \in Seq(Leaves)
    PROVE  AllParts(s) = s /\ s \in Seq(Components)
  <1>1. s \in Seq(Components)
    BY Nesting
  <1>2. IsIdentity(ComponentParts, Leaves)
    <2>1. ASSUME NEW l \in Leaves
          PROVE  ComponentParts[l] = <<l>>
      <3>1. l \in Components /\ l.children = <<>> /\ l.accessory = <<>>
        BY Nesting, PartTypes
      <3>2. Parts(l) = <<l>> \o <<>> \o <<>>
        BY <3>1, PartsAre, GatheredEmpty
      <3>3. QED
        BY <3>1, <3>2 DEF ComponentParts
    <2>2. QED
      BY <2>1 DEF IsIdentity
  <1>3. Gathered(ComponentParts, s) = s
    BY <1>2, GatheredItself
  <1>4. QED
    BY <1>1, <1>3, AllPartsAre

LEMMA ReadersAre ==
    ASSUME NEW components \in Seq(Components)
    PROVE  /\ NonBlank(TextOf(components)) = Read(ReadParagraphs, components)
           /\ Controls(components) = Read(ReadControls, components)
           /\ Urls(components) = Read(ReadUrls, components)
  <1>1. PICK s \in Seq(Components) : s = AllParts(components)
    BY AllPartsAre
  <1>2. DOMAIN s = 1..Len(s) /\ \A i \in 1..Len(s) : s[i] \in Components
    BY Domains, ElementOfSeq
  <1>3. NonBlank(TextOf(components)) = Gathered(ReadParagraphs, s)
    <2>1. PICK t \in Seq(Strings) : t = TextOf(components) /\ t = Gathered(ReadText, s)
      BY <1>1, TextOfIs DEF Read
    <2>2. Composes(ReadParagraphs, NonBlankOne, ReadText, Components)
      <3>1. ASSUME NEW c \in Components
            PROVE  ReadParagraphs[c] = Gathered(NonBlankOne, ReadText[c])
        <4>1. c.text \in Seq(Strings)
          BY DEF Components, Shape
        <4>2. NonBlank(c.text) = Gathered(NonBlankOne, c.text)
          BY <4>1, NonBlankIs
        <4>3. QED
          BY <4>2 DEF ReadParagraphs, ReadText
      <3>2. QED
        BY <3>1 DEF Composes
    <2>3. Gathered(NonBlankOne, Gathered(ReadText, s)) = Gathered(ReadParagraphs, s)
      BY <2>2, NonBlankOneMap, ReadTextMap, ReaderMaps, GatheredOfGathered
    <2>4. NonBlank(t) = Gathered(NonBlankOne, t)
      BY NonBlankIs
    <2>5. QED
      BY <2>1, <2>3, <2>4
  <1>4. Controls(components) = Gathered(ReadControls, s)
    <2>1. [i \in DOMAIN s |-> IF s[i].type = "button" /\ s[i].id # Verify THEN <<s[i]>> ELSE <<>>]
            = Mapped(ReadButtons, s)
      BY <1>2 DEF Mapped, ReadButtons
    <2>2. PICK p \in Seq(Components) : p = Gathered(ReadButtons, s)
      BY ReaderMaps, GatheredType
    <2>3. DOMAIN p = 1..Len(p) /\ \A i \in 1..Len(p) : p[i] \in Components
      BY Domains, ElementOfSeq
    <2>4. [i \in DOMAIN p |-> <<p[i].id, p[i].url, p[i].disabled>>] = Mapped(Mark, p)
      BY <2>3 DEF Mapped, Mark
    <2>5. Filtered(AllParts(components), LAMBDA c : c.type = "button" /\ c.id # Verify) = p
      BY <1>1, <2>1, <2>2 DEF Filtered, Gathered
    <2>6. Controls(components) = Mapped(Mark, p)
      BY <2>4, <2>5 DEF Controls
    <2>7. Maps(ReadControls, Mark, ReadButtons, Components)
      <3>1. ASSUME NEW c \in Components
            PROVE  ReadControls[c] = Mapped(Mark, ReadButtons[c])
        <4>1. CASE c.type = "button" /\ c.id # Verify
          <5>1. ReadButtons[c] = <<c>> /\ ReadControls[c] = <<Mark[c]>>
            BY <4>1 DEF ReadButtons, ReadControls
          <5>2. QED
            BY <5>1, MappedOne
        <4>2. CASE ~(c.type = "button" /\ c.id # Verify)
          <5>1. ReadButtons[c] = <<>> /\ ReadControls[c] = <<>>
            BY <4>2 DEF ReadButtons, ReadControls
          <5>2. QED
            BY <5>1, MappedEmpty
        <4>3. QED
          BY <4>1, <4>2
      <3>2. QED
        BY <3>1 DEF Maps
    <2>8. Mapped(Mark, Gathered(ReadButtons, s)) = Gathered(ReadControls, s)
      BY <2>7, ReaderMaps, MappedOfGathered
    <2>9. QED
      BY <2>2, <2>6, <2>8
  <1>5. Urls(components) = Gathered(ReadUrls, s)
    <2>1. [i \in DOMAIN s |-> IF s[i].type \in {"thumbnail", "gallery"} THEN <<s[i]>> ELSE <<>>]
            = Mapped(ReadPictures, s)
      BY <1>2 DEF Mapped, ReadPictures
    <2>2. PICK p \in Seq(Components) : p = Gathered(ReadPictures, s)
      BY ReaderMaps, GatheredType
    <2>3. DOMAIN p = 1..Len(p) /\ \A i \in 1..Len(p) : p[i] \in Components
      BY Domains, ElementOfSeq
    <2>4. [i \in DOMAIN p |-> p[i].url] = Mapped(UrlOf, p)
      BY <2>3 DEF Mapped, UrlOf
    <2>a. Filtered(AllParts(components), LAMBDA c : c.type \in {"thumbnail", "gallery"}) = p
      BY <1>1, <2>1, <2>2 DEF Filtered, Gathered
    <2>5. Urls(components) = Mapped(UrlOf, p)
      BY <2>4, <2>a DEF Urls
    <2>6. Maps(ReadUrls, UrlOf, ReadPictures, Components)
      <3>1. ASSUME NEW c \in Components
            PROVE  ReadUrls[c] = Mapped(UrlOf, ReadPictures[c])
        <4>1. CASE c.type \in {"thumbnail", "gallery"}
          <5>1. ReadPictures[c] = <<c>> /\ ReadUrls[c] = <<c.url>>
            BY <4>1 DEF ReadPictures, ReadUrls
          <5>2. UrlOf[c] = c.url
            BY DEF UrlOf
          <5>3. QED
            BY <5>1, <5>2, MappedOne
        <4>2. CASE c.type \notin {"thumbnail", "gallery"}
          <5>1. ReadPictures[c] = <<>> /\ ReadUrls[c] = <<>>
            BY <4>2 DEF ReadPictures, ReadUrls
          <5>2. QED
            BY <5>1, MappedEmpty
        <4>3. QED
          BY <4>1, <4>2
      <3>2. QED
        BY <3>1 DEF Maps
    <2>7. Mapped(UrlOf, Gathered(ReadPictures, s)) = Gathered(ReadUrls, s)
      BY <2>6, ReaderMaps, MappedOfGathered
    <2>8. QED
      BY <2>2, <2>5, <2>7
  <1>6. QED
    BY <1>1, <1>3, <1>4, <1>5 DEF Read

LEMMA UrlsType ==
    ASSUME NEW components \in Seq(Components)
    PROVE  Urls(components) \in Seq(Strings)
  <1>1. PICK s \in Seq(Components) : s = AllParts(components)
    BY AllPartsAre
  <1>2. Gathered(ReadUrls, s) \in Seq(Strings)
    BY ReaderMaps, GatheredType
  <1>3. QED
    BY <1>1, <1>2, ReadersAre DEF Read

LEMMA ControlsType ==
    ASSUME NEW components \in Seq(Components)
    PROVE  Controls(components) \in Seq(Marks)
  <1>1. PICK s \in Seq(Components) : s = AllParts(components)
    BY AllPartsAre
  <1>2. Gathered(ReadControls, s) \in Seq(Marks)
    BY ReaderMaps, GatheredType
  <1>3. QED
    BY <1>1, <1>2, ReadersAre DEF Read

LEMMA ReadersSpared == Spared(ReadParagraphs) /\ Spared(ReadControls) /\ Spared(ReadUrls)
  <1>1. ASSUME NEW s \in Seq(ValidTexts)
        PROVE  /\ ReadParagraphs[Text(TextOf(s))] = Gathered(ReadParagraphs, s)
               /\ ReadControls[Text(TextOf(s))] = Gathered(ReadControls, s)
               /\ ReadUrls[Text(TextOf(s))] = Gathered(ReadUrls, s)
    <2>1. s \in Seq(Leaves)
      <3>1. ValidTexts \subseteq Leaves
        BY DEF ValidTexts
      <3>2. QED
        BY <3>1, LargerSeq
    <2>2. s \in Seq(Components) /\ AllParts(s) = s
      BY <2>1, LeafParts
    <2>3. PICK t \in Components : t = Text(TextOf(s)) /\ t.type = "text" /\ t.text = TextOf(s)
      BY <2>2, TextOfIs, TextFields
    <2>4. ReadParagraphs[t] = Gathered(ReadParagraphs, s)
      BY <2>2, <2>3, ReadersAre DEF Read, ReadParagraphs
    <2>5. ReadControls[t] = <<>> /\ ReadUrls[t] = <<>>
      BY <2>3 DEF ReadControls, ReadUrls
    <2>6. GivesNothing(ReadControls, ValidTexts) /\ GivesNothing(ReadUrls, ValidTexts)
      <3>1. ASSUME NEW l \in ValidTexts
            PROVE  ReadControls[l] = <<>> /\ ReadUrls[l] = <<>>
        <4>1. l \in Components /\ ValidText(l)
          BY Nesting DEF ValidTexts
        <4>2. l.type = "text"
          BY <4>1, LeafShape
        <4>3. QED
          BY <4>1, <4>2 DEF ReadControls, ReadUrls
      <3>2. QED
        BY <3>1 DEF GivesNothing
    <2>7. Gathered(ReadControls, s) = <<>> /\ Gathered(ReadUrls, s) = <<>>
      BY <2>6, GatheredNothing
    <2>8. QED
      BY <2>3, <2>4, <2>5, <2>7
  <1>2. Spared(ReadParagraphs)
    <2>1. \A c \in Components : c.text = <<>> => ReadParagraphs[c] = <<>>
      BY NonBlankEmpty DEF ReadParagraphs
    <2>2. QED
      BY <1>1, <2>1 DEF Spared
  <1>3. Spared(ReadControls)
    <2>1. \A c \in Components :
            c.type \in {"row", "section", "container"} => ReadControls[c] = <<>>
      BY DEF ReadControls
    <2>2. \A c \in Components : c.id = Verify => ReadControls[c] = <<>>
      BY DEF ReadControls
    <2>3. QED
      BY <1>1, <2>1, <2>2 DEF Spared
  <1>4. Spared(ReadUrls)
    <2>1. \A c \in Components :
            c.type \in {"row", "section", "container", "button"} => ReadUrls[c] = <<>>
      BY DEF ReadUrls
    <2>2. QED
      BY <1>1, <2>1 DEF Spared
  <1>5. QED
    BY <1>2, <1>3, <1>4

\* The job takes away and adds no paragraph, no other button and no picture.
LEMMA ButtonSpares ==
    ASSUME NEW components \in Seq(ValidComponents)
    PROVE  LET with == WithVerificationButton(components) IN
           /\ NonBlank(TextOf(with)) = NonBlank(TextOf(components))
           /\ Controls(with) = Controls(components)
           /\ Urls(with) = Urls(components)
  <1>1. components \in Seq(Components)
    <2>1. ValidComponents \subseteq Components
      BY DEF ValidComponents
    <2>2. QED
      BY <2>1, LargerSeq
  <1>2. PICK with \in Seq(Components) : with = WithVerificationButton(components)
    BY <1>1, WithVerificationButtonIs
  <1>3. /\ Read(ReadParagraphs, with) = Read(ReadParagraphs, components)
        /\ Read(ReadControls, with) = Read(ReadControls, components)
        /\ Read(ReadUrls, with) = Read(ReadUrls, components)
    BY <1>2, ReaderMaps, ReadersSpared, SparedByButton
  <1>4. QED
    BY <1>1, <1>2, <1>3, ReadersAre

-----------------------------------------------------------------------------
(* Conversion keeps every paragraph, in order.                             *)

NonBlankAll == [t \in Seq(Strings) |-> NonBlank(t)]

LEMMA NonBlankAllMap == IsMap(NonBlankAll, Seq(Strings), Seq(Strings))
  BY NonBlankIs DEF IsMap, NonBlankAll

\* What a reader of paragraphs finds.
InInner == ReadInner(ReadParagraphs)
InWhole == ReadWhole(ReadParagraphs)

LEMMA ReadingMaps ==
    /\ IsMap(InInner, InnerComponents, Seq(Strings))
    /\ IsMap(InWhole, Components, Seq(Strings))
    /\ \A x \in Leaves : InInner[x] = NonBlank(x.text)
  <1>1. \A x \in Leaves : InInner[x] = ReadParagraphs[x]
    BY ReaderMaps, ReadsAgree DEF InInner
  <1>2. \A x \in Leaves : ReadParagraphs[x] = NonBlank(x.text)
    BY Nesting DEF ReadParagraphs
  <1>3. QED
    BY <1>1, <1>2, ReaderMaps, ReadInnerMap, ReadWholeMap DEF InInner, InWhole

LEMMA ReadingConcat ==
    /\ \A s, t \in Seq(InnerComponents) :
            Gathered(InInner, s \o t) = Gathered(InInner, s) \o Gathered(InInner, t)
    /\ \A s, t \in Seq(Components) :
            Gathered(InWhole, s \o t) = Gathered(InWhole, s) \o Gathered(InWhole, t)
  <1>1. \A s, t \in Seq(InnerComponents) :
            Gathered(InInner, s \o t) = Gathered(InInner, s) \o Gathered(InInner, t)
    BY ReadingMaps, GatheredConcat
  <1>2. \A s, t \in Seq(Components) :
            Gathered(InWhole, s \o t) = Gathered(InWhole, s) \o Gathered(InWhole, t)
    BY ReadingMaps, GatheredConcat
  <1>3. QED
    BY <1>1, <1>2

LEMMA TextsRead ==
    ASSUME NEW e \in Embeds
    PROVE  /\ Gathered(ReadParagraphs, Mapped(AsText, Texts(e)))
                = NonBlank(e.header) \o NonBlank(e.description) \o NonBlank(e.fields)
           /\ Gathered(InInner, Mapped(AsText, Texts(e)))
                = NonBlank(e.header) \o NonBlank(e.description) \o NonBlank(e.fields)
  <1>1. PICK a, b, c \in Seq(Strings) :
            a = e.header /\ b = e.description /\ c = e.fields
    BY DEF Embeds
  <1>2. PICK three \in Seq(Seq(Strings)) : three = <<a, b, c>>
    BY <1>1, TextsAre
  <1>3. PICK t \in Seq(Seq(Strings)) : t = Texts(e) /\ t = Gathered(NotBlank, three)
    BY <1>1, <1>2, TextsAre
  <1>4. PICK m \in Seq(Leaves) : m = Mapped(AsText, t)
    BY AsTextMap, MappedType
  <1>5. Follows(NonBlankAll, ReadParagraphs, AsText, Seq(Strings))
    <2>1. ASSUME NEW p \in Seq(Strings)
          PROVE  NonBlankAll[p] = ReadParagraphs[AsText[p]]
      <3>1. PICK l \in Components : l = Text(p) /\ l.text = p
        BY TextFields
      <3>2. QED
        BY <3>1 DEF NonBlankAll, ReadParagraphs, AsText
    <2>2. QED
      BY <2>1 DEF Follows
  <1>6. Gathered(ReadParagraphs, m) = Gathered(NonBlankAll, t)
    BY <1>4, <1>5, AsTextMap, GatheredOfMapped
  <1>7. Composes(NonBlankAll, NonBlankAll, NotBlank, Seq(Strings))
    <2>1. ASSUME NEW p \in Seq(Strings)
          PROVE  NonBlankAll[p] = Gathered(NonBlankAll, NotBlank[p])
      <3>1. CASE Blank(p)
        <4>1. NonBlankAll[p] = <<>> /\ NotBlank[p] = <<>>
          BY <3>1, BlankIs DEF NonBlankAll, NotBlank
        <4>2. QED
          BY <4>1, GatheredEmpty
      <3>2. CASE ~Blank(p)
        <4>1. NotBlank[p] = <<p>>
          BY <3>2 DEF NotBlank
        <4>2. Gathered(NonBlankAll, <<p>>) = NonBlankAll[p]
          BY NonBlankAllMap, GatheredOne
        <4>3. QED
          BY <4>1, <4>2
      <3>3. QED
        BY <3>1, <3>2
    <2>2. QED
      BY <2>1 DEF Composes
  <1>8. Gathered(NonBlankAll, Gathered(NotBlank, three)) = Gathered(NonBlankAll, three)
    BY <1>7, NonBlankAllMap, NotBlankMap, GatheredOfGathered
  <1>9. Gathered(NonBlankAll, three) = NonBlank(a) \o NonBlank(b) \o NonBlank(c)
    <2>1. Three(three, a, b, c, Seq(Strings))
      BY <1>2 DEF Three
    <2>2. Gathered(NonBlankAll, three) = Join(NonBlankAll[a], NonBlankAll[b], NonBlankAll[c])
      BY <2>1, NonBlankAllMap, ThreeAre
    <2>3. QED
      BY <2>2 DEF NonBlankAll, Join
  <1>10. Gathered(ReadParagraphs, m) = NonBlank(a) \o NonBlank(b) \o NonBlank(c)
    BY <1>3, <1>6, <1>8, <1>9
  <1>11. SameOn(InInner, ReadParagraphs, Leaves)
    BY ReadingMaps, Nesting DEF SameOn, ReadParagraphs
  <1>12. Gathered(InInner, m) = Gathered(ReadParagraphs, m)
    BY <1>11, MappedSame
  <1>13. QED
    BY <1>1, <1>3, <1>4, <1>10, <1>12

EmbedText == [e \in Embeds |-> e.header \o e.description \o e.fields \o e.footer]

LEMMA EmbedTextMap == IsMap(EmbedText, Embeds, Seq(Strings))
  <1>1. \A a, b, c, d \in Seq(Strings) : a \o b \o c \o d \in Seq(Strings)
    OBVIOUS
  <1>2. \A e \in Embeds : /\ e.header \in Seq(Strings) /\ e.description \in Seq(Strings)
                          /\ e.fields \in Seq(Strings) /\ e.footer \in Seq(Strings)
    BY DEF Embeds
  <1>3. QED
    BY <1>1, <1>2 DEF IsMap, EmbedText

\* A picture has no paragraphs.
LEMMA PicturesRead ==
    ASSUME NEW url \in Strings
    PROVE  Pictures(url) \in Seq(Leaves) /\ Gathered(InInner, Pictures(url)) = <<>>
  <1>1. PICK g \in Leaves : g = Gallery(url) /\ g.text = <<>>
    BY PictureFields
  <1>2. g \in InnerComponents
    BY Nesting
  <1>3. InInner[g] = <<>>
    BY <1>1, ReadingMaps, NonBlankEmpty
  <1>4. Gathered(InInner, <<g>>) = InInner[g]
    BY <1>2, ReadingMaps, GatheredOne
  <1>5. <<g>> \in Seq(Leaves) /\ <<>> \in Seq(Leaves)
    OBVIOUS
  <1>6. QED
    BY <1>1, <1>3, <1>4, <1>5, GatheredEmpty DEF Pictures

LEMMA ChildrenRead ==
    ASSUME NEW e \in Embeds
    PROVE  Gathered(InInner, Children(e)) = NonBlank(EmbedText[e])
  <1>1. PICK a, b, c, d \in Seq(Strings) :
            a = e.header /\ b = e.description /\ c = e.fields /\ d = e.footer
    BY DEF Embeds
  <1>2. PICK na, nb, nc, nd \in Seq(Strings) :
            na = NonBlank(a) /\ nb = NonBlank(b) /\ nc = NonBlank(c) /\ nd = NonBlank(d)
    BY NonBlankIs
  <1>3. PICK texts \in Seq(Leaves) :
            /\ texts = [i \in DOMAIN Texts(e) |-> Text(Texts(e)[i])]
            /\ texts = Mapped(AsText, Texts(e))
    BY TextsAre
  <1>4. /\ Gathered(ReadParagraphs, texts) = na \o nb \o nc
        /\ Gathered(InInner, texts) = na \o nb \o nc
    BY <1>1, <1>2, <1>3, TextsRead
  <1>5. e.thumbnail \in Strings /\ e.image \in Strings
    BY DEF Embeds
  <1>6. PICK first \in Seq(InnerComponents) :
            /\ first = IF e.thumbnail # NoUrl /\ texts # <<>>
                       THEN <<Section(texts, Thumbnail(e.thumbnail))>>
                       ELSE texts \o Pictures(e.thumbnail)
            /\ Gathered(InInner, first) = na \o nb \o nc
    <2>1. PICK l \in Leaves : l = Thumbnail(e.thumbnail) /\ l.text = <<>>
      BY <1>5, PictureFields
    <2>2. PICK s \in InnerComponents :
              /\ s = Section(texts, l) /\ s.text = <<>> /\ s.children = texts
              /\ s.accessory = <<l>>
      BY SectionFields
    <2>3. l \in Components /\ s \in Components
      BY Nesting
    <2>4. Gathered(ReadParagraphs, <<l>>) = <<>>
      <3>1. Gathered(ReadParagraphs, <<l>>) = ReadParagraphs[l]
        BY <2>3, ReaderMaps, GatheredOne
      <3>2. QED
        BY <2>1, <2>3, <3>1, NonBlankEmpty DEF ReadParagraphs
    <2>5. InInner[s] = <<>> \o (na \o nb \o nc) \o <<>>
      BY <1>4, <2>2, <2>3, <2>4, NonBlankEmpty DEF InInner, ReadInner, ReadParagraphs
    <2>6. InInner[s] = na \o nb \o nc
      BY <2>5
    <2>7. <<s>> \in Seq(InnerComponents) /\ Gathered(InInner, <<s>>) = na \o nb \o nc
      <3>1. Gathered(InInner, <<s>>) = InInner[s]
        BY ReadingMaps, GatheredOne
      <3>2. <<s>> \in Seq(InnerComponents)
        OBVIOUS
      <3>3. QED
        BY <2>6, <3>1, <3>2
    <2>8. PICK p \in Seq(InnerComponents) : p = Pictures(e.thumbnail) /\ Gathered(InInner, p) = <<>>
      BY <1>5, PicturesRead, Nesting
    <2>9. PICK q \in Seq(InnerComponents) : q = texts
      BY Nesting
    <2>10. q \o p \in Seq(InnerComponents) /\ Gathered(InInner, q \o p) = na \o nb \o nc
      <3>1. Gathered(InInner, q \o p) = Gathered(InInner, q) \o Gathered(InInner, p)
        BY ReadingConcat
      <3>2. Gathered(InInner, q \o p) = (na \o nb \o nc) \o <<>>
        BY <1>4, <2>8, <2>9, <3>1
      <3>3. QED
        BY <3>2, ConcatProperties
    <2>11. QED
      BY <2>1, <2>2, <2>7, <2>8, <2>9, <2>10
  <1>7. PICK second \in Seq(InnerComponents) :
            second = Pictures(e.image) /\ Gathered(InInner, second) = <<>>
    BY <1>5, PicturesRead, Nesting
  <1>8. PICK third \in Seq(InnerComponents) :
            /\ third = IF Blank(e.footer) THEN <<>> ELSE <<Text(e.footer)>>
            /\ Gathered(InInner, third) = nd
    <2>1. CASE Blank(d)
      <3>1. nd = <<>>
        BY <1>2, <2>1, BlankIs
      <3>2. <<>> \in Seq(InnerComponents)
        OBVIOUS
      <3>3. QED
        BY <1>1, <2>1, <3>1, <3>2, GatheredEmpty
    <2>2. CASE ~Blank(d)
      <3>1. PICK t \in Leaves : t = Text(d) /\ t.text = d /\ t \in InnerComponents
        BY TextFields
      <3>2. Gathered(InInner, <<t>>) = InInner[t]
        BY <3>1, ReadingMaps, GatheredOne
      <3>3. InInner[t] = nd
        BY <1>2, <3>1, ReadingMaps
      <3>4. <<t>> \in Seq(InnerComponents)
        BY <3>1
      <3>5. QED
        BY <1>1, <2>2, <3>1, <3>2, <3>3, <3>4
    <2>3. QED
      BY <2>1, <2>2
  <1>9. Children(e) = first \o second \o third
    BY <1>3, <1>6, <1>7, <1>8 DEF Children
  <1>10. PICK fs \in Seq(InnerComponents) : fs = first \o second
    BY ConcatProperties
  <1>11. Gathered(InInner, fs \o third) = Gathered(InInner, fs) \o Gathered(InInner, third)
    BY ReadingConcat
  <1>12. Gathered(InInner, first \o second) = Gathered(InInner, first) \o Gathered(InInner, second)
    BY ReadingConcat
  <1>13. Gathered(InInner, Children(e)) = ((na \o nb \o nc) \o <<>>) \o nd
    BY <1>6, <1>7, <1>8, <1>9, <1>10, <1>11, <1>12
  <1>14. NonBlank(EmbedText[e]) = na \o nb \o nc \o nd
    <2>1. PICK ab \in Seq(Strings) : ab = a \o b /\ NonBlank(ab) = na \o nb
      BY <1>2, NonBlankConcat, ConcatProperties
    <2>2. PICK abc \in Seq(Strings) : abc = ab \o c /\ NonBlank(abc) = NonBlank(ab) \o nc
      BY <1>2, NonBlankConcat, ConcatProperties
    <2>3. NonBlank(abc \o d) = NonBlank(abc) \o nd
      BY <1>2, NonBlankConcat
    <2>4. EmbedText[e] = abc \o d
      BY <1>1, <2>1, <2>2 DEF EmbedText
    <2>5. QED
      BY <2>1, <2>2, <2>3, <2>4
  <1>15. QED
    BY <1>13, <1>14, ConcatProperties

LEMMA EmbedRead ==
    ASSUME NEW e \in Embeds
    PROVE  Gathered(InWhole, OfEmbed[e]) = NonBlank(EmbedText[e])
  <1>1. PICK s \in Seq(InnerComponents) : s = Children(e)
    BY ChildrenType
  <1>2. PICK g \in Seq(Strings) : g = Gathered(InInner, s) /\ g = NonBlank(EmbedText[e])
    BY <1>1, ChildrenRead, ReadingMaps, GatheredType
  <1>3. CASE s = <<>>
    <2>1. OfEmbed[e] = <<>> /\ g = <<>>
      BY <1>1, <1>2, <1>3, GatheredEmpty DEF OfEmbed, ConvertEmbed
    <2>2. QED
      BY <1>2, <2>1, GatheredEmpty
  <1>4. CASE s # <<>>
    <2>1. PICK c \in Components :
              c = Container(s) /\ c.text = <<>> /\ c.children = s /\ c.accessory = <<>>
      BY ContainerFields
    <2>2. OfEmbed[e] = <<c>>
      BY <1>1, <1>4, <2>1 DEF OfEmbed, ConvertEmbed
    <2>3. Gathered(InWhole, <<c>>) = InWhole[c]
      BY ReadingMaps, GatheredOne
    <2>4. ReadParagraphs[c] = <<>>
      BY <2>1, NonBlankEmpty DEF ReadParagraphs
    <2>5. InWhole[c] = <<>> \o g \o <<>>
      BY <1>2, <2>1, <2>4, GatheredEmpty DEF InWhole, InInner, ReadWhole
    <2>6. QED
      BY <1>2, <2>2, <2>3, <2>5
  <1>5. QED
    BY <1>3, <1>4

LEMMA WrittenIsRead ==
    ASSUME NEW body \in ComponentBodies \union ClassicBodies
    PROVE  NonBlank(TextOf(Parsed(body))) = Written(body)
  <1>1. CASE body \in ComponentBodies
    BY <1>1 DEF ComponentBodies, Parsed, Written
  <1>2. CASE body \in ClassicBodies
    <2>1. /\ body.content \in Seq(Strings) /\ body.embeds \in Seq(Embeds)
          /\ body.components \in Seq(Components) /\ body.kind = "classic"
      BY <1>2 DEF ClassicBodies
    <2>2. PICK a, g, c \in Seq(Components) :
              /\ a = AsContent(body.content) /\ g = Gathered(OfEmbed, body.embeds)
              /\ c = body.components /\ Convert(body) = a \o g \o c
      BY <1>2, ConvertIs
    <2>3. PICK w \in Seq(Components) : w = Parsed(body) /\ w = a \o g \o c
      BY <2>1, <2>2, ConcatProperties DEF Parsed
    <2>4. NonBlank(TextOf(w)) = Gathered(InWhole, w)
      BY ReadersAre, ReaderMaps, ReadIs DEF InWhole
    <2>5. Gathered(InWhole, w) = Gathered(InWhole, a) \o Gathered(InWhole, g) \o Gathered(InWhole, c)
      <3>1. PICK ag \in Seq(Components) : ag = a \o g
        BY ConcatProperties
      <3>2. Gathered(InWhole, ag \o c) = Gathered(InWhole, ag) \o Gathered(InWhole, c)
        BY ReadingConcat
      <3>3. Gathered(InWhole, a \o g) = Gathered(InWhole, a) \o Gathered(InWhole, g)
        BY ReadingConcat
      <3>4. QED
        BY <2>3, <3>1, <3>2, <3>3
    <2>6. Gathered(InWhole, a) = NonBlank(body.content)
      <3>1. CASE Blank(body.content)
        <4>1. a = <<>> /\ NonBlank(body.content) = <<>>
          BY <2>1, <2>2, <3>1, BlankIs DEF AsContent
        <4>2. QED
          BY <4>1, GatheredEmpty
      <3>2. CASE ~Blank(body.content)
        <4>1. PICK t \in Leaves :
                  /\ t = Text(body.content) /\ t.text = body.content
                  /\ t \in InnerComponents /\ t \in Components
          BY <2>1, TextFields
        <4>2. a = <<t>>
          BY <2>2, <3>2, <4>1 DEF AsContent
        <4>3. Gathered(InWhole, <<t>>) = InWhole[t]
          BY <4>1, ReadingMaps, GatheredOne
        <4>4. InWhole[t] = InInner[t]
          BY <4>1, ReaderMaps, ReadsAgree DEF InWhole, InInner
        <4>5. QED
          BY <4>1, <4>2, <4>3, <4>4, ReadingMaps
      <3>3. QED
        BY <3>1, <3>2
    <2>7. PICK s \in Seq(Embeds) : s = body.embeds
      BY <2>1
    <2>8. PICK t \in Seq(Strings) : t = Gathered(EmbedText, s)
      BY EmbedTextMap, GatheredType
    <2>9. Gathered(InWhole, g) = NonBlank(t)
      <3>1. PICK Z : Z = [e \in Embeds |-> NonBlank(EmbedText[e])]
        OBVIOUS
      <3>2. \A e \in Embeds : EmbedText[e] \in Seq(Strings)
        BY EmbedTextMap DEF IsMap
      <3>3. IsMap(Z, Embeds, Seq(Strings))
        BY <3>1, <3>2, NonBlankIs DEF IsMap
      <3>4. Composes(Z, InWhole, OfEmbed, Embeds)
        BY <3>1, EmbedRead DEF Composes
      <3>5. Composes(Z, NonBlankOne, EmbedText, Embeds)
        BY <3>1, <3>2, NonBlankIs DEF Composes
      <3>6. Gathered(InWhole, Gathered(OfEmbed, s)) = Gathered(Z, s)
        BY <3>3, <3>4, OfEmbedMap, ReadingMaps, GatheredOfGathered
      <3>7. Gathered(NonBlankOne, Gathered(EmbedText, s)) = Gathered(Z, s)
        BY <3>3, <3>5, EmbedTextMap, NonBlankOneMap, GatheredOfGathered
      <3>8. NonBlank(t) = Gathered(NonBlankOne, t)
        BY NonBlankIs
      <3>9. QED
        BY <2>2, <2>7, <2>8, <3>6, <3>7, <3>8
    <2>10. Gathered(InWhole, c) = NonBlank(TextOf(c))
      BY ReadersAre, ReaderMaps, ReadIs DEF InWhole
    <2>11. PICK p, q \in Seq(Strings) : p = body.content /\ q = TextOf(c)
      BY <2>1, TextOfIs
    <2>12. Written(body) = NonBlank(p \o t \o q)
      <3>1. DOMAIN s = 1..Len(s) /\ \A i \in 1..Len(s) : s[i] \in Embeds
        BY Domains, ElementOfSeq
      <3>2. [i \in DOMAIN s |->
                LET e == s[i] IN e.header \o e.description \o e.fields \o e.footer]
              = Mapped(EmbedText, s)
        BY <3>1 DEF Mapped, EmbedText
      <3>3. QED
        BY <2>1, <2>2, <2>7, <2>8, <2>11, <3>2 DEF Written, Gathered
    <2>13. NonBlank(p \o t \o q) = NonBlank(p) \o NonBlank(t) \o NonBlank(q)
      <3>1. PICK pt \in Seq(Strings) : pt = p \o t
        BY ConcatProperties
      <3>2. NonBlank(pt \o q) = NonBlank(pt) \o NonBlank(q)
        BY NonBlankConcat
      <3>3. NonBlank(p \o t) = NonBlank(p) \o NonBlank(t)
        BY NonBlankConcat
      <3>4. QED
        BY <3>1, <3>2, <3>3
    <2>14. QED
      BY <2>3, <2>4, <2>5, <2>6, <2>9, <2>10, <2>11, <2>12, <2>13
  <1>3. QED
    BY <1>1, <1>2

-----------------------------------------------------------------------------
(* Conversion keeps every picture and button, in order.                     *)

\* A reader that finds nothing in texts, sections and containers, and G of its URL
\* in a picture.
Shows(W, G) ==
    /\ \A c \in Components : c.type \in {"text", "section", "container"} => W[c] = <<>>
    /\ \A c \in Components :
            c.type \in {"thumbnail", "gallery"} /\ c.url # NoUrl => W[c] = G[c.url]
    /\ G[NoUrl] = <<>>

LEMMA PicturesShown ==
    ASSUME NEW T, NEW W, IsMap(W, Components, Seq(T)), NEW G, IsMap(G, Strings, Seq(T)),
           Shows(W, G), NEW url \in Strings
    PROVE  Pictures(url) \in Seq(Leaves) /\ Gathered(ReadInner(W), Pictures(url)) = G[url]
  <1>1. PICK g \in Leaves : g = Gallery(url) /\ g.type = "gallery" /\ g.url = url
    BY PictureFields
  <1>2. g \in InnerComponents /\ g \in Components
    BY Nesting
  <1>3. PICK V : V = ReadInner(W) /\ IsMap(V, InnerComponents, Seq(T)) /\ V[g] = W[g]
    BY ReadInnerMap, ReadsAgree
  <1>4. url # NoUrl => V[g] = G[url]
    BY <1>1, <1>2, <1>3 DEF Shows
  <1>5. Gathered(V, <<g>>) = V[g]
    BY <1>2, <1>3, GatheredOne
  <1>6. <<g>> \in Seq(Leaves) /\ <<>> \in Seq(Leaves)
    OBVIOUS
  <1>7. CASE url = NoUrl
    <2>1. Pictures(url) = <<>> /\ G[url] = <<>>
      BY <1>7 DEF Pictures, Shows
    <2>2. QED
      BY <1>6, <2>1, GatheredEmpty
  <1>8. CASE url # NoUrl
    <2>1. Pictures(url) = <<g>>
      BY <1>1, <1>8 DEF Pictures
    <2>2. QED
      BY <1>3, <1>4, <1>5, <1>6, <1>8, <2>1
  <1>9. QED
    BY <1>7, <1>8

\* Of texts a reader of pictures finds nothing.
LEMMA TextsShowNothing ==
    ASSUME NEW T, NEW W, IsMap(W, Components, Seq(T)), NEW G, Shows(W, G), NEW e \in Embeds
    PROVE  Gathered(W, Mapped(AsText, Texts(e))) = <<>>
  <1>1. PICK t \in Seq(Seq(Strings)) : t = Texts(e)
    BY TextsAre
  <1>2. PICK Z : Z = [p \in Seq(Strings) |-> W[AsText[p]]]
    OBVIOUS
  <1>3. Follows(Z, W, AsText, Seq(Strings))
    BY <1>2 DEF Follows
  <1>4. GivesNothing(Z, Seq(Strings))
    <2>1. ASSUME NEW p \in Seq(Strings)
          PROVE  Z[p] = <<>>
      <3>1. PICK l \in Components : l = Text(p) /\ l.type = "text"
        BY TextFields
      <3>2. W[l] = <<>>
        BY <3>1 DEF Shows
      <3>3. QED
        BY <1>2, <3>1, <3>2 DEF AsText
    <2>2. QED
      BY <2>1 DEF GivesNothing
  <1>5. Gathered(W, Mapped(AsText, t)) = Gathered(Z, t)
    BY <1>3, AsTextMap, GatheredOfMapped
  <1>6. Gathered(Z, t) = <<>>
    BY <1>4, GatheredNothing
  <1>7. QED
    BY <1>1, <1>5, <1>6

LEMMA ChildrenShow ==
    ASSUME NEW T, NEW W, IsMap(W, Components, Seq(T)), NEW G, IsMap(G, Strings, Seq(T)),
           Shows(W, G), NEW e \in Embeds
    PROVE  Gathered(ReadInner(W), Children(e)) = G[e.thumbnail] \o G[e.image]
  <1>1. PICK V : V = ReadInner(W) /\ IsMap(V, InnerComponents, Seq(T))
    BY ReadInnerMap
  <1>2. e.thumbnail \in Strings /\ e.image \in Strings /\ e.footer \in Seq(Strings)
    BY DEF Embeds
  <1>3. PICK u, v \in Seq(T) : u = G[e.thumbnail] /\ v = G[e.image]
    BY <1>2 DEF IsMap
  <1>4. PICK texts \in Seq(Leaves) :
            /\ texts = [i \in DOMAIN Texts(e) |-> Text(Texts(e)[i])]
            /\ texts = Mapped(AsText, Texts(e))
    BY TextsAre
  <1>5. Gathered(W, texts) = <<>>
    BY <1>4, TextsShowNothing
  <1>6. Gathered(V, texts) = <<>>
    <2>1. SameOn(V, W, Leaves)
      BY <1>1, ReadsAgree DEF SameOn
    <2>2. QED
      BY <1>5, <2>1, MappedSame
  <1>7. Gathers(V, InnerComponents)
    BY <1>1, GatheredOfTwo
  <1>8. PICK first \in Seq(InnerComponents) :
            /\ first = IF e.thumbnail # NoUrl /\ texts # <<>>
                       THEN <<Section(texts, Thumbnail(e.thumbnail))>>
                       ELSE texts \o Pictures(e.thumbnail)
            /\ Gathered(V, first) = u
    <2>1. PICK l \in Leaves : l = Thumbnail(e.thumbnail) /\ l.type = "thumbnail" /\ l.url = e.thumbnail
      BY <1>2, PictureFields
    <2>2. PICK s \in InnerComponents :
              /\ s = Section(texts, l) /\ s.type = "section" /\ s.children = texts
              /\ s.accessory = <<l>>
      BY SectionFields
    <2>3. l \in Components /\ s \in Components
      BY Nesting
    <2>4. W[s] = <<>> /\ (e.thumbnail # NoUrl => W[l] = u)
      BY <1>3, <2>1, <2>2, <2>3 DEF Shows
    <2>5. Gathered(W, <<l>>) = W[l]
      BY <2>3, GatheredOne
    <2>6. ASSUME e.thumbnail # NoUrl
          PROVE  V[s] = u
      <3>1. V[s] = <<>> \o <<>> \o u
        BY <1>1, <1>5, <2>2, <2>4, <2>5, <2>6 DEF ReadInner
      <3>2. QED
        BY <3>1
    <2>7. Gathered(V, <<s>>) = V[s]
      BY <1>1, GatheredOne
    <2>8. <<s>> \in Seq(InnerComponents)
      OBVIOUS
    <2>9. PICK p \in Seq(InnerComponents) : p = Pictures(e.thumbnail) /\ Gathered(V, p) = u
      BY <1>1, <1>2, <1>3, PicturesShown, Nesting
    <2>10. PICK q \in Seq(InnerComponents) : q = texts
      BY Nesting
    <2>11. q \o p \in Seq(InnerComponents) /\ Gathered(V, q \o p) = u
      <3>1. Gathered(V, q \o p) = Gathered(V, q) \o Gathered(V, p)
        BY <1>7 DEF Gathers
      <3>2. Gathered(V, q \o p) = <<>> \o u
        BY <1>6, <2>9, <2>10, <3>1
      <3>3. QED
        BY <3>2, ConcatProperties
    <2>12. QED
      BY <2>1, <2>2, <2>6, <2>7, <2>8, <2>9, <2>10, <2>11
  <1>9. PICK second \in Seq(InnerComponents) :
            second = Pictures(e.image) /\ Gathered(V, second) = v
    BY <1>1, <1>2, <1>3, PicturesShown, Nesting
  <1>10. PICK third \in Seq(InnerComponents) :
            /\ third = IF Blank(e.footer) THEN <<>> ELSE <<Text(e.footer)>>
            /\ Gathered(V, third) = <<>>
    <2>1. PICK t \in Leaves :
              t = Text(e.footer) /\ t.type = "text" /\ t \in InnerComponents /\ t \in Components
      BY <1>2, TextFields
    <2>2. W[t] = <<>>
      BY <2>1 DEF Shows
    <2>3. V[t] = W[t]
      BY <1>1, <2>1, ReadsAgree
    <2>4. Gathered(V, <<t>>) = <<>>
      BY <1>1, <2>1, <2>2, <2>3, GatheredOne
    <2>5. <<t>> \in Seq(InnerComponents) /\ <<>> \in Seq(InnerComponents)
      BY <2>1
    <2>6. QED
      BY <2>1, <2>4, <2>5, GatheredEmpty
  <1>11. Children(e) = first \o second \o third
    BY <1>4, <1>8, <1>9, <1>10 DEF Children
  <1>12. PICK fs \in Seq(InnerComponents) : fs = first \o second
    BY ConcatProperties
  <1>13. Gathered(V, fs \o third) = Gathered(V, fs) \o Gathered(V, third)
    BY <1>7 DEF Gathers
  <1>14. Gathered(V, fs) = u \o v
    <2>1. Gathered(V, first \o second) = Gathered(V, first) \o Gathered(V, second)
      BY <1>7 DEF Gathers
    <2>2. QED
      BY <1>8, <1>9, <1>12, <2>1
  <1>15. Gathered(V, Children(e)) = (u \o v) \o <<>>
    BY <1>10, <1>11, <1>12, <1>13, <1>14
  <1>16. QED
    BY <1>1, <1>3, <1>15, ConcatProperties

LEMMA EmbedShows ==
    ASSUME NEW T, NEW W, IsMap(W, Components, Seq(T)), NEW G, IsMap(G, Strings, Seq(T)),
           Shows(W, G), NEW e \in Embeds
    PROVE  Gathered(ReadWhole(W), OfEmbed[e]) = G[e.thumbnail] \o G[e.image]
  <1>1. PICK V : V = ReadWhole(W) /\ IsMap(V, Components, Seq(T))
    BY ReadWholeMap
  <1>2. PICK s \in Seq(InnerComponents) : s = Children(e)
    BY ChildrenType
  <1>3. PICK g \in Seq(T) : g = Gathered(ReadInner(W), s) /\ g = G[e.thumbnail] \o G[e.image]
    BY <1>2, ChildrenShow, ReadInnerMap, GatheredType
  <1>4. CASE s = <<>>
    <2>1. OfEmbed[e] = <<>> /\ g = <<>>
      BY <1>2, <1>3, <1>4, GatheredEmpty DEF OfEmbed, ConvertEmbed
    <2>2. QED
      BY <1>3, <2>1, GatheredEmpty
  <1>5. CASE s # <<>>
    <2>1. PICK c \in Components :
              c = Container(s) /\ c.type = "container" /\ c.children = s /\ c.accessory = <<>>
      BY ContainerFields
    <2>2. OfEmbed[e] = <<c>>
      BY <1>2, <1>5, <2>1 DEF OfEmbed, ConvertEmbed
    <2>3. Gathered(V, <<c>>) = V[c]
      BY <1>1, GatheredOne
    <2>4. W[c] = <<>>
      BY <2>1 DEF Shows
    <2>5. V[c] = <<>> \o g \o <<>>
      BY <1>1, <1>3, <2>1, <2>4, GatheredEmpty DEF ReadWhole
    <2>6. V[c] = g
      BY <2>5
    <2>7. QED
      BY <1>1, <1>3, <2>2, <2>3, <2>6
  <1>6. QED
    BY <1>4, <1>5

\* G of the pictures of an embed.
OfPictures(G) == [e \in Embeds |-> G[e.thumbnail] \o G[e.image]]

LEMMA OfPicturesMap ==
    ASSUME NEW T, NEW G, IsMap(G, Strings, Seq(T))
    PROVE  IsMap(OfPictures(G), Embeds, Seq(T))
  <1>1. ASSUME NEW e \in Embeds
        PROVE  G[e.thumbnail] \o G[e.image] \in Seq(T)
    <2>1. e.thumbnail \in Strings /\ e.image \in Strings
      BY DEF Embeds
    <2>2. PICK u, v \in Seq(T) : u = G[e.thumbnail] /\ v = G[e.image]
      BY <2>1 DEF IsMap
    <2>3. QED
      BY <2>2, ConcatProperties
  <1>2. QED
    BY <1>1 DEF IsMap, OfPictures

\* What conversion shows: the pictures of the embeds, then what was there.
LEMMA ConvertShows ==
    ASSUME NEW T, NEW W, IsMap(W, Components, Seq(T)), NEW G, IsMap(G, Strings, Seq(T)),
           Shows(W, G), NEW body \in ClassicBodies
    PROVE  Read(W, Convert(body))
                = Gathered(OfPictures(G), body.embeds) \o Read(W, body.components)
  <1>1. PICK V : V = ReadWhole(W) /\ IsMap(V, Components, Seq(T))
    BY ReadWholeMap
  <1>2. Gathers(V, Components)
    BY <1>1, GatheredOfTwo
  <1>3. body.content \in Seq(Strings)
    BY DEF ClassicBodies
  <1>4. PICK a, g, c \in Seq(Components) :
            /\ a = AsContent(body.content) /\ g = Gathered(OfEmbed, body.embeds)
            /\ c = body.components /\ Convert(body) = a \o g \o c
    BY ConvertIs
  <1>5. PICK s \in Seq(Embeds) : s = body.embeds
    BY ConvertIs
  <1>6. PICK w \in Seq(Components) : w = Convert(body)
    BY ConvertIs
  <1>7. Gathered(V, a) = <<>>
    <2>1. PICK t \in Components :
              t = Text(body.content) /\ t.type = "text" /\ t \in Leaves /\ t \in InnerComponents
      BY <1>3, TextFields
    <2>2. W[t] = <<>>
      BY <2>1 DEF Shows
    <2>3. V[t] = W[t]
      BY <1>1, <2>1, ReadsAgree
    <2>4. Gathered(V, <<t>>) = <<>>
      BY <1>1, <2>2, <2>3, GatheredOne
    <2>5. a = <<>> \/ a = <<t>>
      BY <1>4, <2>1 DEF AsContent
    <2>6. QED
      BY <2>4, <2>5, GatheredEmpty
  <1>8. PICK z \in Seq(T) : z = Gathered(OfPictures(G), s) /\ Gathered(V, g) = z
    <2>1. PICK Z : Z = OfPictures(G) /\ IsMap(Z, Embeds, Seq(T))
      BY OfPicturesMap
    <2>2. Composes(Z, V, OfEmbed, Embeds)
      BY <1>1, <2>1, EmbedShows DEF Composes, OfPictures
    <2>3. Gathered(V, Gathered(OfEmbed, s)) = Gathered(Z, s)
      BY <1>1, <2>1, <2>2, OfEmbedMap, GatheredOfGathered
    <2>4. QED
      BY <1>4, <1>5, <2>1, <2>3, GatheredType
  <1>9. PICK r \in Seq(T) : r = Gathered(V, c)
    BY <1>1, GatheredType
  <1>10. PICK ag \in Seq(Components) : ag = a \o g
    BY ConcatProperties
  <1>11. Gathered(V, ag) = <<>> \o z
    <2>1. Gathered(V, a \o g) = Gathered(V, a) \o Gathered(V, g)
      BY <1>2 DEF Gathers
    <2>2. QED
      BY <1>7, <1>8, <1>10, <2>1
  <1>12. Gathered(V, ag) = z
    BY <1>11, ConcatProperties
  <1>13. Gathered(V, w) = z \o r
    <2>1. Gathered(V, ag \o c) = Gathered(V, ag) \o Gathered(V, c)
      BY <1>2 DEF Gathers
    <2>2. QED
      BY <1>4, <1>6, <1>9, <1>10, <1>12, <2>1
  <1>14. Read(W, w) = Gathered(V, w) /\ Read(W, c) = Gathered(V, c)
    BY <1>1, ReadIs
  <1>15. QED
    BY <1>4, <1>5, <1>6, <1>8, <1>9, <1>13, <1>14

\* The address of a picture, where there is one.
OneUrl == [url \in Strings |-> IF url # NoUrl THEN <<url>> ELSE <<>>]
NoControl == [url \in Strings |-> <<>>]

LEMMA ReadersShow ==
    /\ IsMap(OneUrl, Strings, Seq(Strings)) /\ Shows(ReadUrls, OneUrl)
    /\ IsMap(NoControl, Strings, Seq(Marks)) /\ Shows(ReadControls, NoControl)
  <1>1. NoUrl \in Strings
    BY PayloadsAssumption
  <1>2. \A c \in Components : c.url \in Strings
    BY DEF Components, Shape
  <1>3. IsMap(OneUrl, Strings, Seq(Strings))
    <2>1. \A url \in Strings : <<url>> \in Seq(Strings)
      OBVIOUS
    <2>2. <<>> \in Seq(Strings)
      BY EmptySeq
    <2>3. QED
      BY <2>1, <2>2 DEF IsMap, OneUrl
  <1>4. IsMap(NoControl, Strings, Seq(Marks))
    <2>1. <<>> \in Seq(Marks)
      BY EmptySeq
    <2>2. QED
      BY <2>1 DEF IsMap, NoControl
  <1>5. Shows(ReadUrls, OneUrl)
    BY <1>1, <1>2 DEF Shows, ReadUrls, OneUrl
  <1>6. Shows(ReadControls, NoControl)
    BY <1>1, <1>2 DEF Shows, ReadControls, NoControl
  <1>7. QED
    BY <1>3, <1>4, <1>5, <1>6

LEMMA EmbedUrlsAre ==
    ASSUME NEW e \in Embeds
    PROVE  EmbedUrls(e) = OfPictures(OneUrl)[e]
  <1>1. PICK u, v \in Strings : u = e.thumbnail /\ v = e.image
    BY DEF Embeds
  <1>2. <<u, v>> \in Seq(Strings)
    OBVIOUS
  <1>3. PICK s \in Seq(Strings) : s = <<u, v>>
    BY <1>2
  <1>4. DOMAIN s = 1..Len(s) /\ \A i \in 1..Len(s) : s[i] \in Strings
    BY Domains, ElementOfSeq
  <1>5. [i \in DOMAIN s |-> IF s[i] # NoUrl THEN <<s[i]>> ELSE <<>>] = Mapped(OneUrl, s)
    BY <1>4 DEF Mapped, OneUrl
  <1>6. EmbedUrls(e) = Gathered(OneUrl, s)
    BY <1>1, <1>3, <1>5 DEF EmbedUrls, Filtered, Gathered
  <1>7. Pairs(OneUrl, Strings)
    BY ReadersShow, TwoAre
  <1>8. Gathered(OneUrl, <<u, v>>) = OneUrl[u] \o OneUrl[v]
    BY <1>7 DEF Pairs
  <1>9. EmbedUrls(e) = OneUrl[u] \o OneUrl[v]
    BY <1>3, <1>6, <1>8
  <1>10. OfPictures(OneUrl)[e] = OneUrl[u] \o OneUrl[v]
    BY <1>1 DEF OfPictures
  <1>11. QED
    BY <1>9, <1>10

\* What becomes of a body holds the pictures and the buttons that were written.
LEMMA WrittenIsShown ==
    ASSUME NEW body \in ComponentBodies \union ClassicBodies
    PROVE  /\ Urls(Parsed(body)) = WrittenUrls(body)
           /\ Controls(Parsed(body)) = Controls(body.components)
  <1>1. CASE body \in ComponentBodies
    <2>1. body.kind = "components" /\ body.components \in Seq(Components)
      BY <1>1 DEF ComponentBodies
    <2>2. PICK u \in Seq(Strings) : u = Urls(body.components)
      BY <2>1, UrlsType
    <2>3. WrittenUrls(body) = <<>> \o u
      BY <2>1, <2>2 DEF WrittenUrls
    <2>4. Parsed(body) = body.components
      BY <2>1 DEF Parsed
    <2>5. QED
      BY <2>2, <2>3, <2>4, ConcatProperties
  <1>2. CASE body \in ClassicBodies
    <2>1. body.kind = "classic"
      BY <1>2 DEF ClassicBodies
    <2>2. PICK w, c \in Seq(Components) :
              /\ w = Convert(body) /\ c = body.components
              /\ Parsed(body) = w
      BY <1>2, <2>1, ConvertIs DEF Parsed
    <2>3. PICK s \in Seq(Embeds) : s = body.embeds
      BY <1>2, ConvertIs
    <2>4. Urls(w) = Gathered(OfPictures(OneUrl), s) \o Urls(c)
      <3>1. Read(ReadUrls, Convert(body))
              = Gathered(OfPictures(OneUrl), body.embeds) \o Read(ReadUrls, body.components)
        BY <1>2, ReaderMaps, ReadersShow, ConvertShows
      <3>2. QED
        BY <2>2, <2>3, <3>1, ReadersAre
    <2>5. Controls(w) = Gathered(OfPictures(NoControl), s) \o Controls(c)
      <3>1. Read(ReadControls, Convert(body))
              = Gathered(OfPictures(NoControl), body.embeds) \o Read(ReadControls, body.components)
        BY <1>2, ReaderMaps, ReadersShow, ConvertShows
      <3>2. QED
        BY <2>2, <2>3, <3>1, ReadersAre
    <2>6. Gathered(OfPictures(NoControl), s) = <<>>
      <3>1. \A e \in Embeds : e.thumbnail \in Strings /\ e.image \in Strings
        BY DEF Embeds
      <3>2. <<>> \o <<>> = <<>>
        OBVIOUS
      <3>3. GivesNothing(OfPictures(NoControl), Embeds)
        BY <3>1, <3>2 DEF GivesNothing, OfPictures, NoControl
      <3>4. QED
        BY <3>3, GatheredNothing
    <2>7. WrittenUrls(body) = Gathered(OfPictures(OneUrl), s) \o Urls(c)
      <3>1. DOMAIN s = 1..Len(s) /\ \A i \in 1..Len(s) : s[i] \in Embeds
        BY Domains, ElementOfSeq
      <3>2. [i \in DOMAIN s |-> EmbedUrls(s[i])] = Mapped(OfPictures(OneUrl), s)
        BY <3>1, EmbedUrlsAre DEF Mapped
      <3>3. QED
        BY <2>1, <2>2, <2>3, <3>2 DEF WrittenUrls, Gathered
    <2>8. PICK r \in Seq(Marks) : r = Controls(c)
      BY ControlsType
    <2>9. <<>> \o r = r
      BY ConcatProperties
    <2>10. QED
      BY <2>2, <2>4, <2>5, <2>6, <2>7, <2>8, <2>9
  <1>3. QED
    BY <1>1, <1>2

-----------------------------------------------------------------------------
(* The valid bodies.                                                        *)

LEMMA ValidIs ==
    ASSUME NEW components \in Seq(Components)
    PROVE  Valid(components) <=>
               /\ components # <<>> /\ components \in Seq(ValidComponents)
               /\ Count(components) <= MaxComponents
  <1>1. /\ DOMAIN components = 1..Len(components)
        /\ \A i \in 1..Len(components) : components[i] \in Components
    BY Domains, ElementOfSeq
  <1>2. ASSUME \A i \in DOMAIN components : ValidComponent(components[i])
        PROVE  components \in Seq(ValidComponents)
    <2>1. \A i \in 1..Len(components) : components[i] \in ValidComponents
      BY <1>1, <1>2 DEF ValidComponents
    <2>2. QED
      BY <2>1, AllIn
  <1>3. ASSUME components \in Seq(ValidComponents)
        PROVE  \A i \in DOMAIN components : ValidComponent(components[i])
    <2>1. \A i \in 1..Len(components) : components[i] \in ValidComponents
      BY <1>3, ElementOfSeq
    <2>2. QED
      BY <1>1, <2>1 DEF ValidComponents
  <1>4. QED
    BY <1>2, <1>3 DEF Valid

-----------------------------------------------------------------------------
(* The button takes room for two components at most.                       *)

LEMMA KeptFewer ==
    ASSUME NEW x \in InnerComponents
    PROVE  Len(KeptLeaves(x)) <= Len(x.children)
  <1>1. PICK s \in Seq(Leaves) : s = x.children
    BY PartTypes
  <1>2. PICK One : One = [l \in Leaves |-> <<l>>]
    OBVIOUS
  <1>3. IsMap(One, Leaves, Seq(Leaves))
    BY <1>2 DEF IsMap
  <1>4. GivesLess(OfLeaf, One, Leaves)
    <2>1. ASSUME NEW l \in Leaves
          PROVE  Len(OfLeaf[l]) <= Len(One[l])
      <3>1. OfLeaf[l] = IF l.id = Verify THEN <<>> ELSE <<l>>
        BY OfLeafIs DEF OfLeaf
      <3>2. Len(<<l>>) = 1 /\ Len(<<>>) = 0 /\ One[l] = <<l>>
        BY <1>2
      <3>3. QED
        BY <3>1, <3>2
    <2>2. QED
      BY <2>1 DEF GivesLess
  <1>5. Len(Gathered(OfLeaf, s)) <= Len(Gathered(One, s))
    BY <1>3, <1>4, OfLeafMap, GatheredLess
  <1>6. Gathered(One, s) = s
    <2>1. IsIdentity(One, Leaves)
      BY <1>2 DEF IsIdentity
    <2>2. QED
      BY <2>1, GatheredItself
  <1>7. QED
    BY <1>1, <1>5, <1>6 DEF KeptLeaves

LEMMA InnerLengths ==
    ASSUME NEW x \in InnerComponents
    PROVE  /\ Len(InnerParts[x]) = 1 + Len(x.children) + Len(x.accessory)
           /\ Len(x.children) \in Nat /\ Len(x.accessory) \in Nat
  <1>1. PICK a, b, c \in Seq(Components) :
            a = <<x>> /\ b = x.children /\ c = x.accessory
    <2>1. x \in Components /\ x.children \in Seq(Components) /\ x.accessory \in Seq(Components)
      BY PartTypes, Nesting
    <2>2. <<x>> \in Seq(Components)
      BY <2>1
    <2>3. QED
      BY <2>1, <2>2
  <1>2. Len(<<x>>) = 1
    OBVIOUS
  <1>3. InnerParts[x] = a \o b \o c
    BY <1>1 DEF InnerParts
  <1>4. Len(a \o b \o c) = Len(a) + Len(b) + Len(c)
    BY ThreeLengths
  <1>5. Len(b) \in Nat /\ Len(c) \in Nat
    BY LenProperties
  <1>6. QED
    BY <1>1, <1>2, <1>3, <1>4, <1>5

LEMMA WholeLengths ==
    ASSUME NEW x \in Components
    PROVE  /\ Len(Parts(x)) = 1 + Len(Gathered(InnerParts, x.children)) + Len(x.accessory)
           /\ Len(Gathered(InnerParts, x.children)) \in Nat /\ Len(x.accessory) \in Nat
  <1>1. PICK a, b, c \in Seq(Components) :
            a = <<x>> /\ b = Gathered(InnerParts, x.children) /\ c = x.accessory
    <2>1. x.accessory \in Seq(Components) /\ Gathered(InnerParts, x.children) \in Seq(Components)
      BY PartTypes, Nesting, PartsAre
    <2>2. <<x>> \in Seq(Components)
      OBVIOUS
    <2>3. QED
      BY <2>1, <2>2
  <1>2. Len(<<x>>) = 1
    OBVIOUS
  <1>3. Parts(x) = a \o b \o c
    BY <1>1, PartsAre
  <1>4. Len(a \o b \o c) = Len(a) + Len(b) + Len(c)
    BY ThreeLengths
  <1>5. Len(b) \in Nat /\ Len(c) \in Nat
    BY LenProperties
  <1>6. QED
    BY <1>1, <1>2, <1>3, <1>4, <1>5

\* The two lemmas above, by numbers.
LEMMA InnerNumbers ==
    ASSUME NEW x \in InnerComponents
    PROVE  \E n, m, k \in Nat :
               /\ n = Len(InnerParts[x]) /\ m = Len(x.children) /\ k = Len(x.accessory)
               /\ n = 1 + m + k
  <1>1. PICK m \in Nat : m = Len(x.children)
    BY InnerLengths
  <1>2. PICK k \in Nat : k = Len(x.accessory)
    BY InnerLengths
  <1>3. PICK n : n = Len(InnerParts[x])
    OBVIOUS
  <1>4. n = 1 + m + k
    BY <1>1, <1>2, <1>3, InnerLengths
  <1>5. n \in Nat
    BY <1>4
  <1>6. QED
    BY <1>1, <1>2, <1>3, <1>4, <1>5

LEMMA WholeNumbers ==
    ASSUME NEW x \in Components
    PROVE  \E n, m, k \in Nat :
               /\ n = Len(Parts(x)) /\ m = Len(Gathered(InnerParts, x.children))
               /\ k = Len(x.accessory) /\ n = 1 + m + k
  <1>1. PICK m \in Nat : m = Len(Gathered(InnerParts, x.children))
    BY WholeLengths
  <1>2. PICK k \in Nat : k = Len(x.accessory)
    BY WholeLengths
  <1>3. PICK n : n = Len(Parts(x))
    OBVIOUS
  <1>4. n = 1 + m + k
    BY <1>1, <1>2, <1>3, WholeLengths
  <1>5. n \in Nat
    BY <1>4
  <1>6. QED
    BY <1>1, <1>2, <1>3, <1>4, <1>5

LEMMA FewerInnerParts ==
    ASSUME NEW x \in InnerComponents
    PROVE  Len(Gathered(InnerParts, CleanInner(x))) <= Len(InnerParts[x])
  <1>1. PICK n, m, k \in Nat :
            n = Len(InnerParts[x]) /\ m = Len(x.children) /\ k = Len(x.accessory) /\ n = 1 + m + k
    BY InnerNumbers
  <1>2. KeptLeaves(x) \in Seq(Leaves)
    BY OfInnerIs
  <1>3. CASE CleanInner(x) = <<>>
    <2>1. Gathered(InnerParts, CleanInner(x)) = <<>>
      BY <1>3, GatheredEmpty
    <2>2. PICK z : z = Gathered(InnerParts, CleanInner(x)) /\ z = <<>>
      BY <2>1
    <2>3. Len(z) = 0
      BY <2>2
    <2>4. 0 <= n
      OBVIOUS
    <2>5. QED
      BY <1>1, <2>2, <2>3, <2>4
  <1>4. CASE CleanInner(x) = <<Text(TextOf(KeptLeaves(x)))>>
    <2>1. KeptLeaves(x) \in Seq(Components)
      BY <1>2, Nesting
    <2>2. PICK t \in InnerComponents :
              t = Text(TextOf(KeptLeaves(x))) /\ t.children = <<>> /\ t.accessory = <<>>
      BY <2>1, TextOfIs, TextFields
    <2>3. Gathered(InnerParts, <<t>>) = InnerParts[t]
      BY InnerPartsMap, GatheredOne
    <2>4. PICK i, j, l \in Nat :
              i = Len(InnerParts[t]) /\ j = Len(t.children) /\ l = Len(t.accessory) /\ i = 1 + j + l
      BY InnerNumbers
    <2>5. j = 0 /\ l = 0
      BY <2>2, <2>4
    <2>6. i <= n
      <3>1. n = 1 + m + k
        BY <1>1
      <3>2. i = 1 + j + l
        BY <2>4
      <3>3. QED
        BY <2>5, <3>1, <3>2
    <2>7. CleanInner(x) = <<t>>
      BY <1>4, <2>2
    <2>8. QED
      BY <1>1, <2>3, <2>4, <2>6, <2>7
  <1>5. CASE CleanInner(x) = <<With(x, KeptLeaves(x))>>
    <2>1. PICK w \in InnerComponents :
              w = With(x, KeptLeaves(x)) /\ w.children = KeptLeaves(x) /\ w.accessory = x.accessory
      BY <1>2, WithInner
    <2>2. Gathered(InnerParts, <<w>>) = InnerParts[w]
      BY InnerPartsMap, GatheredOne
    <2>3. PICK i, j, l \in Nat :
              i = Len(InnerParts[w]) /\ j = Len(w.children) /\ l = Len(w.accessory) /\ i = 1 + j + l
      BY InnerNumbers
    <2>4. j <= m
      BY <1>1, <2>1, <2>3, KeptFewer
    <2>5. l = k
      BY <1>1, <2>1, <2>3
    <2>6. i <= n
      BY <1>1, <2>3, <2>4, <2>5
    <2>7. CleanInner(x) = <<w>>
      BY <1>5, <2>1
    <2>8. QED
      BY <1>1, <2>2, <2>3, <2>6, <2>7
  <1>6. QED
    BY <1>3, <1>4, <1>5, OfInnerIs

LEMMA FewerParts ==
    ASSUME NEW x \in Components
    PROVE  Len(Gathered(ComponentParts, Clean(x))) <= Len(ComponentParts[x])
  <1>0. \A y \in Components : ComponentParts[y] = Parts(y)
    BY DEF ComponentParts
  <1>1. PICK n, m, k \in Nat :
            /\ n = Len(Parts(x)) /\ m = Len(Gathered(InnerParts, x.children))
            /\ k = Len(x.accessory) /\ n = 1 + m + k
    BY WholeNumbers
  <1>2. KeptInners(x) \in Seq(InnerComponents)
    BY OfWholeIs
  <1>3. CASE Clean(x) = <<>>
    <2>1. Gathered(ComponentParts, Clean(x)) = <<>>
      BY <1>3, GatheredEmpty
    <2>2. PICK z : z = Gathered(ComponentParts, Clean(x)) /\ z = <<>>
      BY <2>1
    <2>3. Len(z) = 0
      BY <2>2
    <2>4. 0 <= n
      OBVIOUS
    <2>5. QED
      BY <1>0, <1>1, <2>2, <2>3, <2>4
  <1>4. CASE Clean(x) = <<Text(TextOf(KeptInners(x)))>>
    <2>1. KeptInners(x) \in Seq(Components)
      BY <1>2, Nesting
    <2>2. PICK t \in Components :
              t = Text(TextOf(KeptInners(x))) /\ t.children = <<>> /\ t.accessory = <<>>
      BY <2>1, TextOfIs, TextFields
    <2>3. Gathered(ComponentParts, <<t>>) = ComponentParts[t]
      BY ComponentPartsMap, GatheredOne
    <2>4. PICK i, j, l \in Nat :
              /\ i = Len(Parts(t)) /\ j = Len(Gathered(InnerParts, t.children))
              /\ l = Len(t.accessory) /\ i = 1 + j + l
      BY WholeNumbers
    <2>5. j = 0 /\ l = 0
      <3>1. Gathered(InnerParts, <<>>) = <<>>
        BY GatheredEmpty
      <3>2. QED
        BY <2>2, <2>4, <3>1
    <2>6. i <= n
      <3>1. n = 1 + m + k
        BY <1>1
      <3>2. i = 1 + j + l
        BY <2>4
      <3>3. QED
        BY <2>5, <3>1, <3>2
    <2>7. Clean(x) = <<t>>
      BY <1>4, <2>2
    <2>8. QED
      BY <1>0, <1>1, <2>3, <2>4, <2>6, <2>7
  <1>5. CASE Clean(x) = <<With(x, KeptInners(x))>>
    <2>1. PICK w \in Components :
              w = With(x, KeptInners(x)) /\ w.children = KeptInners(x) /\ w.accessory = x.accessory
      BY <1>2, WithWhole
    <2>2. Gathered(ComponentParts, <<w>>) = ComponentParts[w]
      BY ComponentPartsMap, GatheredOne
    <2>3. PICK i, j, l \in Nat :
              /\ i = Len(Parts(w)) /\ j = Len(Gathered(InnerParts, w.children))
              /\ l = Len(w.accessory) /\ i = 1 + j + l
      BY WholeNumbers
    <2>4. j <= m
      <3>1. PICK s \in Seq(InnerComponents) : s = x.children
        BY PartTypes
      <3>2. \A y \in InnerComponents : Len(Gathered(InnerParts, OfInner[y])) <= Len(InnerParts[y])
        BY FewerInnerParts DEF OfInner
      <3>3. Len(Gathered(InnerParts, Gathered(OfInner, s))) <= Len(Gathered(InnerParts, s))
        BY <3>2, OfInnerMap, InnerPartsMap, ThroughLess
      <3>4. QED
        BY <1>1, <2>1, <2>3, <3>1, <3>3 DEF KeptInners
    <2>5. l = k
      BY <1>1, <2>1, <2>3
    <2>6. i <= n
      BY <1>1, <2>3, <2>4, <2>5
    <2>7. Clean(x) = <<w>>
      BY <1>5, <2>1
    <2>8. QED
      BY <1>0, <1>1, <2>2, <2>3, <2>6, <2>7
  <1>6. QED
    BY <1>3, <1>4, <1>5, OfWholeIs

LEMMA RoomForButton ==
    ASSUME NEW components \in Seq(Components)
    PROVE  /\ Count(WithVerificationButton(components)) <= Count(components) + 2
           /\ Count(components) \in Nat /\ Count(WithVerificationButton(components)) \in Nat
  <1>1. PICK g \in Seq(Components) : g = Gathered(OfWhole, components)
    BY WithVerificationButtonIs
  <1>2. PICK r \in Components : r = VerifyRow
    BY RowFields
  <1>3. PICK q \in Seq(Components) : q = <<r>>
    <2>1. <<r>> \in Seq(Components)
      OBVIOUS
    <2>2. QED
      BY <2>1
  <1>4. PICK w \in Seq(Components) : w = WithVerificationButton(components) /\ w = g \o q
    <2>1. PICK w \in Seq(Components) : w = WithVerificationButton(components)
      BY WithVerificationButtonIs
    <2>2. w = Gathered(OfWhole, components) \o <<VerifyRow>>
      BY <2>1, WithVerificationButtonIs
    <2>3. QED
      BY <1>1, <1>2, <1>3, <2>1, <2>2
  <1>5. PICK P : P = ComponentParts /\ IsMap(P, Components, Seq(Components))
    BY ComponentPartsMap
  <1>6. Gathered(P, g \o q) = Gathered(P, g) \o Gathered(P, q)
    <2>1. Gathers(P, Components)
      BY <1>5, GatheredOfTwo
    <2>2. QED
      BY <2>1 DEF Gathers
  <1>7. Gathered(P, g) \in Seq(Components) /\ Gathered(P, q) \in Seq(Components)
    BY <1>5, GatheredType
  <1>8. Len(Gathered(P, q)) = 2
    <2>1. Gathered(P, <<r>>) = P[r]
      BY <1>5, GatheredOne
    <2>2. PICK b \in InnerComponents :
              /\ b = Button(Verify) /\ b.children = <<>> /\ b.accessory = <<>>
              /\ r.children = <<b>> /\ r.accessory = <<>>
      BY <1>2, RowFields, ButtonFields
    <2>3. Gathered(InnerParts, <<b>>) = InnerParts[b]
      BY InnerPartsMap, GatheredOne
    <2>4. PICK i, j, l \in Nat :
              i = Len(InnerParts[b]) /\ j = Len(b.children) /\ l = Len(b.accessory) /\ i = 1 + j + l
      BY InnerNumbers
    <2>5. j = 0 /\ l = 0
      BY <2>2, <2>4
    <2>6. PICK n, m, k \in Nat :
              /\ n = Len(Parts(r)) /\ m = Len(Gathered(InnerParts, r.children))
              /\ k = Len(r.accessory) /\ n = 1 + m + k
      BY WholeNumbers
    <2>7. m = i /\ k = 0
      BY <2>2, <2>3, <2>4, <2>6
    <2>8. n = 2
      <3>1. n = 1 + m + k
        BY <2>6
      <3>2. i = 1 + j + l
        BY <2>4
      <3>3. QED
        BY <2>5, <2>7, <3>1, <3>2
    <2>9. QED
      BY <1>3, <1>5, <2>1, <2>6, <2>8 DEF ComponentParts
  <1>9. Len(Gathered(P, g)) <= Len(Gathered(P, components))
    <2>1. \A x \in Components : Len(Gathered(P, OfWhole[x])) <= Len(P[x])
      BY <1>5, FewerParts DEF OfWhole
    <2>2. QED
      BY <1>1, <1>5, <2>1, OfWholeMap, ThroughLess
  <1>10. Count(components) = Len(Gathered(P, components)) /\ Count(w) = Len(Gathered(P, w))
    BY <1>5, AllPartsAre DEF Count
  <1>11. Gathered(P, components) \in Seq(Components)
    BY <1>5, GatheredType
  <1>12. PICK i, j, k \in Nat :
             i = Len(Gathered(P, components)) /\ j = Len(Gathered(P, g)) /\ k = Count(w)
    BY <1>7, <1>4, <1>5, <1>10, <1>11, GatheredType, LenProperties
  <1>13. k = j + 2
    <2>1. Len(Gathered(P, g) \o Gathered(P, q)) = Len(Gathered(P, g)) + Len(Gathered(P, q))
      BY <1>7, ConcatProperties
    <2>2. QED
      BY <1>4, <1>6, <1>8, <1>10, <1>12, <2>1
  <1>14. k <= i + 2
    BY <1>9, <1>12, <1>13
  <1>15. QED
    BY <1>4, <1>10, <1>12, <1>14

-----------------------------------------------------------------------------
(* A valid body that leaves room for the button is valid with it.          *)

\* Where nothing is read, nothing is read from the parts.
LEMMA NothingInInner ==
    ASSUME NEW X, NEW W, IsMap(W, Components, Seq(X)), NEW x \in InnerComponents,
           ReadInner(W)[x] = <<>>
    PROVE  W[x] = <<>>
  <1>1. x \in Components /\ x.children \in Seq(Components) /\ x.accessory \in Seq(Components)
    BY PartTypes, Nesting
  <1>2. PICK a, b, c \in Seq(X) :
            a = W[x] /\ b = Gathered(W, x.children) /\ c = Gathered(W, x.accessory)
    <2>1. W[x] \in Seq(X)
      BY <1>1 DEF IsMap
    <2>2. Gathered(W, x.children) \in Seq(X) /\ Gathered(W, x.accessory) \in Seq(X)
      BY <1>1, GatheredType
    <2>3. QED
      BY <2>1, <2>2
  <1>3. (a \o b) \o c = <<>>
    BY <1>2 DEF ReadInner
  <1>4. a \o b \in Seq(X)
    BY ConcatProperties
  <1>5. a \o b = <<>>
    BY <1>3, <1>4, ConcatEqualIffEmpty
  <1>6. a = <<>>
    BY <1>5, ConcatEqualIffEmpty
  <1>7. QED
    BY <1>2, <1>6

LEMMA NothingInWhole ==
    ASSUME NEW X, NEW W, IsMap(W, Components, Seq(X)), NEW x \in Components,
           ReadWhole(W)[x] = <<>>
    PROVE  W[x] = <<>> /\ x.children \in Seq({y \in InnerComponents : W[y] = <<>>})
  <1>1. x.children \in Seq(InnerComponents) /\ x.accessory \in Seq(Components)
    BY PartTypes, Nesting
  <1>2. PICK R : R = ReadInner(W) /\ IsMap(R, InnerComponents, Seq(X))
    BY ReadInnerMap
  <1>3. PICK a, b, c \in Seq(X) :
            a = W[x] /\ b = Gathered(R, x.children) /\ c = Gathered(W, x.accessory)
    <2>1. W[x] \in Seq(X)
      BY DEF IsMap
    <2>2. Gathered(R, x.children) \in Seq(X) /\ Gathered(W, x.accessory) \in Seq(X)
      BY <1>1, <1>2, GatheredType
    <2>3. QED
      BY <2>1, <2>2
  <1>4. (a \o b) \o c = <<>>
    BY <1>2, <1>3 DEF ReadWhole
  <1>5. a \o b \in Seq(X)
    BY ConcatProperties
  <1>6. a \o b = <<>>
    BY <1>4, <1>5, ConcatEqualIffEmpty
  <1>7. a = <<>> /\ b = <<>>
    BY <1>6, ConcatEqualIffEmpty
  <1>8. x.children \in Seq({y \in InnerComponents : R[y] = <<>>})
    <2>1. PICK s \in Seq(InnerComponents) : s = x.children
      BY <1>1
    <2>2. Gathered(R, s) = <<>>
      BY <1>3, <1>7, <2>1
    <2>3. s \in Seq({y \in InnerComponents : R[y] = <<>>})
      BY <1>2, <2>2, NothingGathered
    <2>4. QED
      BY <2>1, <2>3
  <1>9. {y \in InnerComponents : R[y] = <<>>} \subseteq {y \in InnerComponents : W[y] = <<>>}
    BY <1>2, NothingInInner
  <1>10. Seq({y \in InnerComponents : R[y] = <<>>})
            \subseteq Seq({y \in InnerComponents : W[y] = <<>>})
    BY <1>9, LargerSeq
  <1>11. QED
    BY <1>3, <1>7, <1>8, <1>10

\* A reader that finds nothing in a body finds nothing in what the body is made of.
LEMMA NothingAnywhere ==
    ASSUME NEW X, NEW W, IsMap(W, Components, Seq(X)), NEW components \in Seq(Components),
           Read(W, components) = <<>>, NEW i \in 1..Len(components)
    PROVE  /\ components[i] \in Components
           /\ W[components[i]] = <<>>
           /\ components[i].children \in Seq({y \in InnerComponents : W[y] = <<>>})
  <1>1. PICK V : V = ReadWhole(W) /\ IsMap(V, Components, Seq(X))
    BY ReadWholeMap
  <1>2. Gathered(V, components) = <<>>
    BY <1>1, ReadIs
  <1>3. components \in Seq({c \in Components : V[c] = <<>>})
    BY <1>1, <1>2, NothingGathered
  <1>4. PICK c \in Components : c = components[i] /\ V[c] = <<>>
    BY <1>3, ElementOfSeq
  <1>5. QED
    BY <1>1, <1>4, NothingInWhole

\* The sections whose texts do not fit in one.
TooLong(c) ==
    /\ c.accessory # <<>> /\ c.accessory[1].id = Verify
    /\ Len(TextOf(c.children)) > MaxText

ReadTooLong == [c \in Components |-> IF TooLong(c) THEN <<c>> ELSE <<>>]

FittingItems == {x \in ValidItems : ~TooLong(x)}
FittingComponents ==
    {x \in ValidComponents : ~TooLong(x) /\ x.children \in Seq({y \in InnerComponents : ~TooLong(y)})}

LEMMA ReadTooLongIs ==
    /\ IsMap(ReadTooLong, Components, Seq(Components))
    /\ \A c \in Components : ReadTooLong[c] = <<>> <=> ~TooLong(c)
  <1>1. \A c \in Components : <<c>> \in Seq(Components) /\ <<>> \in Seq(Components) /\ <<c>> # <<>>
    OBVIOUS
  <1>2. \A c \in Components : ReadTooLong[c] = IF TooLong(c) THEN <<c>> ELSE <<>>
    BY DEF ReadTooLong
  <1>3. \A c \in Components : (IF TooLong(c) THEN <<c>> ELSE <<>>) \in Seq(Components)
    BY <1>1
  <1>4. QED
    BY <1>1, <1>2, <1>3 DEF ReadTooLong, IsMap

LEMMA Fitting ==
    ASSUME NEW components \in Seq(ValidComponents), ~Overflows(components)
    PROVE  components \in Seq(FittingComponents)
  <1>1. components \in Seq(Components)
    <2>1. ValidComponents \subseteq Components
      BY DEF ValidComponents
    <2>2. QED
      BY <2>1, LargerSeq
  <1>2. PICK p \in Seq(Components) : p = AllParts(components)
    BY <1>1, AllPartsAre
  <1>3. PICK Q : Q = {c \in Components : ~TooLong(c)}
    OBVIOUS
  <1>4. p \in Seq(Q)
    <2>1. DOMAIN p = 1..Len(p) /\ \A i \in 1..Len(p) : p[i] \in Components
      BY Domains, ElementOfSeq
    <2>2. \A i \in DOMAIN p : ~TooLong(p[i])
      BY <1>2 DEF Overflows, TooLong
    <2>3. \A i \in 1..Len(p) : p[i] \in Q
      BY <1>3, <2>1, <2>2
    <2>4. QED
      BY <2>3, AllIn
  <1>5. GivesNothing(ReadTooLong, Q)
    BY <1>3, ReadTooLongIs DEF GivesNothing
  <1>6. Gathered(ReadTooLong, p) = <<>>
    BY <1>4, <1>5, GatheredNothing
  <1>7. Read(ReadTooLong, components) = <<>>
    BY <1>2, <1>6 DEF Read
  <1>8. Seq({y \in InnerComponents : ReadTooLong[y] = <<>>})
            \subseteq Seq({y \in InnerComponents : ~TooLong(y)})
    <2>1. {y \in InnerComponents : ReadTooLong[y] = <<>>} \subseteq {y \in InnerComponents : ~TooLong(y)}
      BY Nesting, ReadTooLongIs
    <2>2. QED
      BY <2>1, LargerSeq
  <1>9. ASSUME NEW i \in 1..Len(components)
        PROVE  components[i] \in FittingComponents
    <2>1. PICK c \in ValidComponents : c = components[i]
      BY ElementOfSeq
    <2>2. /\ c \in Components /\ ReadTooLong[c] = <<>>
          /\ c.children \in Seq({y \in InnerComponents : ReadTooLong[y] = <<>>})
      BY <1>1, <1>7, <2>1, ReadTooLongIs, NothingAnywhere
    <2>3. ~TooLong(c) /\ c.children \in Seq({y \in InnerComponents : ~TooLong(y)})
      BY <1>8, <2>2, ReadTooLongIs
    <2>4. QED
      BY <2>1, <2>3 DEF FittingComponents
  <1>10. QED
    BY <1>1, <1>9, AllIn

\* The texts of a valid section are not blank when they are joined.
LEMMA JoinedText ==
    ASSUME NEW s \in Seq(ValidTexts), s # <<>>, ~(Len(TextOf(s)) > MaxText)
    PROVE  /\ Text(TextOf(s)) \in InnerComponents
           /\ ValidText(Text(TextOf(s)))
  <1>1. s \in Seq(Leaves) /\ s \in Seq(Components)
    <2>1. ValidTexts \subseteq Leaves
      BY DEF ValidTexts
    <2>2. s \in Seq(Leaves)
      BY <2>1, LargerSeq
    <2>3. QED
      BY <2>2, Nesting
  <1>2. PICK p \in Seq(Strings) : p = TextOf(s)
    BY <1>1, TextOfIs
  <1>3. NonBlank(p) = Gathered(ReadParagraphs, s)
    BY <1>1, <1>2, LeafParts, ReadersAre DEF Read
  <1>4. NonBlank(p) # <<>>
    <2>1. SUFFICES ASSUME Gathered(ReadParagraphs, s) = <<>>
                   PROVE  FALSE
      BY <1>3
    <2>2. s \in Seq({c \in Components : ReadParagraphs[c] = <<>>})
      BY <1>1, <2>1, ReaderMaps, NothingGathered
    <2>3. 1 \in 1..Len(s)
      BY LenProperties
    <2>4. s[1] \in ValidTexts /\ s[1] \in Components /\ ReadParagraphs[s[1]] = <<>>
      BY <2>2, <2>3, ElementOfSeq
    <2>5. PICK c \in Components : c = s[1] /\ c \in Leaves /\ ValidText(c)
      BY <2>4 DEF ValidTexts
    <2>6. NonBlank(c.text) = <<>>
      BY <2>4, <2>5 DEF ReadParagraphs
    <2>7. c.text \in Seq(Strings)
      BY DEF Components, Shape
    <2>8. Blank(c.text)
      BY <2>6, <2>7, BlankIs
    <2>9. QED
      BY <2>5, <2>8 DEF ValidText
  <1>5. ~Blank(p)
    BY <1>4, BlankIs
  <1>6. PICK n \in Nat : n = Len(p)
    BY LenProperties
  <1>7. n <= MaxText
    BY <1>2, <1>6, PayloadsAssumption
  <1>8. PICK t \in InnerComponents :
            /\ t = Text(p) /\ t.type = "text" /\ t.text = p /\ t.id = NoId
            /\ t.url = NoUrl /\ t.extra = {} /\ ~t.disabled /\ t.children = <<>> /\ t.accessory = <<>>
    BY TextFields
  <1>9. ValidText(t)
    BY <1>5, <1>6, <1>7, <1>8 DEF ValidText, Is
  <1>10. QED
    BY <1>2, <1>8, <1>9

LEMMA CleanFittingItem ==
    ASSUME NEW x \in FittingItems
    PROVE  CleanInner(x) \in Seq(ValidItems)
  <1>1. /\ x \in ValidItems /\ x \in InnerComponents /\ x \in Components
        /\ ValidItem(x) /\ ~TooLong(x)
    BY Nesting DEF FittingItems, ValidItems
  <1>2. <<x>> \in Seq(ValidItems) /\ <<>> \in Seq(ValidItems)
    BY <1>1
  <1>3. CASE PlainItem(x)
    BY <1>1, <1>2, <1>3, CleanPlain
  <1>4. CASE RowItem(x)
    <2>1. PICK k : k = KeptLeaves(x)
      OBVIOUS
    <2>2. /\ k \in Seq(ValidButtons) /\ Len(k) \in 0..5 /\ k \in Seq(Leaves)
          /\ CleanInner(x) = IF k = <<>> THEN <<>> ELSE <<With(x, k)>>
      BY <1>1, <1>4, <2>1, CleanRow, OfInnerIs
    <2>3. CASE k = <<>>
      BY <1>2, <2>2, <2>3
    <2>4. CASE k # <<>>
      <3>1. PICK w \in InnerComponents :
                /\ w = With(x, k) /\ w.children = k /\ w.accessory = x.accessory
                /\ w.type = x.type /\ w.text = x.text /\ w.id = x.id
                /\ w.url = x.url /\ w.extra = x.extra /\ w.disabled = x.disabled
        BY <1>1, <2>2, WithInner
      <3>2. Is(w, "row")
        BY <1>4, <3>1 DEF RowItem, Is
      <3>3. Len(k) \in 1..5
        <4>1. PICK n \in 0..5 : n = Len(k)
          BY <2>2
        <4>2. n # 0
          BY <2>2, <2>4, <4>1, EmptySeq
        <4>3. n \in 1..5
          BY <4>2
        <4>4. QED
          BY <4>1, <4>3
      <3>4. \A i \in DOMAIN k : ValidButton(k[i])
        <4>1. DOMAIN k = 1..Len(k) /\ \A i \in 1..Len(k) : k[i] \in ValidButtons
          BY <2>2, Domains, ElementOfSeq
        <4>2. QED
          BY <4>1 DEF ValidButtons
      <3>5. ValidRow(w)
        BY <3>1, <3>2, <3>3, <3>4 DEF ValidRow
      <3>6. w \in ValidItems
        BY <3>5 DEF ValidItems, ValidItem
      <3>7. <<w>> \in Seq(ValidItems)
        BY <3>6
      <3>8. QED
        BY <2>2, <2>4, <3>1, <3>7
    <2>5. QED
      BY <2>3, <2>4
  <1>5. CASE SectionItem(x)
    <2>1. x.children \in Seq(ValidTexts) /\ Len(x.children) \in 1..3 /\ Len(x.accessory) = 1
      BY <1>5 DEF SectionItem
    <2>2. x.children # <<>> /\ x.accessory # <<>>
      <3>1. Len(<<>>) = 0 /\ 0 \notin 1..3 /\ 0 # 1
        OBVIOUS
      <3>2. QED
        BY <2>1, <3>1
    <2>3. CASE x.accessory[1].id = Verify
      <3>1. ~(Len(TextOf(x.children)) > MaxText)
        BY <1>1, <2>2, <2>3 DEF TooLong
      <3>2. PICK t \in InnerComponents : t = Text(TextOf(x.children)) /\ ValidText(t)
        BY <2>1, <2>2, <3>1, JoinedText
      <3>3. t \in ValidItems
        BY <3>2 DEF ValidItems, ValidItem
      <3>4. <<t>> \in Seq(ValidItems)
        BY <3>3
      <3>5. QED
        BY <1>1, <1>5, <2>3, <3>2, <3>4, CleanSection
    <2>4. CASE x.accessory[1].id # Verify
      BY <1>1, <1>2, <1>5, <2>4, CleanSection
    <2>5. QED
      BY <2>3, <2>4
  <1>6. QED
    BY <1>1, <1>3, <1>4, <1>5, ItemShape

LEMMA CleanFittingComponent ==
    ASSUME NEW x \in FittingComponents
    PROVE  Clean(x) \in Seq(ValidComponents)
  <1>1. /\ x \in ValidComponents /\ x \in Components /\ ValidComponent(x) /\ ~TooLong(x)
        /\ x.children \in Seq({y \in InnerComponents : ~TooLong(y)})
    BY DEF FittingComponents, ValidComponents
  <1>2. CASE x \in ValidItems
    <2>1. x \in FittingItems /\ x \in InnerComponents
      BY <1>1, <1>2 DEF FittingItems, ValidItems
    <2>2. Clean(x) \in Seq(ValidItems)
      BY <2>1, CleanFittingItem, CleansAgree
    <2>3. ValidItems \subseteq ValidComponents
      BY Nesting DEF ValidItems, ValidComponents, ValidComponent
    <2>4. QED
      BY <2>2, <2>3, LargerSeq
  <1>3. CASE /\ x.type = "container" /\ x.text = <<>> /\ x.id = NoId /\ x.accessory = <<>>
             /\ x.children \in Seq(ValidItems) /\ x.children # <<>> /\ Is(x, "container")
    <2>1. x.children \in Seq(FittingItems)
      <3>1. \A i \in 1..Len(x.children) : x.children[i] \in ValidItems
        BY <1>3, ElementOfSeq
      <3>2. \A i \in 1..Len(x.children) : ~TooLong(x.children[i])
        BY <1>1, ElementOfSeq
      <3>3. \A i \in 1..Len(x.children) : x.children[i] \in FittingItems
        BY <3>1, <3>2 DEF FittingItems
      <3>4. QED
        BY <1>3, <3>3, AllIn
    <2>2. Gives(OfInner, FittingItems, ValidItems)
      <3>1. ASSUME NEW y \in FittingItems
            PROVE  OfInner[y] \in Seq(ValidItems)
        <4>1. OfInner[y] = CleanInner(y)
          BY DEF OfInner, FittingItems, ValidItems
        <4>2. QED
          BY <4>1, CleanFittingItem
      <3>2. QED
        BY <3>1 DEF Gives
    <2>3. PICK k : k = KeptInners(x) /\ k \in Seq(ValidItems)
      BY <2>1, <2>2, GatheredInto DEF KeptInners
    <2>4. k \in Seq(InnerComponents)
      BY <1>1, <2>3, OfWholeIs
    <2>5. x.id # Verify
      BY <1>3 DEF NoId, Verify
    <2>6. Clean(x) = IF k = <<>> THEN <<>> ELSE <<With(x, k)>>
      BY <1>1, <1>3, <2>3, <2>5, OfWholeIs
    <2>7. CASE k = <<>>
      <3>1. <<>> \in Seq(ValidComponents)
        OBVIOUS
      <3>2. QED
        BY <2>6, <2>7, <3>1
    <2>8. CASE k # <<>>
      <3>1. PICK w \in Components :
                /\ w = With(x, k) /\ w.children = k /\ w.accessory = x.accessory
                /\ w.type = x.type /\ w.text = x.text /\ w.id = x.id
                /\ w.url = x.url /\ w.extra = x.extra /\ w.disabled = x.disabled
        BY <1>1, <2>4, WithWhole
      <3>2. Is(w, "container")
        BY <1>3, <3>1 DEF Is
      <3>3. \A i \in DOMAIN k : ValidItem(k[i])
        <4>1. DOMAIN k = 1..Len(k) /\ \A i \in 1..Len(k) : k[i] \in ValidItems
          BY <2>3, Domains, ElementOfSeq
        <4>2. QED
          BY <4>1 DEF ValidItems
      <3>4. w \in ValidComponents
        BY <2>8, <3>1, <3>2, <3>3 DEF ValidComponents, ValidComponent
      <3>5. <<w>> \in Seq(ValidComponents)
        BY <3>4
      <3>6. QED
        BY <2>6, <2>8, <3>1, <3>5
    <2>9. QED
      BY <2>7, <2>8
  <1>4. QED
    BY <1>1, <1>2, <1>3, ComponentShape

LEMMA RowIsValid == VerifyRow \in ValidComponents
  <1>1. PICK b \in Leaves :
            /\ b = Button(Verify) /\ b.type = "button" /\ b.text = <<>> /\ b.id = Verify
            /\ b.url = NoUrl /\ b.extra = {} /\ b.children = <<>> /\ b.accessory = <<>>
    BY ButtonFields
  <1>2. ValidButton(b)
    BY <1>1 DEF ValidButton, Is, Verify, NoId
  <1>3. PICK r \in Components :
            /\ r = VerifyRow /\ r.type = "row" /\ r.text = <<>> /\ r.id = NoId
            /\ r.url = NoUrl /\ r.extra = {} /\ ~r.disabled /\ r.children = <<b>> /\ r.accessory = <<>>
    BY <1>1, RowFields
  <1>4. Is(r, "row")
    BY <1>3 DEF Is
  <1>5. Len(<<b>>) = 1 /\ \A i \in DOMAIN <<b>> : <<b>>[i] = b
    OBVIOUS
  <1>6. ValidRow(r)
    BY <1>2, <1>3, <1>4, <1>5 DEF ValidRow
  <1>7. QED
    BY <1>3, <1>6 DEF ValidComponents, ValidComponent, ValidItem

LEMMA ValidWithButton ==
    ASSUME NEW components \in Seq(Components), Valid(components),
           Count(components) + 2 <= MaxComponents, ~Overflows(components)
    PROVE  Valid(WithVerificationButton(components))
  <1>1. components \in Seq(ValidComponents)
    BY ValidIs
  <1>2. components \in Seq(FittingComponents)
    BY <1>1, Fitting
  <1>3. Gives(OfWhole, FittingComponents, ValidComponents)
    <2>1. ASSUME NEW c \in FittingComponents
          PROVE  OfWhole[c] \in Seq(ValidComponents)
      <3>1. OfWhole[c] = Clean(c)
        BY DEF OfWhole, FittingComponents, ValidComponents
      <3>2. QED
        BY <3>1, CleanFittingComponent
    <2>2. QED
      BY <2>1 DEF Gives
  <1>4. PICK g \in Seq(ValidComponents) : g = Gathered(OfWhole, components)
    BY <1>2, <1>3, GatheredInto
  <1>5. PICK q \in Seq(ValidComponents) : q = <<VerifyRow>>
    <2>1. <<VerifyRow>> \in Seq(ValidComponents)
      BY RowIsValid
    <2>2. QED
      BY <2>1
  <1>6. PICK w \in Seq(Components) : w = WithVerificationButton(components) /\ w = g \o q
    BY <1>4, <1>5, WithVerificationButtonIs
  <1>7. w \in Seq(ValidComponents)
    BY <1>6, ConcatProperties
  <1>8. w # <<>>
    <2>1. q # <<>>
      BY <1>5
    <2>2. QED
      BY <1>6, <2>1, ConcatEqualIffEmpty
  <1>9. PICK i, j \in Nat : i = Count(components) /\ j = Count(w)
    BY <1>6, RoomForButton
  <1>10. i + 2 <= MaxComponents /\ j <= i + 2
    BY <1>6, <1>9, RoomForButton
  <1>11. j <= MaxComponents
    BY <1>10, PayloadsAssumption
  <1>12. QED
    BY <1>6, <1>7, <1>8, <1>9, <1>11, ValidIs

-----------------------------------------------------------------------------
(* What has been observed of a valid body is recognised.                    *)

\* Seen and brought to normal form: what comes of the component itself.
EchoPaint == [c \in Components |-> NormalPaint[ObservedPaint[c]]]

Untouched == {c \in Components : EchoPaint[c] = c}

LEMMA EchoIsThen == Then(NormalPaint, ObservedPaint, EchoPaint)
  <1>1. IsPaint(NormalPaint) /\ IsOwn(NormalPaint) /\ IsPaint(ObservedPaint) /\ IsOwn(ObservedPaint)
    BY NormalIsPaint, ObservedIsPaint
  <1>2. PICK N, O, H : N = NormalPaint /\ O = ObservedPaint /\ H = EchoPaint
    OBVIOUS
  <1>3. \A c \in Components : H[c] = N[O[c]]
    BY <1>2 DEF EchoPaint
  <1>4. ASSUME NEW c \in Components
        PROVE  /\ H[c] \in Components
               /\ H[c].type = c.type /\ H[c].text = c.text /\ H[c].id = c.id /\ H[c].url = c.url
               /\ H[c].children = c.children /\ H[c].accessory = c.accessory
               /\ H[c].disabled => c.disabled \/ c.type = "button"
    <2>1. PICK y \in Components :
              /\ y = O[c]
              /\ y.type = c.type /\ y.text = c.text /\ y.id = c.id /\ y.url = c.url
              /\ y.children = c.children /\ y.accessory = c.accessory
              /\ y.disabled => c.disabled \/ c.type = "button"
      BY <1>1, <1>2 DEF IsPaint
    <2>2. PICK z \in Components :
              /\ z = N[y]
              /\ z.type = y.type /\ z.text = y.text /\ z.id = y.id /\ z.url = y.url
              /\ z.children = y.children /\ z.accessory = y.accessory
              /\ z.disabled => y.disabled \/ y.type = "button"
      BY <1>1, <1>2 DEF IsPaint
    <2>3. H[c] = z
      BY <1>3, <2>1, <2>2
    <2>4. QED
      BY <2>1, <2>2, <2>3
  <1>5. IsPaint(H)
    <2>1. H = [c \in Components |-> H[c]]
      BY <1>2 DEF EchoPaint
    <2>2. QED
      BY <1>4, <2>1 DEF IsPaint
  <1>6. IsOwn(H)
    <2>1. SUFFICES ASSUME NEW c \in Components, NEW d \in Components,
                          c.type = d.type, c.extra = d.extra, c.disabled = d.disabled
                   PROVE  H[c].extra = H[d].extra /\ H[c].disabled = H[d].disabled
      BY DEF IsOwn
    <2>2. PICK y, w \in Components :
              /\ y = O[c] /\ w = O[d] /\ y.type = c.type /\ w.type = d.type
              /\ y.extra = w.extra /\ y.disabled = w.disabled
      BY <1>1, <1>2, <2>1 DEF IsPaint, IsOwn
    <2>3. N[y].extra = N[w].extra /\ N[y].disabled = N[w].disabled
      BY <1>1, <1>2, <2>1, <2>2 DEF IsOwn
    <2>4. QED
      BY <1>3, <2>2, <2>3
  <1>7. QED
    BY <1>1, <1>2, <1>3, <1>5, <1>6 DEF Then

\* The component itself stays when it has the optional fields it may have.
LEMMA UntouchedIs ==
    ASSUME NEW c \in Components,
           c.extra = IF c.type = "separator" THEN {"default"} ELSE {}
    PROVE  c \in Untouched
  <1>1. PICK y \in Components :
            /\ y = ObservedPaint[c]
            /\ y.type = c.type /\ y.text = c.text /\ y.id = c.id /\ y.url = c.url
            /\ y.children = c.children /\ y.accessory = c.accessory
            /\ y.disabled = c.disabled
            /\ y.extra \ Dropped(c.type)
                = (c.extra \ (Dropped(c.type) \union {"meta"})) \union
                      (IF c.type = "separator" THEN {"default"} ELSE {})
    BY ObservedFields
  <1>2. PICK z \in Components :
            /\ z = NormalPaint[y]
            /\ z.type = y.type /\ z.text = y.text /\ z.id = y.id /\ z.url = y.url
            /\ z.children = y.children /\ z.accessory = y.accessory
            /\ z.extra = y.extra \ Dropped(y.type) /\ z.disabled = y.disabled
    BY NormalFields
  <1>3. c.extra \ (Dropped(c.type) \union {"meta"}) \subseteq c.extra
    OBVIOUS
  <1>4. z.extra = c.extra
    <2>1. z.extra = (c.extra \ (Dropped(c.type) \union {"meta"})) \union
                        (IF c.type = "separator" THEN {"default"} ELSE {})
      BY <1>1, <1>2
    <2>2. CASE c.type = "separator"
      BY <1>3, <2>1, <2>2
    <2>3. CASE c.type # "separator"
      BY <1>3, <2>1, <2>3
    <2>4. QED
      BY <2>2, <2>3
  <1>5. z = c
    BY <1>1, <1>2, <1>4, SameComponents
  <1>6. QED
    BY <1>1, <1>2, <1>5 DEF Untouched, EchoPaint

\* What has nothing touched in it is not touched.
LEMMA MappedItself ==
    ASSUME NEW T, NEW W, NEW s \in Seq(T), \A x \in T : W[x] = x
    PROVE  Mapped(W, s) = s
  <1>1. DOMAIN s = 1..Len(s) /\ \A i \in 1..Len(s) : s[i] \in T
    BY Domains, ElementOfSeq
  <1>2. [i \in 1..Len(s) |-> W[s[i]]] = [i \in 1..Len(s) |-> s[i]]
    BY <1>1
  <1>3. s = [i \in 1..Len(s) |-> s[i]]
    BY SeqDef, <1>1
  <1>4. QED
    BY <1>2, <1>3 DEF Mapped

LEMMA UntouchedInner ==
    ASSUME NEW x \in InnerComponents, x \in Untouched,
           x.children \in Seq(Untouched), x.accessory \in Seq(Untouched)
    PROVE  PaintInner(EchoPaint)[x] = x
  <1>1. PICK H : H = EchoPaint /\ IsPaint(H) /\ \A c \in Untouched : H[c] = c
    BY EchoIsThen DEF Then, Untouched
  <1>2. Mapped(H, x.children) = x.children /\ Mapped(H, x.accessory) = x.accessory
    BY <1>1, MappedItself
  <1>3. PaintInner(H)[x] = H[Over(x, Mapped(H, x.children), Mapped(H, x.accessory))]
    BY <1>1, PaintInnerIs
  <1>4. Over(x, x.children, x.accessory) = x
    BY Nesting, OverItself
  <1>5. QED
    BY <1>1, <1>2, <1>3, <1>4

LEMMA UntouchedWhole ==
    ASSUME NEW x \in Components, x \in Untouched, x.accessory = <<>>, NEW T,
           x.children \in Seq(T), \A y \in T : PaintInner(EchoPaint)[y] = y
    PROVE  PaintWhole(EchoPaint)[x] = x
  <1>1. PICK H : H = EchoPaint /\ IsPaint(H) /\ H[x] = x
    BY EchoIsThen DEF Then, Untouched
  <1>2. PICK P : P = PaintInner(H)
    OBVIOUS
  <1>3. Mapped(P, x.children) = x.children
    BY <1>1, <1>2, MappedItself
  <1>4. Mapped(P, x.accessory) = x.accessory
    BY MappedEmpty
  <1>5. PaintWhole(H)[x] = H[Over(x, Mapped(P, x.children), Mapped(P, x.accessory))]
    BY <1>1, <1>2, PaintWholeIs
  <1>6. Over(x, x.children, x.accessory) = x
    BY OverItself
  <1>7. QED
    BY <1>1, <1>3, <1>4, <1>5, <1>6

\* The separators that are not written out.
Unwritten(c) == c.type = "separator" /\ "default" \notin c.extra

ReadUnwritten == [c \in Components |-> IF Unwritten(c) THEN <<c>> ELSE <<>>]

LEMMA ReadUnwrittenIs ==
    /\ IsMap(ReadUnwritten, Components, Seq(Components))
    /\ \A c \in Components : ReadUnwritten[c] = <<>> <=> ~Unwritten(c)
  <1>1. \A c \in Components : <<c>> \in Seq(Components) /\ <<>> \in Seq(Components) /\ <<c>> # <<>>
    OBVIOUS
  <1>2. \A c \in Components : ReadUnwritten[c] = IF Unwritten(c) THEN <<c>> ELSE <<>>
    BY DEF ReadUnwritten
  <1>3. \A c \in Components : (IF Unwritten(c) THEN <<c>> ELSE <<>>) \in Seq(Components)
    BY <1>1
  <1>4. QED
    BY <1>1, <1>2, <1>3 DEF ReadUnwritten, IsMap

\* Validity says it of the component itself.
LEMMA ValidIsUntouched ==
    ASSUME NEW c \in Components, ~Unwritten(c),
           \/ ValidText(c) \/ ValidButton(c) \/ ValidAccessory(c)
           \/ ValidItem(c) \/ Is(c, "container")
    PROVE  c \in Untouched
  <1>1. \/ ValidText(c) \/ ValidButton(c) \/ Is(c, "thumbnail")
        \/ ValidRow(c) \/ ValidSection(c)
        \/ Is(c, "gallery") \/ Is(c, "separator") \/ Is(c, "container")
    BY DEF ValidAccessory, ValidItem
  <1>2. \E type : Is(c, type)
    BY <1>1 DEF ValidText, ValidButton, ValidRow, ValidSection
  <1>3. c.extra \subseteq Permitted(c.type)
    BY <1>2 DEF Is
  <1>4. c.extra = IF c.type = "separator" THEN {"default"} ELSE {}
    BY <1>3 DEF Permitted, Unwritten
  <1>5. QED
    BY <1>4, UntouchedIs

\* Texts, buttons and accessories are no separators.
LEMMA LeafIsUntouched ==
    /\ ValidTexts \subseteq Untouched /\ ValidButtons \subseteq Untouched
    /\ \A c \in Components : ValidAccessory(c) => c \in Untouched
  <1>1. ASSUME NEW c \in Components, ValidText(c) \/ ValidButton(c) \/ ValidAccessory(c)
        PROVE  c \in Untouched
    <2>1. Is(c, "text") \/ Is(c, "button") \/ Is(c, "thumbnail")
      BY <1>1 DEF ValidText, ValidButton, ValidAccessory
    <2>2. ~Unwritten(c)
      BY <2>1 DEF Is, Unwritten
    <2>3. QED
      BY <1>1, <2>2, ValidIsUntouched
  <1>2. QED
    BY <1>1, Nesting DEF ValidTexts, ValidButtons

LEMMA ItemIsUntouched ==
    ASSUME NEW x \in ValidItems, ~Unwritten(x)
    PROVE  PaintInner(EchoPaint)[x] = x
  <1>1. x \in InnerComponents /\ x \in Components /\ ValidItem(x)
    BY Nesting DEF ValidItems
  <1>2. x \in Untouched
    BY <1>1, ValidIsUntouched
  <1>3. <<>> \in Seq(Untouched)
    BY EmptySeq
  <1>4. Seq(ValidTexts) \subseteq Seq(Untouched) /\ Seq(ValidButtons) \subseteq Seq(Untouched)
    BY LeafIsUntouched, LargerSeq
  <1>5. x.children \in Seq(Untouched) /\ x.accessory \in Seq(Untouched)
    <2>1. CASE PlainItem(x)
      <3>1. x.children = <<>> /\ x.accessory = <<>>
        BY <2>1, PartTypes DEF PlainItem
      <3>2. QED
        BY <1>3, <3>1
    <2>2. CASE RowItem(x)
      BY <1>3, <1>4, <2>2 DEF RowItem
    <2>3. CASE SectionItem(x)
      <3>1. x.children \in Seq(Untouched)
        BY <1>4, <2>3 DEF SectionItem
      <3>2. PICK s \in Seq(Leaves) : s = x.accessory /\ Len(s) = 1 /\ ValidAccessory(s[1]) /\ s[1] \in Leaves
        BY <2>3 DEF SectionItem
      <3>3. s[1] \in Untouched
        BY <3>2, LeafIsUntouched, Nesting
      <3>4. \A i \in 1..Len(s) : s[i] \in Untouched
        BY <3>2, <3>3
      <3>5. s \in Seq(Untouched)
        BY <3>4, AllIn
      <3>6. QED
        BY <3>1, <3>2, <3>5
    <2>4. QED
      BY <1>1, <2>1, <2>2, <2>3, ItemShape
  <1>6. QED
    BY <1>1, <1>2, <1>5, UntouchedInner

LEMMA ComponentIsUntouched ==
    ASSUME NEW x \in ValidComponents, ~Unwritten(x),
           x.children \in Seq({y \in InnerComponents : ~Unwritten(y)})
    PROVE  PaintWhole(EchoPaint)[x] = x
  <1>1. x \in Components /\ ValidComponent(x)
    BY DEF ValidComponents
  <1>2. CASE x \in ValidItems
    <2>1. x \in InnerComponents
      BY <1>2 DEF ValidItems
    <2>2. PaintWhole(EchoPaint)[x] = PaintInner(EchoPaint)[x]
      BY <2>1, EchoIsThen, PaintsAgree DEF Then
    <2>3. QED
      BY <1>2, <2>2, ItemIsUntouched
  <1>3. CASE /\ Is(x, "container") /\ x.accessory = <<>>
             /\ x.children \in Seq(ValidItems)
    <2>1. PICK T : T = {y \in ValidItems : ~Unwritten(y)}
      OBVIOUS
    <2>2. PICK s \in Seq(ValidItems) : s = x.children
      BY <1>3
    <2>3. \A i \in 1..Len(s) : s[i] \in ValidItems /\ ~Unwritten(s[i])
      BY <2>2, ElementOfSeq
    <2>4. s \in Seq(T)
      BY <2>1, <2>3, AllIn
    <2>5. \A y \in T : PaintInner(EchoPaint)[y] = y
      BY <2>1, ItemIsUntouched
    <2>6. x \in Untouched
      BY <1>1, <1>3, ValidIsUntouched
    <2>7. QED
      BY <1>1, <1>3, <2>2, <2>4, <2>5, <2>6, UntouchedWhole
  <1>4. QED
    BY <1>1, <1>2, <1>3, ComponentShape

\* What is observed of a valid body whose separators are written out is, in normal
\* form, that body.
LEMMA EchoIsNormal ==
    ASSUME NEW components \in Seq(ValidComponents), ~HasBareSeparator(components)
    PROVE  Normal(Observed(components)) = components
  <1>1. components \in Seq(Components)
    <2>1. ValidComponents \subseteq Components
      BY DEF ValidComponents
    <2>2. QED
      BY <2>1, LargerSeq
  <1>2. PICK p \in Seq(Components) : p = AllParts(components)
    BY <1>1, AllPartsAre
  <1>3. PICK Q : Q = {c \in Components : ~Unwritten(c)}
    OBVIOUS
  <1>4. p \in Seq(Q)
    <2>1. DOMAIN p = 1..Len(p) /\ \A i \in 1..Len(p) : p[i] \in Components
      BY Domains, ElementOfSeq
    <2>2. \A i \in DOMAIN p : ~Unwritten(p[i])
      BY <1>2 DEF HasBareSeparator, Unwritten
    <2>3. \A i \in 1..Len(p) : p[i] \in Q
      BY <1>3, <2>1, <2>2
    <2>4. QED
      BY <2>3, AllIn
  <1>5. GivesNothing(ReadUnwritten, Q)
    BY <1>3, ReadUnwrittenIs DEF GivesNothing
  <1>6. Read(ReadUnwritten, components) = <<>>
    BY <1>2, <1>4, <1>5, GatheredNothing DEF Read
  <1>7. Seq({y \in InnerComponents : ReadUnwritten[y] = <<>>})
            \subseteq Seq({y \in InnerComponents : ~Unwritten(y)})
    <2>1. {y \in InnerComponents : ReadUnwritten[y] = <<>>}
              \subseteq {y \in InnerComponents : ~Unwritten(y)}
      BY Nesting, ReadUnwrittenIs
    <2>2. QED
      BY <2>1, LargerSeq
  <1>8. PICK W : W = PaintWhole(EchoPaint)
    OBVIOUS
  <1>9. PICK T : T = {c \in Components : W[c] = c}
    OBVIOUS
  <1>10. ASSUME NEW i \in 1..Len(components)
         PROVE  components[i] \in T
    <2>1. PICK c \in ValidComponents : c = components[i]
      BY ElementOfSeq
    <2>2. /\ c \in Components /\ ReadUnwritten[c] = <<>>
          /\ c.children \in Seq({y \in InnerComponents : ReadUnwritten[y] = <<>>})
      BY <1>1, <1>6, <2>1, ReadUnwrittenIs, NothingAnywhere
    <2>3. ~Unwritten(c) /\ c.children \in Seq({y \in InnerComponents : ~Unwritten(y)})
      BY <1>7, <2>2, ReadUnwrittenIs
    <2>4. W[c] = c
      BY <1>8, <2>3, ComponentIsUntouched
    <2>5. QED
      BY <1>9, <2>1, <2>2, <2>4
  <1>11. components \in Seq(T)
    BY <1>1, <1>10, AllIn
  <1>12. Painted(EchoPaint, components) = components
    BY <1>8, <1>9, <1>11, MappedItself DEF Painted
  <1>13. PICK o \in Seq(Components) : o = Observed(components) /\ o = Painted(ObservedPaint, components)
    <2>1. Painted(ObservedPaint, components) \in Seq(Components)
      BY <1>1, ObservedIsPaint, PaintWholeMap, MappedType DEF Painted
    <2>2. QED
      BY <1>1, <2>1, ObservedIsPainted
  <1>14. Normal(o) = Painted(NormalPaint, o)
    BY NormalIs
  <1>15. Painted(NormalPaint, Painted(ObservedPaint, components)) = Painted(EchoPaint, components)
    BY <1>1, EchoIsThen, ThenPainted
  <1>16. QED
    BY <1>12, <1>13, <1>14, <1>15
=============================================================================
