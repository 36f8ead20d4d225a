-------------------------- MODULE AgreementsProofs --------------------------
(***************************************************************************)
(* Proofs about Agreements, for any callers, companies and channels: what  *)
(* Publish, the settings and the archives do to one another when they      *)
(* overlap.                                                                *)
(***************************************************************************)
EXTENDS Agreements, SequenceFacts

-----------------------------------------------------------------------------
(* Settings.                                                               *)

LEMMA Values ==
    /\ NumCompanies \in Nat /\ Attempts \in Nat \ {0} /\ 0 \in 0..Attempts - 1
    /\ MaxChanges \in Nat /\ MaxFaults \in Nat
    /\ Companies \subseteq Keys /\ ControlKey \in Keys /\ LegacyKey \in Keys
    /\ ControlKey \notin Companies /\ LegacyKey # ControlKey /\ LegacyKey \notin Companies
    /\ \A c \in Companies : c \in Nat /\ c < ControlKey
  BY AgreementsAssumption DEF Companies, Keys, ControlKey, LegacyKey

LEMMA ConfigTypes ==
    /\ Base \in Config /\ NoOverride \in Overrides
    /\ \A config \in Config : Normalized(config) \in Config
    /\ \A config \in Config, update \in Overrides : Unchecked(config, update) \in Config
  <1>1. Base \in Config
    BY AgreementsAssumption DEF Base, Config
  <1>2. NoOverride \in Overrides
    BY DEF NoOverride, Overrides
  <1>3. ASSUME NEW config \in Config
        PROVE  Normalized(config) \in Config
    BY DEF Normalized, Config
  <1>4. ASSUME NEW config \in Config, NEW update \in Overrides
        PROVE  Unchecked(config, update) \in Config
    BY DEF Unchecked, Config, Overrides
  <1>5. QED
    BY <1>1, <1>2, <1>3, <1>4

\* A configuration stores what it was asked for and keeps the rest.
LEMMA StoredType ==
    ASSUME settings \in Overrides, NEW update \in Overrides
    PROVE  Stored(update) \in Overrides
  BY DEF Stored, Overrides

\* What the process goes by is normalized, whatever was stored and whoever reads it.
LEMMA NormalizedHasChannel ==
    ASSUME NEW config
    PROVE  Normalized(Unchecked(Base, config)).enabled =>
               Normalized(Unchecked(Base, config)).control # NoChannel
  BY DEF Normalized, Unchecked

LEMMA BaseHasChannel == Normalized(Base).enabled => Normalized(Base).control # NoChannel
  BY DEF Normalized, Base

-----------------------------------------------------------------------------
(* Rows.                                                                   *)

Contents == Listings \union {ControlPanel}

LEMMA AbsentType == Store!AbsentRow \in UnseenRow /\ Store!AbsentRow.revision = 0
                    /\ Store!AbsentRow.state = "absent"
  BY DEF Store!AbsentRow, UnseenRow

LEMMA InsertedType ==
    ASSUME NEW channel \in Channels \union {NoChannel}, NEW content \in Contents
    PROVE  LET row == Store!InsertedRow(channel, content) IN
           /\ row \in UnseenRow
           /\ row.state = "pending" /\ row.revision = 1
           /\ row.channel = channel /\ row.content = content
  BY DEF Store!InsertedRow, Store!AbsentRow, UnseenRow, Contents

LEMMA ReplacedType ==
    ASSUME NEW row \in UnseenRow, NEW channel \in Channels, NEW content \in Contents
    PROVE  LET new == Store!ReplacedRow(row, channel, content) IN
           /\ new \in UnseenRow
           /\ new.state = "pending" /\ new.revision = row.revision + 1
           /\ new.channel = channel /\ new.content = content
  BY DEF Store!ReplacedRow, UnseenRow, Contents

LEMMA ArchivedType ==
    ASSUME NEW row \in UnseenRow
    PROVE  LET new == Store!ArchivedRow(row) IN
           /\ new \in UnseenRow
           /\ new.state = "archived" /\ new.revision = row.revision + 1
           /\ new.channel = row.channel /\ new.content = row.content
  <1>1. row.revision + 1 \in Nat
    BY DEF UnseenRow
  <1>2. Store!ArchivedRow(row) \in UnseenRow
    BY <1>1 DEF Store!ArchivedRow, UnseenRow
  <1>3. LET new == Store!ArchivedRow(row) IN
        /\ new.state = "archived" /\ new.revision = row.revision + 1
        /\ new.channel = row.channel /\ new.content = row.content
    BY DEF Store!ArchivedRow, UnseenRow
  <1>4. QED
    BY <1>2, <1>3

-----------------------------------------------------------------------------
(* What Publish renders: each key once, in order, and the panel last.      *)

Rising(todo) == \A i, j \in 1..Len(todo) : i < j => todo[i].key < todo[j].key

Below(todo, n) == \A i \in 1..Len(todo) : todo[i].key < n

LEMMA DefinitionFacts ==
    ASSUME NEW d \in Definitions
    PROVE  /\ d.key \in Nat /\ d.key \in Keys /\ d.key # LegacyKey
           /\ d.channel \in Channels /\ d.content \in Contents
           /\ d.key \in Companies \union {ControlKey}
           /\ d.key \in Companies => d.content \in Listings
           /\ d.key = ControlKey => d.content = ControlPanel
  <1>1. CASE d \in [key : Companies, channel : Channels, content : Listings]
    BY <1>1, Values DEF Contents
  <1>2. CASE d \in [key : {ControlKey}, channel : Channels, content : {ControlPanel}]
    <2>1. d.key = ControlKey /\ d.channel \in Channels /\ d.content = ControlPanel
      BY <1>2
    <2>2. ControlKey \in Nat
      BY Values DEF ControlKey
    <2>3. QED
      BY <2>1, <2>2, Values DEF Contents
  <1>3. QED
    BY <1>1, <1>2 DEF Definitions

LEMMA RisingAppend ==
    ASSUME NEW todo \in Seq(Definitions), NEW d \in Definitions,
           Rising(todo), Below(todo, d.key)
    PROVE  LET new == Append(todo, d) IN
           /\ new \in Seq(Definitions) /\ Len(new) = Len(todo) + 1
           /\ new[Len(new)] = d
           /\ Rising(new)
           /\ Below(new, d.key + 1)
  <1>1. PICK n \in Nat : n = Len(todo)
    BY LenProperties
  <1>2. PICK new \in Seq(Definitions) : new = Append(todo, d)
    BY AppendProperties
  <1>3. /\ Len(new) = n + 1 /\ new[n + 1] = d
        /\ \A i \in 1..n : new[i] = todo[i]
    BY <1>1, <1>2, AppendProperties
  <1>4. d.key \in Nat /\ \A i \in 1..n : todo[i].key \in Nat /\ todo[i].key < d.key
    <2>1. \A i \in 1..n : todo[i] \in Definitions
      BY <1>1, ElementOfSeq
    <2>2. QED
      BY <1>1, <2>1, DefinitionFacts DEF Below
  <1>5. ASSUME NEW i \in 1..n + 1, NEW j \in 1..n + 1, i < j
        PROVE  new[i].key < new[j].key
    <2>1. i \in 1..n /\ new[i] = todo[i]
      BY <1>3, <1>5
    <2>2. CASE j = n + 1
      BY <1>3, <1>4, <2>1, <2>2
    <2>3. CASE j # n + 1
      <3>1. j \in 1..n /\ new[j] = todo[j]
        BY <1>3, <2>3
      <3>2. todo[i].key < todo[j].key
        BY <1>1, <1>5, <2>1, <3>1 DEF Rising
      <3>3. QED
        BY <2>1, <3>1, <3>2
    <2>4. QED
      BY <2>2, <2>3
  <1>6. Rising(new)
    BY <1>3, <1>5 DEF Rising
  <1>7. ASSUME NEW i \in 1..n + 1
        PROVE  new[i].key < d.key + 1
    <2>1. CASE i = n + 1
      BY <1>3, <1>4, <2>1
    <2>2. CASE i # n + 1
      <3>1. i \in 1..n
        BY <2>2
      <3>2. QED
        BY <1>3, <1>4, <3>1
    <2>3. QED
      BY <2>1, <2>2
  <1>8. Below(new, d.key + 1)
    BY <1>3, <1>7 DEF Below
  <1>9. QED
    BY <1>1, <1>2, <1>3, <1>6, <1>8

\* The lists of the companies: none for one without a channel.
ListsOf(channels, of) ==
    [c \in Companies |-> IF channels[c] \in Channels
                         THEN <<Definition(c, channels[c], Listing(of[c]))>> ELSE <<>>]

FirstOf(lists, n) == [c \in 1..n |-> lists[c]]

AgreementsOf == [Companies -> [Items -> Texts \union {NoText}]]

LEMMA ListsAre ==
    ASSUME NEW channels \in Directory, NEW of \in AgreementsOf, NEW c \in Companies
    PROVE  \/ ListsOf(channels, of)[c] = <<>>
           \/ \E d \in Definitions : d.key = c /\ ListsOf(channels, of)[c] = <<d>>
  <1>1. CASE channels[c] \in Channels
    <2>1. Listing(of[c]) \in Listings
      BY DEF Listings, AgreementsOf
    <2>2. PICK d : d = Definition(c, channels[c], Listing(of[c]))
      OBVIOUS
    <2>3. d \in Definitions /\ d.key = c
      BY <1>1, <2>1, <2>2 DEF Definition, Definitions
    <2>4. ListsOf(channels, of)[c] = <<d>>
      BY <1>1, <2>2 DEF ListsOf
    <2>5. QED
      BY <2>3, <2>4
  <1>2. CASE channels[c] \notin Channels
    BY <1>2 DEF ListsOf
  <1>3. QED
    BY <1>1, <1>2

\* One company more.
LEMMA FirstOfGrows ==
    ASSUME NEW lists, NEW n \in Nat \ {0},
           \A c \in 1..n : lists[c] \in Seq(Definitions)
    PROVE  /\ FirstOf(lists, n - 1) \in Seq(Seq(Definitions))
           /\ FirstOf(lists, n) = Append(FirstOf(lists, n - 1), lists[n])
  <1>1. PICK a : a = FirstOf(lists, n - 1)
    OBVIOUS
  <1>2. PICK b : b = FirstOf(lists, n)
    OBVIOUS
  <1>3. /\ a = [c \in 1..n - 1 |-> lists[c]]
        /\ b = [c \in 1..n |-> lists[c]]
    BY <1>1, <1>2 DEF FirstOf
  <1>4. n - 1 \in Nat /\ n \in Nat
    OBVIOUS
  <1>5. a \in Seq(Seq(Definitions)) /\ Len(a) = n - 1
    BY <1>3, <1>4
  <1>6. b \in Seq(Seq(Definitions)) /\ Len(b) = n
    BY <1>3, <1>4
  <1>7. /\ Append(a, lists[n]) \in Seq(Seq(Definitions))
        /\ Len(Append(a, lists[n])) = n
        /\ \A c \in 1..n : Append(a, lists[n])[c] = b[c]
    <2>1. lists[n] \in Seq(Definitions)
      BY <1>4
    <2>2. /\ Append(a, lists[n]) \in Seq(Seq(Definitions))
          /\ Len(Append(a, lists[n])) = Len(a) + 1
          /\ \A c \in 1..Len(a) : Append(a, lists[n])[c] = a[c]
          /\ Append(a, lists[n])[Len(a) + 1] = lists[n]
      BY <1>5, <2>1, AppendProperties
    <2>3. QED
      BY <1>3, <1>4, <1>5, <2>2
  <1>8. Append(a, lists[n]) = b
    BY <1>6, <1>7, SeqEqual
  <1>9. QED
    BY <1>1, <1>2, <1>5, <1>8

\* The lists of the first companies.
Sorted(todo, n) == todo \in Seq(Definitions) /\ Rising(todo) /\ Below(todo, n + 1)

LEMMA ListsAreSorted ==
    ASSUME NEW channels \in Directory, NEW of \in AgreementsOf
    PROVE  Sorted(FlattenSeq(ListsOf(channels, of)), NumCompanies)
  <1>1. PICK lists : lists = ListsOf(channels, of)
    OBVIOUS
  <1>2. \A c \in Companies : \/ lists[c] = <<>>
                             \/ \E d \in Definitions : d.key = c /\ lists[c] = <<d>>
    BY <1>1, ListsAre
  <1>3. \A c \in Companies : lists[c] \in Seq(Definitions)
    <2>1. ASSUME NEW c \in Companies
          PROVE  lists[c] \in Seq(Definitions)
      <3>1. <<>> \in Seq(Definitions) /\ \A d \in Definitions : <<d>> \in Seq(Definitions)
        BY EmptySeq
      <3>2. QED
        BY <1>2, <3>1
    <2>2. QED
      BY <2>1
  <1> DEFINE S == {n \in 0..NumCompanies : Sorted(FlattenSeq(FirstOf(lists, n)), n)}
  <1>4. Sorted(FlattenSeq(FirstOf(lists, 0)), 0)
    <2>1. FirstOf(lists, 0) = <<>>
      BY DEF FirstOf
    <2>2. FlattenSeq(FirstOf(lists, 0)) = <<>>
      BY <2>1, FlattenEmpty
    <2>3. PICK e \in Seq(Definitions) : e = FlattenSeq(FirstOf(lists, 0)) /\ Len(e) = 0
      BY <2>2, EmptySeq
    <2>4. Sorted(e, 0)
      BY <2>3 DEF Sorted, Rising, Below
    <2>5. QED
      BY <2>3, <2>4
  <1>5. ASSUME NEW n \in 1..NumCompanies, n = 1 \/ n - 1 \in S
        PROVE  n \in S
    <2>1. n \in Nat \ {0} /\ n \in Companies /\ \A c \in 1..n : c \in Companies
      BY Values DEF Companies
    <2>2. Sorted(FlattenSeq(FirstOf(lists, n - 1)), n - 1)
      BY <1>4, <1>5
    <2>3. /\ FirstOf(lists, n - 1) \in Seq(Seq(Definitions))
          /\ FirstOf(lists, n) = Append(FirstOf(lists, n - 1), lists[n])
      BY <1>3, <2>1, FirstOfGrows
    <2>4. PICK s \in Seq(Definitions) :
              s = FlattenSeq(FirstOf(lists, n - 1)) /\ Rising(s) /\ Below(s, n)
      BY <2>1, <2>2 DEF Sorted
    <2>5. FlattenSeq(FirstOf(lists, n)) = s \o lists[n]
      BY <1>3, <2>1, <2>3, <2>4, FlattenAppend
    <2>6. CASE lists[n] = <<>>
      <3>1. FlattenSeq(FirstOf(lists, n)) = s
        BY <2>4, <2>5, <2>6, ConcatEmptySeq
      <3>2. Below(s, n + 1)
        <4>1. \A i \in 1..Len(s) : s[i].key \in Nat /\ s[i].key < n
          <5>1. \A i \in 1..Len(s) : s[i] \in Definitions
            BY ElementOfSeq
          <5>2. QED
            BY <2>4, <5>1, DefinitionFacts DEF Below
        <4>2. QED
          BY <2>1, <4>1 DEF Below
      <3>3. QED
        BY <2>4, <3>1, <3>2 DEF Sorted
    <2>7. ASSUME NEW d \in Definitions, d.key = n, lists[n] = <<d>>
          PROVE  n \in S
      <3>1. s \o <<d>> = Append(s, d)
        BY AppendIsConcat
      <3>2. Append(s, d) \in Seq(Definitions) /\ Rising(Append(s, d)) /\ Below(Append(s, d), n + 1)
        BY <2>4, <2>7, RisingAppend
      <3>3. Sorted(FlattenSeq(FirstOf(lists, n)), n)
        BY <2>5, <2>7, <3>1, <3>2 DEF Sorted
      <3>4. QED
        BY <3>3
    <2>8. QED
      BY <1>2, <2>1, <2>6, <2>7
  <1>6. NumCompanies \in Nat
    BY Values
  <1> HIDE DEF S
  <1>7. \A n \in 1..NumCompanies : n \in S
    BY <1>5, <1>6, Induction
  <1>8. Sorted(FlattenSeq(FirstOf(lists, NumCompanies)), NumCompanies)
    BY <1>4, <1>6, <1>7 DEF S
  <1>9. FirstOf(lists, NumCompanies) = lists
    BY <1>1 DEF FirstOf, ListsOf, Companies
  <1>10. QED
    BY <1>1, <1>8, <1>9

LEMMA RenderedInOrder ==
    ASSUME NEW channels \in Directory, NEW of \in AgreementsOf,
           NEW config, config.control \in Channels
    PROVE  LET todo == Render(channels, of, config) IN
           todo \in Seq(Definitions) /\ todo # <<>> /\ InOrder(todo)
  <1>1. PICK s \in Seq(Definitions) : /\ s = FlattenSeq(ListsOf(channels, of))
                                      /\ Rising(s) /\ Below(s, ControlKey)
    BY ListsAreSorted DEF Sorted, ControlKey
  <1>2. PICK d \in Definitions : d = Definition(ControlKey, config.control, ControlPanel)
                                 /\ d.key = ControlKey
    <2>1. PICK d : d = Definition(ControlKey, config.control, ControlPanel)
      OBVIOUS
    <2>2. d \in Definitions /\ d.key = ControlKey
      BY <2>1 DEF Definition, Definitions
    <2>3. QED
      BY <2>1, <2>2
  <1>3. Render(channels, of, config) = Append(s, d)
    BY <1>1, <1>2 DEF Render, ListsOf
  <1>4. PICK t \in Seq(Definitions) : /\ t = Append(s, d) /\ Len(t) = Len(s) + 1
                                      /\ t[Len(t)] = d /\ Rising(t)
    BY <1>1, <1>2, RisingAppend
  <1>5. t # <<>>
    BY <1>4, LenProperties
  <1>6. InOrder(t)
    BY <1>2, <1>4 DEF InOrder, Rising
  <1>7. QED
    BY <1>3, <1>4, <1>5, <1>6

\* What is left after the first of them.
LEMMA TailInOrder ==
    ASSUME NEW todo \in Seq(Definitions), todo # <<>>, InOrder(todo)
    PROVE  Tail(todo) \in Seq(Definitions) /\ InOrder(Tail(todo))
  <1>1. PICK n \in Nat : n = Len(todo)
    BY LenProperties
  <1>2. n # 0
    BY <1>1, EmptySeq
  <1>3. PICK t \in Seq(Definitions) : t = Tail(todo)
    BY HeadTailProperties
  <1>4. Len(t) = n - 1 /\ \A i \in 1..n - 1 : t[i] = todo[i + 1]
    BY <1>1, <1>2, <1>3, HeadTailProperties
  <1>5. \A i, j \in 1..n - 1 : i < j => t[i].key < t[j].key
    <2>1. ASSUME NEW i \in 1..n - 1, NEW j \in 1..n - 1, i < j
          PROVE  t[i].key < t[j].key
      <3>1. i + 1 \in 1..n /\ j + 1 \in 1..n /\ i + 1 < j + 1
        BY <2>1
      <3>2. todo[i + 1].key < todo[j + 1].key
        BY <1>1, <3>1 DEF InOrder
      <3>3. QED
        BY <1>4, <3>2
    <2>2. QED
      BY <2>1
  <1>6. ASSUME t # <<>>
        PROVE  t[Len(t)].key = ControlKey
    <2>1. n - 1 # 0
      BY <1>4, <1>6, EmptySeq
    <2>2. n - 1 \in 1..n - 1 /\ (n - 1) + 1 = n
      BY <1>2, <2>1
    <2>3. t[n - 1] = todo[n]
      BY <1>4, <2>2
    <2>4. QED
      BY <1>1, <1>4, <2>3 DEF InOrder
  <1>7. InOrder(t)
    BY <1>4, <1>5, <1>6 DEF InOrder
  <1>8. QED
    BY <1>3, <1>7

-----------------------------------------------------------------------------
(* Callers.                                                                *)

\* CallerIsSound of a caller and a table of rows.
SoundCaller(caller, table) ==
    /\ caller.step = "items" =>
        caller.channels \in Directory /\ caller.config.control \in Channels
    /\ caller.step \in {"get", "put"} <=> caller.todo # <<>>
    /\ InOrder(caller.todo)
    /\ caller.step = "put" => caller.revision <= table[Head(caller.todo).key].revision
    /\ caller.target # ControlKey
    /\ caller.step = "archive" =>
        caller.revision > 0 /\ caller.revision <= table[caller.target].revision

LEMMA SoundAre ==
    /\ \A p \in Callers : CallerIsSound(p) <=> SoundCaller(callers[p], rows)
    /\ \A p \in Callers : CallerIsSound(p)' <=> SoundCaller(callers'[p], rows')
  BY DEF CallerIsSound, SoundCaller, At

LEMMA NothingToDo == <<>> \in Seq(Definitions) /\ InOrder(<<>>)
  <1>1. <<>> \in Seq(Definitions) /\ Len(<<>>) = 0
    BY EmptySeq
  <1>2. QED
    BY <1>1 DEF InOrder

LEMMA IdleFields ==
    /\ IdleCaller \in Caller
    /\ IdleCaller.step = "idle" /\ IdleCaller.todo = <<>> /\ IdleCaller.target = LegacyKey
    /\ IdleCaller.revision = 0 /\ IdleCaller.attempt = 0
    /\ \A table : SoundCaller(IdleCaller, table)
  <1>1. IdleCaller \in Caller
    BY ConfigTypes, NothingToDo, Values DEF IdleCaller, Caller, Steps
  <1>2. /\ IdleCaller.step = "idle" /\ IdleCaller.todo = <<>>
        /\ IdleCaller.target = LegacyKey /\ IdleCaller.revision = 0 /\ IdleCaller.attempt = 0
    BY DEF IdleCaller
  <1>3. \A table : SoundCaller(IdleCaller, table)
    BY <1>2, NothingToDo, Values DEF SoundCaller
  <1>4. QED
    BY <1>1, <1>2, <1>3

\* What a caller has read stays of the past while revisions rise.
LEMMA SoundStays ==
    ASSUME NEW caller \in Caller, NEW old \in [Keys -> UnseenRow], NEW new \in [Keys -> UnseenRow],
           \A k \in Keys : old[k].revision <= new[k].revision,
           SoundCaller(caller, old)
    PROVE  SoundCaller(caller, new)
  <1>1. /\ caller.revision \in Nat /\ caller.target \in Keys
        /\ caller.todo \in Seq(Definitions)
    BY DEF Caller
  <1>2. \A k \in Keys : old[k].revision \in Nat /\ new[k].revision \in Nat
    BY DEF UnseenRow
  <1>3. ASSUME caller.step = "put"
        PROVE  caller.revision <= new[Head(caller.todo).key].revision
    <2>1. PICK k : k = Head(caller.todo).key
      OBVIOUS
    <2>2. caller.todo # <<>>
      BY <1>3 DEF SoundCaller
    <2>3. k \in Keys
      <3>1. Head(caller.todo) \in Definitions
        BY <1>1, <2>2, HeadTailProperties
      <3>2. QED
        BY <2>1, <3>1, DefinitionFacts
    <2>4. caller.revision <= old[k].revision
      BY <1>3, <2>1 DEF SoundCaller
    <2>5. caller.revision <= new[k].revision
      BY <1>1, <1>2, <2>3, <2>4
    <2>6. QED
      BY <2>1, <2>5
  <1>4. ASSUME caller.step = "archive"
        PROVE  caller.revision > 0 /\ caller.revision <= new[caller.target].revision
    <2>1. caller.revision > 0 /\ caller.revision <= old[caller.target].revision
      BY <1>4 DEF SoundCaller
    <2>2. QED
      BY <1>1, <1>2, <2>1
  <1>5. QED
    BY <1>3, <1>4 DEF SoundCaller

\* The invariant without what the settings keep of themselves.
Others ==
    /\ TypeOK
    /\ RowsAreRendered
    /\ ReplaysAreApplied
    /\ \A p \in Callers : CallerIsSound(p)

RowsRise == \A k \in Keys : rows[k].revision <= rows'[k].revision

LEMMA OneCallerMoves ==
    ASSUME Others, NEW p \in Callers, NEW c \in Caller, SetCaller(p, c),
           rows' \in [Keys -> UnseenRow], RowsRise, SoundCaller(c, rows')
    PROVE  callers' \in [Callers -> Caller] /\ \A q \in Callers : CallerIsSound(q)'
  <1>1. callers \in [Callers -> Caller] /\ rows \in [Keys -> UnseenRow]
    BY DEF Others, TypeOK
  <1>2. callers' = [callers EXCEPT ![p] = c]
    BY DEF SetCaller
  <1>3. ASSUME NEW q \in Callers
        PROVE  SoundCaller(callers'[q], rows')
    <2>1. CASE q = p
      BY <1>1, <1>2, <2>1
    <2>2. CASE q # p
      <3>1. callers'[q] = callers[q] /\ callers[q] \in Caller
        BY <1>1, <1>2, <2>2
      <3>2. SoundCaller(callers[q], rows)
        BY SoundAre DEF Others
      <3>3. SoundCaller(callers[q], rows')
        BY <1>1, <3>1, <3>2, SoundStays DEF RowsRise
      <3>4. QED
        BY <3>1, <3>3
    <2>3. QED
      BY <2>1, <2>2
  <1>4. callers' \in [Callers -> Caller]
    BY <1>1, <1>2
  <1>5. QED
    BY <1>3, <1>4, SoundAre

LEMMA RowsUnmoved ==
    ASSUME Others, UNCHANGED <<rows, replays>>
    PROVE  /\ rows' \in [Keys -> UnseenRow] /\ replays' \in SUBSET (Definitions \X Nat)
           /\ RowsRise /\ RowsAreRendered' /\ ReplaysAreApplied'
  <1>1. rows' \in [Keys -> UnseenRow] /\ replays' \in SUBSET (Definitions \X Nat)
    BY DEF Others, TypeOK
  <1>2. RowsRise
    <2>1. \A k \in Keys : rows[k].revision \in Nat
      BY DEF Others, TypeOK, UnseenRow
    <2>2. QED
      BY <2>1 DEF RowsRise
  <1>3. RowsAreRendered'
    BY DEF Others, RowsAreRendered, Active
  <1>4. ReplaysAreApplied'
    BY DEF Others, ReplaysAreApplied
  <1>5. QED
    BY <1>1, <1>2, <1>3, <1>4

\* A step that writes no row.
LEMMA CallerKeeps ==
    ASSUME Others, NEW p \in Callers, NEW c \in Caller, SetCaller(p, c), SoundCaller(c, rows),
           UNCHANGED <<rows, replays>>,
           companies' \in Directory, items' \in AgreementsOf, settings' \in Overrides,
           current' \in Config, errors' \in BOOLEAN, changes' \in 0..MaxChanges,
           faults' \in 0..MaxFaults
    PROVE  Others'
  <1>1. /\ rows' \in [Keys -> UnseenRow] /\ replays' \in SUBSET (Definitions \X Nat)
        /\ RowsRise /\ RowsAreRendered' /\ ReplaysAreApplied'
    BY RowsUnmoved
  <1>2. SoundCaller(c, rows')
    OBVIOUS
  <1>3. callers' \in [Callers -> Caller] /\ \A q \in Callers : CallerIsSound(q)'
    BY <1>1, <1>2, OneCallerMoves
  <1>4. TypeOK'
    BY <1>1, <1>3 DEF TypeOK, AgreementsOf
  <1>5. QED
    BY <1>1, <1>3, <1>4 DEF Others

\* A caller whose next step reads no row.
LEMMA StepSet ==
    ASSUME NEW c \in Caller, c.todo = <<>>, c.target # ControlKey,
           NEW step \in Steps \ {"items", "get", "put", "archive"}
    PROVE  LET new == [c EXCEPT !.step = step] IN
           /\ new \in Caller /\ new.todo = <<>> /\ new.target = c.target
           /\ \A table : SoundCaller(new, table)
  <1>1. PICK new : new = [c EXCEPT !.step = step]
    OBVIOUS
  <1>2. new \in Caller /\ new.step = step /\ new.todo = <<>> /\ new.target = c.target
    BY <1>1 DEF Caller
  <1>3. \A table : SoundCaller(new, table)
    BY <1>2, NothingToDo DEF SoundCaller
  <1>4. QED
    BY <1>1, <1>2, <1>3

LEMMA StateFacts ==
    ASSUME Others
    PROVE  /\ companies \in Directory /\ items \in AgreementsOf /\ settings \in Overrides
           /\ current \in Config /\ errors \in BOOLEAN
           /\ changes \in 0..MaxChanges /\ faults \in 0..MaxFaults
           /\ rows \in [Keys -> UnseenRow] /\ callers \in [Callers -> Caller]
           /\ \A p \in Callers : callers[p] \in Caller /\ SoundCaller(callers[p], rows)
           /\ replays \subseteq Definitions \X Nat
  BY SoundAre DEF Others, TypeOK, AgreementsOf

\* A client asks for a change.
LEMMA AskedFacts ==
    ASSUME Others, NEW p \in Callers, Asked(p)
    PROVE  changes' \in 0..MaxChanges /\ faults' \in 0..MaxFaults
  BY StateFacts, Values DEF Asked

LEMMA ClientKeeps ==
    ASSUME Others, NEW p \in Callers, ClientAsks(p)
    PROVE  Others'
  <1>1. /\ IdleCaller \in Caller /\ IdleCaller.todo = <<>> /\ IdleCaller.target # ControlKey
    BY IdleFields, Values
  <1>2. Asked(p)
    BY DEF ClientAsks, CreateCompany, UpdateCompany, DeleteCompany, ChangeAgreement, Configure
  <1>3. changes' \in 0..MaxChanges /\ faults' \in 0..MaxFaults
    BY <1>2, AskedFacts
  <1>4. PICK toPublish \in Caller : toPublish = [IdleCaller EXCEPT !.step = "publish"]
                                    /\ SoundCaller(toPublish, rows)
    <2>1. "publish" \in Steps \ {"items", "get", "put", "archive"}
      BY DEF Steps
    <2>2. QED
      BY <1>1, <2>1, StepSet
  <1>5. ASSUME NEW c \in Companies, NEW channel \in Channels,
               CreateCompany(p, c, channel) \/ UpdateCompany(p, c, channel)
        PROVE  Others'
    <2>1. companies' \in Directory
      BY <1>5, StateFacts DEF CreateCompany, UpdateCompany, Directory
    <2>2. /\ SetCaller(p, toPublish)
          /\ UNCHANGED <<items, settings, current, rows, replays, errors>>
      BY <1>4, <1>5 DEF CreateCompany, UpdateCompany, Goes
    <2>3. QED
      BY <1>3, <1>4, <2>1, <2>2, StateFacts, CallerKeeps
  <1>6. ASSUME NEW c \in Companies, DeleteCompany(p, c)
        PROVE  Others'
    <2>1. companies' \in Directory
      BY <1>6, StateFacts DEF DeleteCompany, Directory
    <2>2. PICK caller : caller = [IdleCaller EXCEPT !.step = "deleted", !.target = c]
      OBVIOUS
    <2>3. /\ caller.step = "deleted" /\ caller.todo = <<>> /\ caller.target = c
          /\ caller \in Caller
      BY <1>1, <2>2, Values DEF Caller, Steps
    <2>4. SoundCaller(caller, rows)
      BY <2>3, NothingToDo, Values DEF SoundCaller
    <2>5. /\ SetCaller(p, caller) /\ UNCHANGED <<items, settings, current, rows, replays, errors>>
      BY <1>6, <2>2 DEF DeleteCompany
    <2>6. QED
      BY <1>3, <2>1, <2>3, <2>4, <2>5, StateFacts, CallerKeeps
  <1>7. ASSUME NEW c \in Companies, NEW i \in Items, NEW text \in Texts \union {NoText},
               ChangeAgreement(p, c, i, text)
        PROVE  Others'
    <2>1. items' \in AgreementsOf
      BY <1>7, StateFacts DEF ChangeAgreement, AgreementsOf
    <2>2. /\ SetCaller(p, toPublish)
          /\ UNCHANGED <<companies, settings, current, rows, replays, errors>>
      BY <1>4, <1>7 DEF ChangeAgreement, Goes
    <2>3. QED
      BY <1>3, <1>4, <2>1, <2>2, StateFacts, CallerKeeps
  <1>8. ASSUME NEW update \in Overrides, Configure(p, update)
        PROVE  Others'
    <2>1. PICK caller : caller = [IdleCaller EXCEPT !.step = "reload", !.update = update]
      OBVIOUS
    <2>2. /\ caller.step = "reload" /\ caller.todo = <<>> /\ caller.target = LegacyKey
          /\ caller \in Caller
      BY <2>1, IdleFields DEF Caller, Steps
    <2>3. SoundCaller(caller, rows)
      BY <2>2, NothingToDo, Values DEF SoundCaller
    <2>4. SetCaller(p, caller) /\ UNCHANGED <<data, rows, replays, errors>>
      BY <1>8, <2>1 DEF Configure
    <2>5. QED
      BY <1>3, <2>2, <2>3, <2>4, StateFacts, CallerKeeps DEF data
  <1>9. QED
    BY <1>5, <1>6, <1>7, <1>8 DEF ClientAsks

LEMMA RefreshKeeps ==
    ASSUME Others, Refresh
    PROVE  Others'
  <1>1. /\ IdleCaller \in Caller /\ IdleCaller.todo = <<>> /\ IdleCaller.target # ControlKey
    BY IdleFields, Values
  <1>2. "reload" \in Steps \ {"items", "get", "put", "archive"}
    BY DEF Steps
  <1>3. PICK caller \in Caller : caller = [IdleCaller EXCEPT !.step = "reload"]
                                 /\ SoundCaller(caller, rows)
    BY <1>1, <1>2, StepSet
  <1>4. SetCaller(Refresher, caller) /\ UNCHANGED <<data, rows, replays, errors, changes, faults>>
    BY <1>3 DEF Refresh, Goes
  <1>5. Refresher \in Callers
    BY DEF Callers
  <1>6. QED
    BY <1>3, <1>4, <1>5, StateFacts, CallerKeeps DEF data

\* A caller that ends, well or with an error.
LEMMA EndingKeeps ==
    ASSUME Others, NEW p \in Callers, SetCaller(p, IdleCaller), errors' \in BOOLEAN,
           UNCHANGED <<rows, replays>>,
           companies' \in Directory, items' \in AgreementsOf, settings' \in Overrides,
           current' \in Config, changes' \in 0..MaxChanges, faults' \in 0..MaxFaults
    PROVE  Others'
  BY IdleFields, CallerKeeps

LEMMA InterruptedKeeps ==
    ASSUME Others, NEW p \in Callers, Interrupted(p)
    PROVE  Others'
  <1>1. faults' \in 0..MaxFaults
    BY StateFacts, Values DEF Interrupted
  <1>2. /\ SetCaller(p, IdleCaller) /\ errors' = TRUE
        /\ UNCHANGED <<data, rows, replays, changes>>
    BY DEF Interrupted, Ends
  <1>3. QED
    BY <1>1, <1>2, StateFacts, EndingKeeps DEF data

LEMMA RestartKeeps ==
    ASSUME Others, Restart
    PROVE  Others'
  <1>1. /\ faults' \in 0..MaxFaults /\ errors' = TRUE
        /\ UNCHANGED <<companies, items, settings, rows, replays, changes>>
    BY StateFacts, Values DEF Restart
  <1>2. current' \in Config
    BY ConfigTypes DEF Restart
  <1>3. callers' \in [Callers -> Caller] /\ \A p \in Callers : callers'[p] = IdleCaller
    BY IdleFields DEF Restart
  <1>4. \A p \in Callers : CallerIsSound(p)'
    BY <1>3, IdleFields, SoundAre
  <1>5. /\ rows' \in [Keys -> UnseenRow] /\ replays' \in SUBSET (Definitions \X Nat)
        /\ RowsAreRendered' /\ ReplaysAreApplied'
    BY <1>1, RowsUnmoved
  <1>6. TypeOK'
    BY <1>1, <1>2, <1>3, <1>5, StateFacts DEF TypeOK, AgreementsOf
  <1>7. QED
    BY <1>4, <1>5, <1>6 DEF Others

-----------------------------------------------------------------------------
(* The steps of a caller that write no row.                                *)

LEMMA AtFacts ==
    ASSUME Others, NEW p \in Callers
    PROVE  LET c == callers[p] IN
           /\ c \in Caller /\ c.target # ControlKey /\ c.target \in Keys
           /\ c.todo \in Seq(Definitions) /\ InOrder(c.todo)
           /\ c.step \notin {"get", "put"} => c.todo = <<>>
           /\ c.step \in {"get", "put"} =>
               /\ c.todo # <<>> /\ Head(c.todo) \in Definitions /\ Head(c.todo).key \in Keys
  <1>1. PICK c \in Caller : c = callers[p] /\ SoundCaller(c, rows)
    BY StateFacts
  <1>2. c.todo \in Seq(Definitions) /\ c.target \in Keys
    BY DEF Caller
  <1>3. /\ c.target # ControlKey /\ InOrder(c.todo)
        /\ c.step \in {"get", "put"} <=> c.todo # <<>>
    BY <1>1 DEF SoundCaller
  <1>4. c.todo # <<>> => Head(c.todo) \in Definitions /\ Head(c.todo).key \in Keys
    BY <1>2, HeadTailProperties, DefinitionFacts
  <1>5. QED
    BY <1>1, <1>2, <1>3, <1>4

LEMMA AfterDeleteKeeps ==
    ASSUME Others, NEW p \in Callers, AfterDelete(p)
    PROVE  Others'
  <1>1. /\ callers[p] \in Caller /\ callers[p].todo = <<>> /\ callers[p].target # ControlKey
    BY AtFacts DEF AfterDelete, At
  <1>2. "find" \in Steps \ {"items", "get", "put", "archive"}
    BY DEF Steps
  <1>3. PICK caller \in Caller : caller = [callers[p] EXCEPT !.step = "find"]
                                 /\ SoundCaller(caller, rows)
    BY <1>1, <1>2, StepSet
  <1>4. /\ SetCaller(p, caller) \/ SetCaller(p, IdleCaller)
        /\ UNCHANGED <<data, rows, replays, errors, changes, faults>>
    BY <1>3 DEF AfterDelete
  <1>5. QED
    BY <1>3, <1>4, StateFacts, CallerKeeps, EndingKeeps DEF data

LEMMA ReloadKeeps ==
    ASSUME Others, NEW p \in Callers, ReadSettings(p) \/ StoreConfig(p)
    PROVE  Others'
  <1>1. PICK c \in Caller : c = callers[p] /\ c.todo = <<>> /\ c.target # ControlKey
    BY AtFacts DEF ReadSettings, StoreConfig, At
  <1>2. CASE ReadSettings(p)
    <2>1. PICK caller : caller = [c EXCEPT !.step = "store", !.stored = settings]
      OBVIOUS
    <2>2. /\ caller.step = "store" /\ caller.todo = <<>> /\ caller.target = c.target
          /\ caller \in Caller
      BY <1>1, <2>1, StateFacts DEF Caller, Steps
    <2>3. SoundCaller(caller, rows)
      BY <1>1, <2>2, NothingToDo DEF SoundCaller
    <2>4. SetCaller(p, caller) /\ UNCHANGED <<data, rows, replays, errors, changes, faults>>
      BY <1>1, <1>2, <2>1 DEF ReadSettings
    <2>5. QED
      BY <2>2, <2>3, <2>4, StateFacts, CallerKeeps DEF data
  <1>3. CASE StoreConfig(p)
    <2>1. PICK step \in {"publish", "set"} :
              step = IF c.update = NoOverride THEN "publish" ELSE "set"
      OBVIOUS
    <2>2. PICK caller : caller = [c EXCEPT !.stored = NoOverride, !.step = step]
      OBVIOUS
    <2>3. /\ caller.step = step /\ caller.todo = <<>> /\ caller.target = c.target
          /\ caller \in Caller
      BY <1>1, <2>2, ConfigTypes DEF Caller, Steps
    <2>4. SoundCaller(caller, rows)
      BY <1>1, <2>3, NothingToDo DEF SoundCaller
    <2>5. current' \in Config
      <3>1. c.stored \in Overrides
        BY DEF Caller
      <3>2. QED
        BY <1>1, <1>3, <3>1, ConfigTypes DEF StoreConfig, Effective
    <2>6. /\ SetCaller(p, caller)
          /\ UNCHANGED <<companies, items, settings, rows, replays, errors, changes, faults>>
      BY <1>1, <1>3, <2>1, <2>2 DEF StoreConfig
    <2>7. QED
      BY <2>3, <2>4, <2>5, <2>6, StateFacts, CallerKeeps
  <1>4. QED
    BY <1>2, <1>3

LEMMA SaveSettingsKeeps ==
    ASSUME Others, NEW p \in Callers, SaveSettings(p)
    PROVE  Others'
  <1>1. IdleCaller \in Caller /\ IdleCaller.todo = <<>> /\ IdleCaller.target # ControlKey
    BY IdleFields, Values
  <1>2. "reload" \in Steps \ {"items", "get", "put", "archive"}
    BY DEF Steps
  <1>3. PICK caller \in Caller : caller = [IdleCaller EXCEPT !.step = "reload"]
                                 /\ SoundCaller(caller, rows)
    BY <1>1, <1>2, StepSet
  <1>4. UNCHANGED <<companies, items, current, rows, replays, changes, faults>>
    BY DEF SaveSettings
  <1>5. CASE Ends(p) /\ UNCHANGED settings
    BY <1>4, <1>5, StateFacts, EndingKeeps DEF Ends
  <1>6. CASE settings' = Stored(callers[p].update) /\ Goes(p, "reload")
    <2>1. callers[p].update \in Overrides
      BY StateFacts DEF Caller
    <2>2. settings' \in Overrides
      BY <1>6, <2>1, StateFacts, StoredType
    <2>3. SetCaller(p, caller) /\ UNCHANGED errors
      BY <1>3, <1>6 DEF Goes
    <2>4. QED
      BY <1>3, <1>4, <2>2, <2>3, StateFacts, CallerKeeps
  <1>7. QED
    BY <1>5, <1>6 DEF SaveSettings

\* Publish goes by an enabled configuration, which has a channel.
LEMMA ReadCompaniesKeeps ==
    ASSUME Others, EnabledHasChannel, NEW p \in Callers, ReadCompanies(p)
    PROVE  Others'
  <1>1. UNCHANGED <<data, rows, replays, changes, faults>>
    BY DEF ReadCompanies
  <1>2. CASE Succeeds(p)
    BY <1>1, <1>2, StateFacts, EndingKeeps DEF Succeeds, data
  <1>3. CASE /\ current.enabled
             /\ SetCaller(p, [IdleCaller EXCEPT !.step = "items", !.config = current,
                                                !.channels = companies])
             /\ UNCHANGED errors
    <2>1. PICK caller : caller = [IdleCaller EXCEPT !.step = "items", !.config = current,
                                                    !.channels = companies]
      OBVIOUS
    <2>2. /\ caller.step = "items" /\ caller.todo = <<>> /\ caller.target = LegacyKey
          /\ caller.channels = companies /\ caller.config = current
          /\ caller \in Caller
      BY <2>1, IdleFields, StateFacts DEF Caller, Steps
    <2>3. current.control \in Channels
      BY <1>3, StateFacts DEF EnabledHasChannel, Config
    <2>4. SoundCaller(caller, rows)
      BY <2>2, <2>3, NothingToDo, Values, StateFacts DEF SoundCaller
    <2>5. SetCaller(p, caller)
      BY <1>3, <2>1
    <2>6. QED
      BY <1>1, <1>3, <2>2, <2>4, <2>5, StateFacts, CallerKeeps DEF data
  <1>4. QED
    BY <1>2, <1>3 DEF ReadCompanies

LEMMA ReadItemsKeeps ==
    ASSUME Others, NEW p \in Callers, ReadItems(p)
    PROVE  Others'
  <1>1. PICK c \in Caller : /\ c = callers[p]
                            /\ c.channels \in Directory /\ c.config.control \in Channels
    BY StateFacts DEF ReadItems, At, SoundCaller
  <1>2. PICK todo \in Seq(Definitions) : /\ todo = Render(c.channels, items, c.config)
                                         /\ todo # <<>> /\ InOrder(todo)
    BY <1>1, StateFacts, RenderedInOrder
  <1>3. PICK caller : caller = [IdleCaller EXCEPT !.step = "get", !.todo = todo]
    OBVIOUS
  <1>4. /\ caller.step = "get" /\ caller.todo = todo /\ caller.target = LegacyKey
        /\ caller \in Caller
    BY <1>3, IdleFields DEF Caller, Steps
  <1>5. SoundCaller(caller, rows)
    BY <1>2, <1>4, Values DEF SoundCaller
  <1>6. SetCaller(p, caller) /\ UNCHANGED <<data, rows, replays, errors, changes, faults>>
    BY <1>1, <1>2, <1>3 DEF ReadItems
  <1>7. QED
    BY <1>4, <1>5, <1>6, StateFacts, CallerKeeps DEF data

LEMMA GetRowKeeps ==
    ASSUME Others, NEW p \in Callers, GetRow(p)
    PROVE  Others'
  <1>1. PICK c \in Caller : /\ c = callers[p] /\ c.target # ControlKey
                            /\ c.todo # <<>> /\ InOrder(c.todo) /\ Head(c.todo).key \in Keys
    BY AtFacts DEF GetRow, At
  <1>2. PICK n \in Nat : n = rows[Head(c.todo).key].revision
    BY <1>1, StateFacts DEF UnseenRow
  <1>3. PICK caller : caller = [c EXCEPT !.step = "put", !.revision = n]
    OBVIOUS
  <1>4. /\ caller.step = "put" /\ caller.todo = c.todo /\ caller.target = c.target
        /\ caller.revision = n /\ caller \in Caller
    BY <1>3 DEF Caller, Steps
  <1>5. SoundCaller(caller, rows)
    BY <1>1, <1>2, <1>4 DEF SoundCaller
  <1>6. SetCaller(p, caller) /\ UNCHANGED <<data, rows, replays, errors, changes, faults>>
    BY <1>1, <1>2, <1>3 DEF GetRow
  <1>7. QED
    BY <1>4, <1>5, <1>6, StateFacts, CallerKeeps DEF data

LEMMA FindRowKeeps ==
    ASSUME Others, NEW p \in Callers, FindRow(p)
    PROVE  Others'
  <1>1. UNCHANGED <<data, rows, replays, changes, faults>>
    BY DEF FindRow
  <1>2. CASE Succeeds(p)
    BY <1>1, <1>2, StateFacts, EndingKeeps DEF Succeeds, data
  <1>3. CASE /\ Active(callers[p].target)
             /\ SetCaller(p, [callers[p] EXCEPT
                     !.step = "archive", !.revision = rows[callers[p].target].revision])
             /\ UNCHANGED errors
    <2>1. PICK c \in Caller : /\ c = callers[p] /\ c.todo = <<>>
                              /\ c.target # ControlKey /\ c.target \in Keys
      BY AtFacts DEF FindRow, At
    <2>2. PICK n \in Nat : n = rows[c.target].revision /\ n > 0
      BY <1>3, <2>1, StateFacts DEF UnseenRow, Active, Others, RowsAreRendered
    <2>3. PICK caller : caller = [c EXCEPT !.step = "archive", !.revision = n]
      OBVIOUS
    <2>4. /\ caller.step = "archive" /\ caller.todo = <<>> /\ caller.target = c.target
          /\ caller.revision = n /\ caller \in Caller
      BY <2>1, <2>3 DEF Caller, Steps
    <2>5. SoundCaller(caller, rows)
      BY <2>1, <2>2, <2>4, NothingToDo DEF SoundCaller
    <2>6. SetCaller(p, caller)
      BY <1>3, <2>1, <2>2, <2>3
    <2>7. QED
      BY <1>1, <1>3, <2>4, <2>5, <2>6, StateFacts, CallerKeeps DEF data
  <1>4. QED
    BY <1>2, <1>3 DEF FindRow

-----------------------------------------------------------------------------
(* The steps that write rows.                                              *)

\* RowsAreRendered and ReplaysAreApplied of one row.
RenderedRow(k, row) ==
    /\ Store!Exists(row) <=> row.revision > 0
    /\ k \in Companies =>
        (Store!Exists(row) => row.channel \in Channels /\ row.content \in Listings)
    /\ k = ControlKey =>
        /\ ~Store!Archived(row)
        /\ Store!Exists(row) => row.channel \in Channels /\ row.content = ControlPanel

AppliedTo(d, revision, row) ==
    /\ revision <= row.revision /\ row.revision > 0
    /\ revision = row.revision =>
        row.channel = d.channel /\ row.content = d.content /\ ~Store!Archived(row)

LEMMA RenderedAre ==
    /\ RowsAreRendered <=> \A k \in Keys : RenderedRow(k, rows[k])
    /\ RowsAreRendered' <=> \A k \in Keys : RenderedRow(k, rows'[k])
  BY Values DEF RowsAreRendered, RenderedRow, Active

LEMMA AppliedAre ==
    /\ ReplaysAreApplied <=> \A request \in replays :
           AppliedTo(request[1], request[2], rows[request[1].key])
    /\ ReplaysAreApplied' <=> \A request \in replays' :
           AppliedTo(request[1], request[2], rows'[request[1].key])
  BY DEF ReplaysAreApplied, AppliedTo

\* A row whose revision goes up forgets no request, and is none that one has left.
LEMMA RowMoves ==
    ASSUME Others, NEW k \in Keys, NEW row \in UnseenRow,
           rows' = [rows EXCEPT ![k] = row],
           row.revision > rows[k].revision, RenderedRow(k, row)
    PROVE  /\ rows' \in [Keys -> UnseenRow] /\ RowsRise /\ RowsAreRendered'
           /\ \A request \in replays : AppliedTo(request[1], request[2], rows'[request[1].key])
  <1>1. rows \in [Keys -> UnseenRow] /\ rows' \in [Keys -> UnseenRow]
    BY StateFacts
  <1>2. \A j \in Keys : rows'[j] = IF j = k THEN row ELSE rows[j]
    BY <1>1
  <1>3. \A j \in Keys : rows[j].revision \in Nat /\ rows'[j].revision \in Nat
    BY <1>1 DEF UnseenRow
  <1>4. RowsRise
    BY <1>2, <1>3 DEF RowsRise
  <1>5. \A j \in Keys : RenderedRow(j, rows[j])
    BY RenderedAre DEF Others
  <1>6. RowsAreRendered'
    BY <1>2, <1>5, RenderedAre
  <1>7. ASSUME NEW request \in replays
        PROVE  AppliedTo(request[1], request[2], rows'[request[1].key])
    <2>1. PICK d \in Definitions, n \in Nat : d = request[1] /\ n = request[2]
      BY StateFacts
    <2>2. d.key \in Keys
      BY DefinitionFacts
    <2>3. AppliedTo(d, n, rows[d.key])
      BY <2>1, AppliedAre DEF Others
    <2>4. CASE d.key = k
      <3>1. n <= rows[k].revision /\ row.revision \in Nat
        BY <1>2, <1>3, <2>3, <2>4 DEF AppliedTo
      <3>2. n < row.revision /\ row.revision > 0
        BY <1>3, <3>1
      <3>3. AppliedTo(d, n, row)
        BY <3>1, <3>2 DEF AppliedTo
      <3>4. QED
        BY <1>2, <2>1, <2>4, <3>3
    <2>5. CASE d.key # k
      BY <1>2, <2>1, <2>2, <2>3, <2>5
    <2>6. QED
      BY <2>4, <2>5
  <1>8. QED
    BY <1>1, <1>4, <1>6, <1>7

\* A caller whose definition is out goes on to the next one, or to the old list.
LEMMA NextSound ==
    ASSUME Others, NEW p \in Callers, At(p, "put"), NextDefinition(p)
    PROVE  /\ errors' = errors
           /\ \E caller \in Caller : /\ SetCaller(p, caller)
                                     /\ \A table : SoundCaller(caller, table)
  <1>1. PICK todo \in Seq(Definitions) : todo = callers[p].todo /\ todo # <<>> /\ InOrder(todo)
    BY AtFacts DEF At
  <1>2. PICK t \in Seq(Definitions) : t = Tail(todo) /\ InOrder(t)
    BY <1>1, TailInOrder
  <1>3. CASE t = <<>>
    <2>1. PICK caller : caller = [IdleCaller EXCEPT !.step = "find", !.target = LegacyKey]
      OBVIOUS
    <2>2. /\ caller.step = "find" /\ caller.todo = <<>> /\ caller.target = LegacyKey
          /\ caller \in Caller
      BY <2>1, IdleFields, Values DEF Caller, Steps
    <2>3. \A table : SoundCaller(caller, table)
      BY <2>2, NothingToDo, Values DEF SoundCaller
    <2>4. SetCaller(p, caller)
      BY <1>1, <1>2, <1>3, <2>1 DEF NextDefinition
    <2>5. QED
      BY <2>2, <2>3, <2>4 DEF NextDefinition
  <1>4. CASE t # <<>>
    <2>1. PICK caller : caller = [IdleCaller EXCEPT !.step = "get", !.todo = t]
      OBVIOUS
    <2>2. /\ caller.step = "get" /\ caller.todo = t /\ caller.target = LegacyKey
          /\ caller \in Caller
      BY <2>1, IdleFields DEF Caller, Steps
    <2>3. \A table : SoundCaller(caller, table)
      BY <1>2, <1>4, <2>2, Values DEF SoundCaller
    <2>4. SetCaller(p, caller)
      BY <1>1, <1>2, <1>4, <2>1 DEF NextDefinition
    <2>5. QED
      BY <2>2, <2>3, <2>4 DEF NextDefinition
  <1>5. QED
    BY <1>3, <1>4

\* A conflict sends a caller back to its reading, or ends it.
LEMMA RetryKeeps ==
    ASSUME Others, NEW p \in Callers, NEW step \in {"get", "find"}, RetryConflict(p, step),
           At(p, IF step = "get" THEN "put" ELSE "archive"),
           UNCHANGED <<data, rows, replays, changes, faults>>
    PROVE  Others'
  <1>1. PICK c \in Caller : /\ c = callers[p] /\ c.target # ControlKey /\ InOrder(c.todo)
                            /\ step = "get" <=> c.todo # <<>>
    BY AtFacts DEF At
  <1>2. CASE Ends(p)
    BY <1>2, StateFacts, EndingKeeps DEF Ends, data
  <1>3. CASE /\ callers[p].attempt + 1 < Attempts
             /\ SetCaller(p, [callers[p] EXCEPT !.step = step, !.attempt = @ + 1])
             /\ UNCHANGED errors
    <2>1. PICK n \in 0..Attempts - 1 : n = c.attempt + 1
      <3>1. c.attempt \in Nat /\ c.attempt + 1 < Attempts /\ Attempts \in Nat
        BY <1>1, <1>3, Values DEF Caller
      <3>2. QED
        BY <3>1
    <2>2. PICK caller : caller = [c EXCEPT !.step = step, !.attempt = n]
      OBVIOUS
    <2>3. /\ caller.step = step /\ caller.todo = c.todo /\ caller.target = c.target
          /\ caller \in Caller
      BY <2>2 DEF Caller, Steps
    <2>4. SoundCaller(caller, rows)
      BY <1>1, <2>3 DEF SoundCaller
    <2>5. SetCaller(p, caller)
      BY <1>1, <1>3, <2>1, <2>2
    <2>6. QED
      BY <1>3, <2>3, <2>4, <2>5, StateFacts, CallerKeeps DEF data
  <1>4. QED
    BY <1>2, <1>3 DEF RetryConflict

LEMMA ArchiveRowKeeps ==
    ASSUME Others, NEW p \in Callers, ArchiveRow(p)
    PROVE  Others'
  <1>1. PICK k \in Keys : k = callers[p].target /\ k # ControlKey
    BY AtFacts
  <1>2. UNCHANGED <<data, replays, changes, faults>> /\ At(p, "archive")
    BY DEF ArchiveRow
  <1>3. CASE Succeeds(p) /\ UNCHANGED rows
    BY <1>2, <1>3, StateFacts, EndingKeeps DEF Succeeds, data
  <1>4. CASE RetryConflict(p, "find") /\ UNCHANGED rows
    BY <1>2, <1>4, RetryKeeps
  <1>5. CASE /\ ~Conflict(rows[k], callers[p].revision)
             /\ rows' = [rows EXCEPT ![k] = Store!ArchivedRow(rows[k])]
             /\ Succeeds(p)
    <2>1. PICK old \in UnseenRow : old = rows[k] /\ RenderedRow(k, old)
      BY StateFacts, RenderedAre DEF Others
    <2>2. PICK new \in UnseenRow :
              /\ new = Store!ArchivedRow(old) /\ new.state = "archived"
              /\ new.revision = old.revision + 1
              /\ new.channel = old.channel /\ new.content = old.content
      BY ArchivedType
    <2>3. Store!Exists(old) /\ old.revision \in Nat
      BY <1>5, <2>1 DEF Conflict, UnseenRow
    <2>4. RenderedRow(k, new) /\ new.revision > old.revision
      BY <1>1, <2>1, <2>2, <2>3 DEF RenderedRow, Store!Exists, Store!Archived
    <2>5. rows' = [rows EXCEPT ![k] = new]
      BY <1>5, <2>1, <2>2
    <2>6. /\ rows' \in [Keys -> UnseenRow] /\ RowsRise /\ RowsAreRendered'
          /\ \A request \in replays : AppliedTo(request[1], request[2], rows'[request[1].key])
      BY <2>1, <2>4, <2>5, RowMoves
    <2>7. ReplaysAreApplied'
      BY <1>2, <2>6, AppliedAre
    <2>8. callers' \in [Callers -> Caller] /\ \A q \in Callers : CallerIsSound(q)'
      BY <1>5, <2>6, IdleFields, OneCallerMoves DEF Succeeds
    <2>9. TypeOK'
      BY <1>2, <1>5, <2>6, <2>8, StateFacts DEF TypeOK, AgreementsOf, Succeeds, data
    <2>10. QED
      BY <2>6, <2>7, <2>8, <2>9 DEF Others
  <1>6. QED
    BY <1>1, <1>3, <1>4, <1>5 DEF ArchiveRow

\* What was put is recorded as answered, and the caller goes on.
LEMMA PutKeeps ==
    ASSUME Others, NEW p \in Callers, NextDefinition(p), At(p, "put"),
           NEW d \in Definitions, NEW n \in Nat, replays' = replays \union {<<d, n>>},
           rows' \in [Keys -> UnseenRow], RowsRise, RowsAreRendered',
           \A request \in replays : AppliedTo(request[1], request[2], rows'[request[1].key]),
           AppliedTo(d, n, rows'[d.key]),
           UNCHANGED <<data, changes, faults>>
    PROVE  Others'
  <1>1. ReplaysAreApplied'
    BY AppliedAre
  <1>2. errors' = errors
    BY NextSound
  <1>3. PICK caller \in Caller : SetCaller(p, caller) /\ SoundCaller(caller, rows')
    BY NextSound
  <1>4. callers' \in [Callers -> Caller] /\ \A q \in Callers : CallerIsSound(q)'
    BY <1>3, OneCallerMoves
  <1>5. replays' \in SUBSET (Definitions \X Nat)
    BY StateFacts
  <1>6. TypeOK'
    BY <1>2, <1>4, <1>5, StateFacts DEF TypeOK, AgreementsOf, data
  <1>7. QED
    BY <1>1, <1>4, <1>6 DEF Others

\* Every way a put can end: created, answered from a record, replaced or found
\* unchanged, and in conflict.
LEMMA PutDefinitionKeeps ==
    ASSUME Others, NEW p \in Callers, PutDefinition(p)
    PROVE  Others'
  <1>1. PICK d \in Definitions : d = Head(callers[p].todo) /\ d.key \in Keys
    BY AtFacts DEF PutDefinition, At
  <1>2. PICK n \in Nat : n = callers[p].revision
    BY StateFacts DEF Caller
  <1>3. PICK old \in UnseenRow : old = rows[d.key] /\ RenderedRow(d.key, old)
    BY <1>1, StateFacts, RenderedAre DEF Others
  <1>4. old.revision \in Nat
    BY DEF UnseenRow
  <1>5. UNCHANGED <<data, changes, faults>> /\ At(p, "put")
    BY DEF PutDefinition
  <1>6. /\ d.channel \in Channels /\ d.content \in Contents
        /\ d.key \in Companies => d.content \in Listings
        /\ d.key = ControlKey => d.content = ControlPanel
    BY DefinitionFacts
  <1>7. ASSUME NEW new \in UnseenRow, new.state = "pending", new.revision = old.revision + 1,
               new.channel = d.channel, new.content = d.content,
               rows' = [rows EXCEPT ![d.key] = new],
               replays' = replays \union {<<d, n>>}, n <= old.revision, NextDefinition(p)
        PROVE  Others'
    <2>1. /\ new.revision > old.revision /\ new.revision \in Nat /\ n < new.revision
          /\ new.revision > 0
      BY <1>4, <1>7
    <2>2. RenderedRow(d.key, new)
      BY <1>6, <1>7, <2>1 DEF RenderedRow, Store!Exists, Store!Archived
    <2>3. /\ rows' \in [Keys -> UnseenRow] /\ RowsRise /\ RowsAreRendered'
          /\ \A request \in replays : AppliedTo(request[1], request[2], rows'[request[1].key])
      BY <1>1, <1>3, <1>7, <2>1, <2>2, RowMoves
    <2>4. rows'[d.key] = new
      BY <1>1, <1>7, StateFacts
    <2>5. n <= new.revision /\ n # new.revision
      BY <2>1
    <2>6. AppliedTo(d, n, rows'[d.key])
      BY <2>1, <2>4, <2>5 DEF AppliedTo
    <2>7. QED
      BY <1>5, <1>7, <2>3, <2>6, PutKeeps
  <1>8. CASE /\ n = 0 /\ ~Store!Exists(old)
             /\ rows' = [rows EXCEPT ![d.key] = Store!InsertedRow(d.channel, d.content)]
             /\ replays' = replays \union {Request(d, n)}
             /\ NextDefinition(p)
    <2>1. PICK new \in UnseenRow :
              /\ new = Store!InsertedRow(d.channel, d.content)
              /\ new.state = "pending" /\ new.revision = 1
              /\ new.channel = d.channel /\ new.content = d.content
      BY <1>6, InsertedType
    <2>2. old.revision = 0
      BY <1>3, <1>4, <1>8 DEF RenderedRow
    <2>3. /\ new.revision = old.revision + 1 /\ n <= old.revision
          /\ rows' = [rows EXCEPT ![d.key] = new] /\ replays' = replays \union {<<d, n>>}
      BY <1>8, <2>1, <2>2 DEF Request
    <2>4. QED
      BY <1>7, <1>8, <2>1, <2>3
  <1>9. CASE NextDefinition(p) /\ UNCHANGED <<rows, replays>>
    <2>1. PICK caller \in Caller : SetCaller(p, caller) /\ SoundCaller(caller, rows)
      BY <1>5, <1>9, NextSound
    <2>2. errors' = errors
      BY <1>5, <1>9, NextSound
    <2>3. QED
      BY <1>5, <1>9, <2>1, <2>2, StateFacts, CallerKeeps DEF data
  <1>10. CASE /\ n # 0 /\ ~Conflict(old, n)
              /\ rows' = [rows EXCEPT ![d.key] =
                             IF Changed(old, d)
                             THEN Store!ReplacedRow(old, d.channel, d.content) ELSE old]
              /\ replays' = replays \union {Request(d, n)}
              /\ NextDefinition(p)
    <2>1. old.revision = n /\ ~Store!Archived(old)
      BY <1>10 DEF Conflict
    <2>2. replays' = replays \union {<<d, n>>}
      BY <1>10 DEF Request
    <2>3. CASE Changed(old, d)
      <3>1. PICK new \in UnseenRow :
                /\ new = Store!ReplacedRow(old, d.channel, d.content)
                /\ new.state = "pending" /\ new.revision = old.revision + 1
                /\ new.channel = d.channel /\ new.content = d.content
        BY <1>6, ReplacedType
      <3>2. rows' = [rows EXCEPT ![d.key] = new] /\ n <= old.revision
        BY <1>4, <1>10, <2>1, <2>3, <3>1
      <3>3. QED
        BY <1>7, <1>10, <2>2, <3>1, <3>2
    <2>4. CASE ~Changed(old, d)
      <3>1. UNCHANGED rows
        <4>1. rows \in [Keys -> UnseenRow] /\ rows' = [rows EXCEPT ![d.key] = rows[d.key]]
          BY <1>3, <1>10, <2>4, StateFacts
        <4>2. QED
          BY <4>1
      <3>2. /\ rows' \in [Keys -> UnseenRow] /\ RowsRise /\ RowsAreRendered'
        <4>1. rows' \in [Keys -> UnseenRow] /\ RowsAreRendered'
          BY <3>1, StateFacts, RenderedAre DEF Others
        <4>2. RowsRise
          BY <3>1, StateFacts DEF RowsRise, UnseenRow
        <4>3. QED
          BY <4>1, <4>2
      <3>3. \A request \in replays : AppliedTo(request[1], request[2], rows'[request[1].key])
        BY <3>1, AppliedAre DEF Others
      <3>4. AppliedTo(d, n, rows'[d.key])
        BY <1>3, <1>4, <1>10, <2>1, <2>4, <3>1 DEF AppliedTo, Changed
      <3>5. QED
        BY <1>5, <1>10, <2>2, <3>2, <3>3, <3>4, PutKeeps
    <2>5. QED
      BY <2>3, <2>4
  <1>11. CASE RetryConflict(p, "get") /\ UNCHANGED <<rows, replays>>
    BY <1>5, <1>11, RetryKeeps
  <1>12. QED
    BY <1>1, <1>2, <1>3, <1>8, <1>9, <1>10, <1>11 DEF PutDefinition

-----------------------------------------------------------------------------
(* The invariant.                                                          *)

LEMMA InitiallySound == Init => IInv
  <1>1. SUFFICES ASSUME Init
                 PROVE  IInv
    OBVIOUS
  <1>2. current \in Config /\ EnabledHasChannel
    BY <1>1, ConfigTypes, BaseHasChannel DEF Init, EnabledHasChannel
  <1>3. PICK legacy \in UnseenRow :
            /\ legacy = Store!InsertedRow(LegacyChannel, ControlPanel)
            /\ legacy.state = "pending" /\ legacy.revision = 1
    BY AgreementsAssumption, InsertedType DEF Contents
  <1>4. PICK absent \in UnseenRow :
            absent = Store!AbsentRow /\ absent.state = "absent" /\ absent.revision = 0
    BY AbsentType
  <1>5. /\ rows \in [Keys -> UnseenRow]
        /\ rows[LegacyKey] \in {legacy, absent}
        /\ \A k \in Keys : k # LegacyKey => rows[k] = absent
    BY <1>1, <1>3, <1>4, Values DEF Init
  <1>6. RowsAreRendered
    <2>1. \A k \in Keys : RenderedRow(k, rows[k])
      BY <1>3, <1>4, <1>5, Values DEF RenderedRow, Store!Exists, Store!Archived
    <2>2. QED
      BY <2>1, RenderedAre
  <1>7. ReplaysAreApplied
    BY <1>1 DEF Init, ReplaysAreApplied
  <1>8. callers \in [Callers -> Caller] /\ \A p \in Callers : CallerIsSound(p)
    BY <1>1, IdleFields, SoundAre DEF Init
  <1>9. TypeOK
    <2>1. /\ companies \in Directory /\ items \in [Companies -> [Items -> Texts \union {NoText}]]
          /\ settings \in Overrides
      BY <1>1, ConfigTypes DEF Init, Directory
    <2>2. /\ replays \in SUBSET (Definitions \X Nat) /\ errors \in BOOLEAN
          /\ changes \in 0..MaxChanges /\ faults \in 0..MaxFaults
      <3>1. changes \in 0..MaxChanges /\ faults \in 0..MaxFaults
        BY <1>1, Values DEF Init
      <3>2. QED
        BY <1>1, <3>1 DEF Init
    <2>3. QED
      BY <1>2, <1>5, <1>8, <2>1, <2>2 DEF TypeOK
  <1>10. QED
    BY <1>2, <1>6, <1>7, <1>8, <1>9 DEF IInv

\* Only a reload and a restart change the configuration, and both normalize it.
LEMMA EnabledKept ==
    ASSUME EnabledHasChannel, [Next]_vars
    PROVE  EnabledHasChannel'
  <1>1. SUFFICES ASSUME current' # current
                 PROVE  EnabledHasChannel'
    BY DEF EnabledHasChannel
  <1>2. CASE Restart
    BY <1>2, BaseHasChannel DEF Restart, EnabledHasChannel
  <1>3. ASSUME NEW p \in Callers, StoreConfig(p)
        PROVE  EnabledHasChannel'
    BY <1>3, NormalizedHasChannel DEF StoreConfig, Effective, EnabledHasChannel
  <1>4. QED
    BY <1>1, <1>2, <1>3
       DEF Next, ClientAsks, CreateCompany, UpdateCompany, DeleteCompany, ChangeAgreement,
           Configure, Refresh, CallerStep, AfterDelete, ReadSettings, SaveSettings,
           ReadCompanies, ReadItems, GetRow, PutDefinition, FindRow, ArchiveRow,
           Interrupted, data, vars

LEMMA StutterKeeps ==
    ASSUME Others, UNCHANGED vars
    PROVE  Others'
  BY DEF Others, TypeOK, RowsAreRendered, Active, ReplaysAreApplied, CallerIsSound, At, vars

LEMMA OthersKept ==
    ASSUME Others, EnabledHasChannel, [Next]_vars
    PROVE  Others'
  <1>1. ASSUME NEW p \in Clients, ClientAsks(p)
        PROVE  Others'
    BY <1>1, ClientKeeps DEF Callers
  <1>2. ASSUME NEW p \in Callers, CallerStep(p)
        PROVE  Others'
    BY <1>2, AfterDeleteKeeps, ReloadKeeps, SaveSettingsKeeps, ReadCompaniesKeeps,
       ReadItemsKeeps, GetRowKeeps, PutDefinitionKeeps, FindRowKeeps, ArchiveRowKeeps
       DEF CallerStep
  <1>3. ASSUME NEW p \in Callers, Interrupted(p)
        PROVE  Others'
    BY <1>3, InterruptedKeeps
  <1>4. QED
    BY <1>1, <1>2, <1>3, RefreshKeeps, RestartKeeps, StutterKeeps DEF Next

LEMMA InductiveStep ==
    ASSUME IInv, [Next]_vars
    PROVE  IInv'
  <1>1. Others /\ EnabledHasChannel
    BY DEF IInv, Others
  <1>2. Others' /\ EnabledHasChannel'
    BY <1>1, OthersKept, EnabledKept
  <1>3. QED
    BY <1>2 DEF IInv, Others

\* Whatever the callers read before one another's writes, and whatever is cut
\* short: every row is as Publish renders it, every answer from a record is true
\* of its row, and every caller publishes what is left in order.
THEOREM Invariance == Spec => []IInv
  BY InitiallySound, InductiveStep, PTL DEF Spec

\* The directory, the settings, the rows and the callers keep their types.
THEOREM TypeCorrect == Spec => []TypeOK
  <1>1. IInv => TypeOK
    BY DEF IInv
  <1>2. QED
    BY <1>1, Invariance, PTL

\* However the configuration changes while a caller publishes, no company's
\* message and no panel reaches the store without a channel or with another's
\* content, and the panel is never archived.
THEOREM RowsRendered == Spec => []RowsAreRendered
  <1>1. IInv => RowsAreRendered
    BY DEF IInv
  <1>2. QED
    BY <1>1, Invariance, PTL

\* A definition answered from the record of its key is the one its row has, or
\* the row has moved on: publishDefinition never takes a write for done that the
\* row does not have or has not outlived.
THEOREM ReplaysApplied == Spec => []ReplaysAreApplied
  <1>1. IInv => ReplaysAreApplied
    BY DEF IInv
  <1>2. QED
    BY <1>1, Invariance, PTL
=============================================================================
