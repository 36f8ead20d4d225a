------------------------ MODULE MessageCommandsProofs ------------------------
(***************************************************************************)
(* Proofs about MessageCommands, for any users, bodies, texts and bounds:  *)
(* what waits for a confirmation keeps within its limit and has one fate,  *)
(* and what is stored keeps what its author wrote, however often it is     *)
(* edited, sent back and given its button.                                 *)
(***************************************************************************)
EXTENDS PayloadsProofs, FiniteSetTheorems

-----------------------------------------------------------------------------
(* Confirmations.                                                          *)

Items == [id : Ids, user : Users, expired : BOOLEAN]

LEMMA StateFacts ==
    ASSUME PendingInv
    PROVE  /\ store \subseteq Items /\ IsFiniteSet(store)
           /\ asked \in 0..MaxAsked /\ MaxAsked \in Nat /\ PendingLimit \in Nat
           /\ fates \in [Ids -> Fates] /\ 1..asked \subseteq Ids
           /\ MaxRevision \in Nat /\ row.revision \in Nat
  BY MessageCommandsAssumption DEF PendingInv, TypeOK, PendingIsSound, Items, Ids

\* Fewer items are no more.
LEMMA FewerItems ==
    ASSUME PendingInv, NEW items, items \subseteq store
    PROVE  /\ IsFiniteSet(items) /\ Cardinality(items) \in Nat
           /\ Cardinality(items) <= PendingLimit
  <1>1. IsFiniteSet(store) /\ Cardinality(store) <= PendingLimit
    BY DEF PendingInv, PendingIsSound
  <1>2. /\ IsFiniteSet(items) /\ Cardinality(items) <= Cardinality(store)
        /\ Cardinality(items) \in Nat /\ Cardinality(store) \in Nat
    BY <1>1, FS_Subset, FS_CardinalityType
  <1>3. QED
    BY <1>1, <1>2, StateFacts

\* A step that leaves the confirmations alone.
LEMMA RowMoves ==
    ASSUME PendingInv, UNCHANGED pendings, writer' \in {NoUser, "user", "job"},
           row' = row \/ \E components :
               row' = [state |-> "live", revision |-> row.revision + 1,
                       components |-> components] /\ row.revision < MaxRevision
    PROVE  PendingInv'
  <1>1. UNCHANGED <<store, asked, tasks, fates, full>>
    BY DEF pendings
  <1>2. TypeOK'
    BY <1>1, StateFacts DEF PendingInv, TypeOK
  <1>3. QED
    BY <1>1, <1>2 DEF PendingInv, PendingIsSound, RefusedOnlyWhenFull

LEMMA WritingSteps ==
    ASSUME PendingInv,
           \/ \E body \in Bodies : CreateMessage(body) \/ EditMessage(body)
           \/ Export \/ ResubmitExport \/ PutButton
    PROVE  PendingInv'
  <1>1. ASSUME NEW body, Write(body)
        PROVE  PendingInv'
    BY <1>1, RowMoves DEF Write, Stored, PendingInv, TypeOK
  <1>2. CASE Export
    BY <1>2, RowMoves DEF Export, PendingInv, TypeOK
  <1>3. CASE PutButton
    BY <1>3, RowMoves DEF PutButton, Stored
  <1>4. QED
    BY <1>1, <1>2, <1>3 DEF CreateMessage, EditMessage, ResubmitExport

\* Items dropped, and fates of items among them.
LEMMA ItemsGo ==
    ASSUME PendingInv, store' \subseteq store, fates' \in [Ids -> Fates],
           UNCHANGED <<row, writer, asked, full>>,
           tasks' \subseteq 1..asked, \A id \in tasks' : fates'[id] = "confirmed",
           \A item \in store' : fates'[item.id] = fates[item.id],
           \A id \in Ids : fates[id] = "none" => fates'[id] = "none"
    PROVE  PendingInv'
  <1>1. TypeOK'
    BY DEF PendingInv, TypeOK
  <1>2. IsFiniteSet(store') /\ Cardinality(store') <= PendingLimit
    BY FewerItems
  <1>3. QED
    BY <1>1, <1>2 DEF PendingInv, PendingIsSound, RefusedOnlyWhenFull

LEMMA AskStep ==
    ASSUME PendingInv, NEW user \in Users, AskArchive(user)
    PROVE  PendingInv'
  <1> DEFINE kept == Kept(store)
             item == Item(asked + 1, user)
  <1>1. /\ kept \subseteq store /\ kept = Waiting
        /\ UNCHANGED <<row, exported, source, writer, tasks>> /\ asked < MaxAsked
    BY DEF AskArchive, Kept, Waiting
  <1>2. CASE /\ HasRoom(kept) /\ store' = kept \union {item} /\ asked' = asked + 1
             /\ fates' = [fates EXCEPT ![asked + 1] = "waiting"] /\ full' = full
    <2>1. /\ asked + 1 \in Ids /\ asked' \in 0..MaxAsked /\ 1..asked \subseteq 1..asked'
          /\ asked + 1 \in 1..asked' /\ asked + 1 \notin 1..asked
      BY <1>1, <1>2, StateFacts DEF Ids
    <2>2. item.id = asked + 1 /\ ~item.expired /\ item \in [id : 1..asked', user : Users, expired : BOOLEAN]
      BY <2>1 DEF Item
    <2> HIDE DEF item
    <2>3. store \subseteq [id : 1..asked, user : Users, expired : BOOLEAN]
      BY DEF PendingInv, TypeOK
    <2> HIDE DEF kept
    <2>4. TypeOK'
      <3>1. store' \subseteq [id : 1..asked', user : Users, expired : BOOLEAN]
        BY <1>1, <1>2, <2>1, <2>2, <2>3
      <3>2. fates' \in [Ids -> Fates] /\ tasks' \subseteq 1..asked'
        BY <1>1, <1>2, <2>1, StateFacts DEF PendingInv, TypeOK, Fates
      <3>3. QED
        BY <1>1, <1>2, <2>1, <3>1, <3>2 DEF PendingInv, TypeOK
    <2>5. IsFiniteSet(store') /\ Cardinality(store') <= PendingLimit
      <3>1. IsFiniteSet(kept) /\ Cardinality(kept) \in Nat /\ PendingLimit \in Nat
        BY <1>1, FewerItems, StateFacts
      <3>2. item \notin kept
        BY <1>1, <2>1, <2>2, <2>3
      <3>3. IsFiniteSet(store') /\ Cardinality(store') = Cardinality(kept) + 1
        BY <1>2, <3>1, <3>2, FS_AddElement
      <3>4. QED
        BY <1>2, <3>1, <3>3 DEF HasRoom
    <2>6. \A i \in kept : i.id # asked + 1 /\ i.id \in Ids
      BY <1>1, <2>1, <2>3, StateFacts
    <2>7. /\ \A i, j \in store' : i.id = j.id => i = j
          /\ \A i \in store' : fates'[i.id] = IF i.expired THEN "expired" ELSE "waiting"
      BY <1>1, <1>2, <2>1, <2>2, <2>6, StateFacts DEF PendingInv, PendingIsSound
    <2>8. /\ \A id \in Ids : id > asked' => fates'[id] = "none"
          /\ \A id \in tasks' : fates'[id] = "confirmed"
      BY <1>1, <1>2, <2>1, StateFacts DEF PendingInv, TypeOK, PendingIsSound, Ids
    <2>9. QED
      BY <1>2, <2>4, <2>5, <2>7, <2>8 DEF PendingInv, PendingIsSound, RefusedOnlyWhenFull
  <1>3. CASE /\ ~HasRoom(kept) /\ store' = kept /\ full' = Cardinality(Waiting)
             /\ UNCHANGED <<asked, fates>>
    <2>1. /\ full' \in Nat /\ full' >= PendingLimit
          /\ IsFiniteSet(store') /\ Cardinality(store') <= PendingLimit
      BY <1>1, <1>3, FewerItems, StateFacts DEF HasRoom
    <2>2. TypeOK'
      BY <1>1, <1>3, <2>1 DEF PendingInv, TypeOK
    <2>3. QED
      BY <1>1, <1>3, <2>1, <2>2 DEF PendingInv, PendingIsSound, RefusedOnlyWhenFull
  <1>4. QED
    BY <1>2, <1>3 DEF AskArchive

LEMMA ExpireStep ==
    ASSUME PendingInv, NEW item \in store, ItemExpires(item)
    PROVE  PendingInv'
  <1> DEFINE new == [item EXCEPT !.expired = TRUE]
  <1>1. /\ ~item.expired /\ store' = (store \ {item}) \union {new}
        /\ fates' = [fates EXCEPT ![item.id] = "expired"]
        /\ UNCHANGED <<row, writer, asked, tasks, full>>
    BY DEF ItemExpires
  <1>2. item \in [id : 1..asked, user : Users, expired : BOOLEAN] /\ item.id \in Ids
    BY StateFacts DEF PendingInv, TypeOK
  <1>3. /\ new \in [id : 1..asked, user : Users, expired : BOOLEAN]
        /\ new.id = item.id /\ new.expired
    BY <1>2
  <1> HIDE DEF new
  <1>4. TypeOK'
    <2>1. store' \subseteq [id : 1..asked, user : Users, expired : BOOLEAN]
      BY <1>1, <1>3 DEF PendingInv, TypeOK
    <2>2. fates' \in [Ids -> Fates]
      BY <1>1, <1>2, StateFacts DEF Fates
    <2>3. QED
      BY <1>1, <2>1, <2>2 DEF PendingInv, TypeOK
  <1>5. IsFiniteSet(store') /\ Cardinality(store') <= PendingLimit
    <2>1. IsFiniteSet(store) /\ Cardinality(store) <= PendingLimit /\ PendingLimit \in Nat
      BY StateFacts DEF PendingInv, PendingIsSound
    <2>2. /\ IsFiniteSet(store \ {item}) /\ Cardinality(store \ {item}) = Cardinality(store) - 1
          /\ Cardinality(store) \in Nat
      BY <2>1, FS_RemoveElement, FS_CardinalityType
    <2>3. new \notin store \ {item}
      BY <1>2, <1>3, StateFacts DEF PendingInv, PendingIsSound
    <2>4. IsFiniteSet(store') /\ Cardinality(store') = Cardinality(store \ {item}) + 1
      BY <1>1, <2>2, <2>3, FS_AddElement
    <2>5. QED
      BY <2>1, <2>2, <2>4
  <1>6. fates[item.id] = "waiting"
    BY <1>1 DEF PendingInv, PendingIsSound
  <1>7. /\ \A i, j \in store' : i.id = j.id => i = j
        /\ \A i \in store' : fates'[i.id] = IF i.expired THEN "expired" ELSE "waiting"
    BY <1>1, <1>2, <1>3, StateFacts DEF PendingInv, PendingIsSound
  <1>8. /\ \A id \in Ids : id > asked' => fates'[id] = "none"
        /\ \A id \in tasks' : fates'[id] = "confirmed"
    BY <1>1, <1>2, <1>6, StateFacts DEF PendingInv, TypeOK, PendingIsSound
  <1>9. QED
    BY <1>1, <1>4, <1>5, <1>7, <1>8 DEF PendingInv, PendingIsSound, RefusedOnlyWhenFull

LEMMA ConfirmStep ==
    ASSUME PendingInv, NEW user \in Users, NEW item \in store, Confirm(user, item)
    PROVE  PendingInv'
  <1>1. /\ ~item.expired /\ store' = store \ {item} /\ tasks' = tasks \union {item.id}
        /\ fates' = [fates EXCEPT ![item.id] = "confirmed"]
        /\ UNCHANGED <<row, writer, asked, full>>
    BY DEF Confirm, Without
  <1>2. item.id \in 1..asked /\ item.id \in Ids /\ fates[item.id] = "waiting"
    BY <1>1, StateFacts DEF PendingInv, TypeOK, PendingIsSound
  <1>3. fates' \in [Ids -> Fates] /\ fates'[item.id] = "confirmed"
    BY <1>1, <1>2, StateFacts DEF Fates
  <1>4. \A other \in store' : other.id # item.id /\ other.id \in Ids
    BY <1>1, StateFacts DEF PendingInv, PendingIsSound, Items
  <1>5. \A other \in store' : fates'[other.id] = fates[other.id]
    BY <1>1, <1>2, <1>4, StateFacts
  <1>6. tasks' \subseteq 1..asked /\ \A id \in tasks' : fates'[id] = "confirmed"
    BY <1>1, <1>2, <1>3, StateFacts DEF PendingInv, TypeOK, PendingIsSound
  <1>7. \A id \in Ids : fates[id] = "none" => fates'[id] = "none"
    BY <1>1, <1>2, StateFacts
  <1>8. QED
    BY <1>1, <1>3, <1>5, <1>6, <1>7, ItemsGo

LEMMA CancelStep ==
    ASSUME PendingInv, NEW user \in Users, NEW item \in store, Cancel(user, item)
    PROVE  PendingInv'
  <1> DEFINE fate == IF fates[item.id] = "waiting" THEN "cancelled" ELSE fates[item.id]
  <1>1. /\ store' = store \ {item} /\ fates' = [fates EXCEPT ![item.id] = fate]
        /\ UNCHANGED <<row, writer, asked, full, tasks>>
    BY DEF Cancel
  <1>2. item.id \in Ids /\ fates[item.id] \in {"waiting", "expired"}
    BY StateFacts DEF PendingIsSound, PendingInv, Items
  <1>3. fate \in {"cancelled", "expired"}
    BY <1>2
  <1> HIDE DEF fate
  <1>4. fates' \in [Ids -> Fates]
    BY <1>1, <1>2, <1>3, StateFacts DEF Fates
  <1>5. \A other \in store' : other.id # item.id /\ other.id \in Ids
    BY <1>1, StateFacts DEF PendingInv, PendingIsSound, Items
  <1>6. \A other \in store' : fates'[other.id] = fates[other.id]
    BY <1>1, <1>2, <1>5, StateFacts
  <1>7. \A id \in Ids : fates[id] \in {"none", "confirmed"} => fates'[id] = fates[id]
    BY <1>1, <1>2, StateFacts
  <1>8. /\ tasks' \subseteq 1..asked /\ 1..asked \subseteq Ids
        /\ \A id \in tasks' : fates[id] = "confirmed"
    BY <1>1, StateFacts DEF PendingInv, TypeOK, PendingIsSound
  <1>9. QED
    BY <1>1, <1>4, <1>6, <1>7, <1>8, ItemsGo

LEMMA PressExpiredStep ==
    ASSUME PendingInv, NEW item \in store, PressExpired(item)
    PROVE  PendingInv'
  <1>1. store' \subseteq store /\ UNCHANGED <<row, writer, asked, tasks, fates, full>>
    BY DEF PressExpired
  <1>2. /\ fates' \in [Ids -> Fates] /\ tasks' \subseteq 1..asked
        /\ \A id \in tasks' : fates'[id] = "confirmed"
    BY <1>1, StateFacts DEF PendingInv, TypeOK, PendingIsSound
  <1>3. QED
    BY <1>1, <1>2, ItemsGo

LEMMA RestartStep ==
    ASSUME PendingInv, Restart
    PROVE  PendingInv'
  <1>1. /\ store' = {} /\ tasks' = {} /\ UNCHANGED <<row, writer, asked, full>>
        /\ fates' = [id \in Ids |-> IF fates[id] = "waiting" THEN "lost" ELSE fates[id]]
    BY DEF Restart
  <1>2. /\ fates' \in [Ids -> Fates]
        /\ \A id \in Ids : fates[id] = "none" => fates'[id] = "none"
    BY <1>1, StateFacts DEF Fates
  <1>3. QED
    BY <1>1, <1>2, ItemsGo

LEMMA ExecuteStep ==
    ASSUME PendingInv, NEW id \in Ids, ExecuteArchive(id)
    PROVE  PendingInv'
  <1>1. /\ tasks' = tasks \ {id} /\ UNCHANGED <<store, asked, fates, full>>
        /\ \/ row' = row /\ writer' = writer
           \/ /\ row.revision < MaxRevision /\ writer' = "user"
              /\ row' = [row EXCEPT !.state = "archived", !.revision = @ + 1]
    BY DEF ExecuteArchive
  <1>2. CASE row' = row /\ writer' = writer
    <2>1. TypeOK'
      BY <1>1, <1>2 DEF PendingInv, TypeOK
    <2>2. QED
      BY <1>1, <2>1 DEF PendingInv, PendingIsSound, RefusedOnlyWhenFull
  <1>3. CASE /\ row.revision < MaxRevision /\ writer' = "user"
             /\ row' = [row EXCEPT !.state = "archived", !.revision = @ + 1]
    <2>1. row = [state |-> row.state, revision |-> row.revision, components |-> row.components]
      BY DEF PendingInv, TypeOK
    <2>2. row' = [state |-> "archived", revision |-> row.revision + 1,
                  components |-> row.components]
      BY <1>3, <2>1
    <2>3. row.revision \in 0..MaxRevision /\ MaxRevision \in Nat
      BY StateFacts DEF PendingInv, TypeOK
    <2>4. /\ row'.state = "archived" /\ row'.revision \in 0..MaxRevision
          /\ row' = [state |-> row'.state, revision |-> row'.revision,
                     components |-> row'.components]
      <3>1. /\ row'.state = "archived" /\ row'.revision = row.revision + 1
            /\ row'.components = row.components
        BY <2>2
      <3>2. row.revision + 1 \in 0..MaxRevision
        BY <1>3, <2>3
      <3>3. QED
        BY <2>2, <3>1, <3>2
    <2>5. TypeOK'
      BY <1>1, <1>3, <2>4 DEF PendingInv, TypeOK
    <2>6. QED
      BY <1>1, <2>5 DEF PendingInv, PendingIsSound, RefusedOnlyWhenFull
  <1>4. QED
    BY <1>1, <1>2, <1>3

LEMMA PendingAtFirst == Init => PendingInv
  <1> SUFFICES ASSUME Init PROVE PendingInv
    OBVIOUS
  <1>1. TypeOK
    BY MessageCommandsAssumption DEF Init, AbsentMessage, TypeOK, Ids, Fates
  <1>2. IsFiniteSet({}) /\ Cardinality({}) = 0
    BY FS_EmptySet
  <1>3. QED
    BY <1>1, <1>2, MessageCommandsAssumption
       DEF Init, PendingInv, PendingIsSound, RefusedOnlyWhenFull, Ids

\* One case per action.
LEMMA StepKeepsPending ==
    ASSUME PendingInv, [Next]_vars
    PROVE  PendingInv'
  <1>1. CASE UNCHANGED vars
    <2>1. UNCHANGED pendings /\ row' = row /\ writer' = writer
      BY <1>1 DEF vars, pendings
    <2>2. QED
      BY <2>1, RowMoves DEF PendingInv, TypeOK
  <1>2. CASE \/ \E body \in Bodies : CreateMessage(body) \/ EditMessage(body)
             \/ Export \/ ResubmitExport \/ PutButton
    BY <1>2, WritingSteps
  <1>3. CASE \E user \in Users :
                \/ AskArchive(user)
                \/ \E item \in store : Confirm(user, item) \/ Cancel(user, item)
    BY <1>3, AskStep, ConfirmStep, CancelStep
  <1>4. CASE \E item \in store : ItemExpires(item) \/ PressExpired(item)
    BY <1>4, ExpireStep, PressExpiredStep
  <1>5. CASE \E id \in Ids : ExecuteArchive(id)
    BY <1>5, ExecuteStep
  <1>6. CASE Restart
    BY <1>6, RestartStep
  <1>7. QED
    BY <1>1, <1>2, <1>3, <1>4, <1>5, <1>6 DEF Next

-----------------------------------------------------------------------------
(* Bodies.                                                                 *)

\* Normal form keeps the addresses of pictures, and buttons with all that tells them.
LEMMA NormalShows ==
    ASSUME NEW components \in Seq(Components)
    PROVE  /\ Urls(Normal(components)) = Urls(components)
           /\ Controls(Normal(components)) = Controls(components)
  <1>1. PICK F : F = NormalPaint /\ IsPaint(F) /\ IsOwn(F)
    BY NormalIsPaint
  <1>2. PICK n \in Seq(Components) : n = Normal(components) /\ n = Painted(F, components)
    BY <1>1, NormalIs
  <1>3. PICK p \in Seq(Components) : p = AllParts(components)
    BY AllPartsAre
  <1>4. AllParts(n) = Mapped(PaintWhole(F), p)
    <2>1. AllParts(Painted(F, components)) = Painted(F, AllParts(components))
      BY <1>1, PaintedAllParts
    <2>2. QED
      BY <1>2, <1>3, <2>1 DEF Painted
  <1>5. ASSUME NEW c \in Components
        PROVE  /\ ReadUrls[c] = ReadUrls[PaintWhole(F)[c]]
               /\ ReadControls[c] = ReadControls[PaintWhole(F)[c]]
    <2>1. PICK y \in Components :
              y = PaintWhole(F)[c] /\ y.type = c.type /\ y.url = c.url /\ y.id = c.id
      BY <1>1, PaintWholeIs
    <2>2. y.disabled = c.disabled
      BY <1>1, <2>1, OwnWhole, NormalFields
    <2>3. Mark[y] = Mark[c]
      BY <2>1, <2>2 DEF Mark
    <2>4. ReadUrls[y] = ReadUrls[c] /\ ReadControls[y] = ReadControls[c]
      BY <2>1, <2>3 DEF ReadUrls, ReadControls
    <2>5. QED
      BY <2>1, <2>4
  <1>6. /\ Follows(ReadUrls, ReadUrls, PaintWhole(F), Components)
        /\ Follows(ReadControls, ReadControls, PaintWhole(F), Components)
    BY <1>5 DEF Follows
  <1>7. IsMap(PaintWhole(F), Components, Components)
    BY <1>1, PaintWholeMap
  <1>8. /\ Gathered(ReadUrls, Mapped(PaintWhole(F), p)) = Gathered(ReadUrls, p)
        /\ Gathered(ReadControls, Mapped(PaintWhole(F), p)) = Gathered(ReadControls, p)
    BY <1>6, <1>7, GatheredOfMapped
  <1>9. /\ Read(ReadUrls, n) = Read(ReadUrls, components)
        /\ Read(ReadControls, n) = Read(ReadControls, components)
    BY <1>3, <1>4, <1>8 DEF Read
  <1>10. QED
    BY <1>2, <1>9, ReadersAre

-----------------------------------------------------------------------------
(* What is stored.                                                         *)

\* What a user's body leaves behind.
LEMMA AfterWriting ==
    ASSUME NEW body \in ComponentBodies \union ClassicBodies, Accepted(body)
    PROVE  LET stored == Normal(Parsed(body)) IN
           /\ stored \in Seq(Components) /\ Normal(stored) = stored /\ Valid(stored)
           /\ NonBlank(TextOf(stored)) = Written(body)
           /\ Controls(stored) = Controls(body.components)
           /\ Urls(stored) = WrittenUrls(body)
  <1>1. PICK p \in Seq(Components) : p = Parsed(body)
    BY ParsedType
  <1>2. Valid(Normal(p))
    BY <1>1 DEF Accepted
  <1>3. /\ Normal(p) \in Seq(Components) /\ TextOf(Normal(p)) = TextOf(p)
        /\ Normal(Normal(p)) = Normal(p)
    BY NormalIs, NormalTwice
  <1>4. Urls(Normal(p)) = Urls(p) /\ Controls(Normal(p)) = Controls(p)
    BY NormalShows
  <1>5. /\ NonBlank(TextOf(p)) = Written(body)
        /\ Urls(p) = WrittenUrls(body) /\ Controls(p) = Controls(body.components)
    BY <1>1, WrittenIsRead, WrittenIsShown
  <1>6. QED
    BY <1>1, <1>2, <1>3, <1>4, <1>5

\* What the job's write leaves behind.
LEMMA AfterButton ==
    ASSUME NEW components \in Seq(Components), Normal(components) = components,
           Valid(components), Valid(Normal(WithVerificationButton(components)))
    PROVE  LET stored == Normal(WithVerificationButton(components)) IN
           /\ stored \in Seq(Components) /\ Normal(stored) = stored /\ Valid(stored)
           /\ WithVerificationButton(stored) = stored
           /\ NonBlank(TextOf(stored)) = NonBlank(TextOf(components))
           /\ Controls(stored) = Controls(components)
           /\ Urls(stored) = Urls(components)
  <1>1. PICK w \in Seq(Components) : w = WithVerificationButton(components)
    BY WithVerificationButtonIs
  <1>2. Normal(w) = w /\ Valid(Normal(w))
    BY <1>1, NormalOfButton
  <1>3. WithVerificationButton(w) = w
    BY <1>1, ButtonTwice
  <1>4. components \in Seq(ValidComponents)
    BY ValidIs
  <1>5. QED
    BY <1>1, <1>2, <1>3, <1>4, ButtonSpares

LEMMA BodiesAtFirst == Init => BodiesAreSound /\ ContentSurvives
  <1> SUFFICES ASSUME Init
               PROVE  BodiesAreSound /\ ContentSurvives
    OBVIOUS
  <1>1. row.state = "absent" /\ row.components = <<>> /\ exported = <<>> /\ writer # "job"
    BY MessageCommandsAssumption DEF Init, AbsentMessage
  <1>2. <<>> \in Seq(Components)
    OBVIOUS
  <1>3. source \in ComponentBodies
    BY <1>2 DEF Init, Body, ComponentBodies
  <1>4. Normal(<<>>) = <<>>
    BY <1>2, NormalIs, MappedEmpty DEF Painted
  <1>5. QED
    BY <1>1, <1>2, <1>3, <1>4 DEF BodiesAreSound, ContentSurvives

LEMMA WriteKeepsBodies ==
    ASSUME BodiesAreSound, ContentSurvives,
           NEW body \in ComponentBodies \union ClassicBodies, Write(body)
    PROVE  BodiesAreSound' /\ ContentSurvives'
  <1>1. /\ Accepted(body) /\ row' = Stored(Parsed(body)) /\ source' = body
        /\ exported' = exported /\ writer' = IF row' = row THEN writer ELSE "user"
    BY DEF Write
  <1>2. PICK n \in Seq(Components) :
            /\ n = Normal(Parsed(body)) /\ Normal(n) = n /\ Valid(n)
            /\ NonBlank(TextOf(n)) = Written(body)
            /\ Controls(n) = Controls(body.components)
            /\ Urls(n) = WrittenUrls(body)
    BY <1>1, AfterWriting
  <1>3. CASE row' = row /\ row.state # "absent" /\ row.components = n
    BY <1>1, <1>2, <1>3 DEF BodiesAreSound, ContentSurvives
  <1>4. CASE row'.state = "live" /\ row'.components = n /\ row' # row
    <2>1. writer' = "user"
      BY <1>1, <1>4
    <2>2. QED
      BY <1>1, <1>2, <1>4, <2>1 DEF BodiesAreSound, ContentSurvives
  <1>5. CASE row' = row /\ row' = [state |-> "live", revision |-> row.revision + 1, components |-> n]
    <2>1. row'.state = "live" /\ row'.components = n
      BY <1>5
    <2>2. QED
      BY <1>3, <1>5, <2>1
  <1>6. QED
    BY <1>1, <1>2, <1>3, <1>4, <1>5 DEF Stored

LEMMA ButtonKeepsBodies ==
    ASSUME BodiesAreSound, ContentSurvives, PutButton
    PROVE  /\ BodiesAreSound' /\ ContentSurvives'
           /\ writer # "job"
  <1>1. PICK w : w = WithVerificationButton(row.components)
    OBVIOUS
  <1>2. /\ row.state = "live" /\ Normal(w) # row.components /\ Valid(Normal(w))
        /\ row' = Stored(w) /\ writer' = "job" /\ UNCHANGED <<exported, source>>
    BY <1>1 DEF PutButton, Live
  <1>3. row' = [state |-> "live", revision |-> row.revision + 1, components |-> Normal(w)]
    BY <1>2 DEF Stored
  <1>4. PICK r \in Seq(Components) :
            r = row.components /\ Normal(r) = r /\ Valid(r) /\ w = WithVerificationButton(r)
    BY <1>1, <1>2 DEF BodiesAreSound
  <1>5. PICK n \in Seq(Components) :
            /\ n = Normal(w) /\ Normal(n) = n /\ Valid(n)
            /\ WithVerificationButton(n) = n
            /\ NonBlank(TextOf(n)) = NonBlank(TextOf(r))
            /\ Controls(n) = Controls(r) /\ Urls(n) = Urls(r)
    BY <1>2, <1>4, AfterButton
  <1>6. row'.state = "live" /\ row'.components = n
    BY <1>3, <1>5
  <1>7. BodiesAreSound'
    BY <1>2, <1>5, <1>6 DEF BodiesAreSound
  <1>8. ContentSurvives'
    BY <1>2, <1>4, <1>5, <1>6 DEF ContentSurvives
  <1>9. writer # "job"
    BY <1>1, <1>2, <1>4 DEF BodiesAreSound
  <1>10. QED
    BY <1>7, <1>8, <1>9

\* Where components, body and author stay, but for an archive.
LEMMA BodiesStay ==
    ASSUME BodiesAreSound, ContentSurvives, UNCHANGED source,
           exported' = exported \/ exported' = row.components,
           \/ row' = row /\ writer' = writer
           \/ /\ row.state = "live" /\ row'.components = row.components /\ writer' = "user"
    PROVE  BodiesAreSound' /\ ContentSurvives'
  <1>1. row'.components = row.components /\ (row'.state # "absent" => row.state # "absent")
    OBVIOUS
  <1>2. writer' = "job" => writer = "job"
    OBVIOUS
  <1>3. QED
    BY <1>1, <1>2 DEF BodiesAreSound, ContentSurvives

LEMMA ArchiveKeepsComponents ==
    ASSUME NEW id \in Ids, ExecuteArchive(id), TypeOK
    PROVE  /\ UNCHANGED <<source, exported>>
           /\ \/ row' = row /\ writer' = writer
              \/ row.state = "live" /\ row'.components = row.components /\ writer' = "user"
  <1>1. row = [state |-> row.state, revision |-> row.revision, components |-> row.components]
    BY DEF TypeOK
  <1>2. CASE row' = row /\ writer' = writer
    BY <1>2 DEF ExecuteArchive
  <1>3. CASE /\ Live /\ writer' = "user"
             /\ row' = [row EXCEPT !.state = "archived", !.revision = @ + 1]
    <2>1. row' = [state |-> "archived", revision |-> row.revision + 1,
                  components |-> row.components]
      BY <1>1, <1>3
    <2>2. row'.components = row.components
      BY <2>1
    <2>3. QED
      BY <1>3, <2>2 DEF ExecuteArchive, Live
  <1>4. QED
    BY <1>2, <1>3 DEF ExecuteArchive

\* One case per action that writes the row; the others leave it alone.
LEMMA StepKeepsBodies ==
    ASSUME BodiesAreSound, ContentSurvives, TypeOK, [Next]_vars
    PROVE  BodiesAreSound' /\ ContentSurvives'
  <1>1. ASSUME NEW body \in Bodies, CreateMessage(body) \/ EditMessage(body)
        PROVE  BodiesAreSound' /\ ContentSurvives'
    <2>1. body \in ComponentBodies \union ClassicBodies /\ Write(body)
      BY <1>1, MessageCommandsAssumption DEF CreateMessage, EditMessage
    <2>2. QED
      BY <2>1, WriteKeepsBodies
  <1>2. CASE ResubmitExport
    <2>1. Body(exported) \in ComponentBodies
      BY DEF BodiesAreSound, Body, ComponentBodies
    <2>2. Write(Body(exported))
      BY <1>2 DEF ResubmitExport, EditMessage
    <2>3. QED
      BY <2>1, <2>2, WriteKeepsBodies
  <1>3. CASE Export
    <2>1. UNCHANGED <<row, source, writer>> /\ exported' = row.components
      BY <1>3 DEF Export
    <2>2. QED
      BY <2>1, BodiesStay
  <1>4. CASE PutButton
    BY <1>4, ButtonKeepsBodies
  <1>5. CASE \E id \in Ids : ExecuteArchive(id)
    BY <1>5, ArchiveKeepsComponents, BodiesStay
  <1>6. ASSUME UNCHANGED <<row, exported, source, writer>>
        PROVE  BodiesAreSound' /\ ContentSurvives'
    BY <1>6, BodiesStay
  <1>7. ASSUME NEW user \in Users, AskArchive(user)
        PROVE  UNCHANGED <<row, exported, source, writer>>
    BY <1>7 DEF AskArchive
  <1>8. ASSUME NEW item, \/ \E user \in Users : Confirm(user, item) \/ Cancel(user, item)
                         \/ ItemExpires(item) \/ PressExpired(item)
        PROVE  UNCHANGED <<row, exported, source, writer>>
    BY <1>8 DEF Confirm, Cancel, ItemExpires, PressExpired
  <1>9. ASSUME Restart \/ UNCHANGED vars
        PROVE  UNCHANGED <<row, exported, source, writer>>
    BY <1>9 DEF Restart, vars
  <1>10. QED
    BY <1>1, <1>2, <1>3, <1>4, <1>5, <1>6, <1>7, <1>8, <1>9 DEF Next

-----------------------------------------------------------------------------
(* The theorems' state forms.                                              *)

LEMMA RoomIsEnoughThen ==
    ASSUME BodiesAreSound
    PROVE  RoomIsEnough
  <1>1. PICK r \in Seq(Components) : r = row.components
    BY DEF BodiesAreSound
  <1>2. Normal(r) = r /\ (Live => Valid(r))
    BY <1>1 DEF BodiesAreSound, Live
  <1>3. Normal(WithVerificationButton(r)) = WithVerificationButton(r)
    BY <1>2, NormalOfButton
  <1>4. QED
    BY <1>1, <1>2, <1>3, ValidWithButton DEF RoomIsEnough

LEMMA ButtonIsUniqueThen ==
    ASSUME BodiesAreSound
    PROVE  ButtonIsUnique
  <1>1. PICK r \in Seq(Components) : r = row.components
    BY DEF BodiesAreSound
  <1>2. SUFFICES ASSUME writer = "job"
                 PROVE  Len(VerifyButtons(r)) = 1 /\ Last(r) = VerifyRow
    BY <1>1, <1>2 DEF ButtonIsUnique, VerifyRow
  <1>3. WithVerificationButton(r) = r
    BY <1>1, <1>2 DEF BodiesAreSound
  <1>4. QED
    BY <1>3, OneButton

LEMMA EchoIsRecognisedThen ==
    ASSUME BodiesAreSound
    PROVE  EchoIsRecognised
  <1>1. PICK r \in Seq(Components) : r = row.components
    BY DEF BodiesAreSound
  <1>2. Live => r \in Seq(ValidComponents)
    BY <1>1, ValidIs DEF BodiesAreSound, Live
  <1>3. QED
    BY <1>1, <1>2, EchoIsNormal DEF EchoIsRecognised

LEMMA PreviewIsInertThen ==
    ASSUME BodiesAreSound
    PROVE  PreviewIsInert
  <1>1. PICK p \in Seq(Components) : p = Parsed(source)
    BY ParsedType DEF BodiesAreSound
  <1>2. QED
    BY <1>1, PreviewOfBody DEF PreviewIsInert

LEMMA SettlesThen ==
    ASSUME BodiesAreSound, ContentSurvives, TypeOK, [Next]_vars, writer = "job", writer' = "job"
    PROVE  row' = row
  <1>1. ~PutButton
    BY ButtonKeepsBodies
  <1>2. ASSUME NEW body, Write(body)
        PROVE  row' = row
    BY <1>2 DEF Write
  <1>3. CASE \E id \in Ids : ExecuteArchive(id)
    BY <1>3 DEF ExecuteArchive
  <1>4. ASSUME \/ Export \/ Restart \/ UNCHANGED vars
               \/ \E user \in Users :
                    \/ AskArchive(user)
                    \/ \E item \in store : Confirm(user, item) \/ Cancel(user, item)
               \/ \E item \in store : ItemExpires(item) \/ PressExpired(item)
        PROVE  row' = row
    BY <1>4 DEF Export, Restart, vars, AskArchive, Confirm, Cancel, ItemExpires, PressExpired
  <1>5. QED
    BY <1>1, <1>2, <1>3, <1>4 DEF Next, CreateMessage, EditMessage, ResubmitExport

-----------------------------------------------------------------------------
(* The theorems.                                                           *)

\* The inductive invariant holds in every reachable state: never more waits in the
\* store than PendingLimit, each under an id of its own (messagesdiscord/pending.go);
\* and what is stored is valid, in normal form and what its author wrote.
THEOREM Invariance == Spec => []IInv
  <1>1. Init => IInv
    BY PendingAtFirst, BodiesAtFirst DEF IInv
  <1>2. IInv /\ [Next]_vars => IInv'
    BY StepKeepsPending, StepKeepsBodies DEF IInv, PendingInv
  <1>3. QED
    BY <1>1, <1>2, PTL DEF Spec

\* Conversion, normal form, stale exports and passes of the security job lose, repeat
\* and reorder no paragraph, button or picture of a body as it was sent, those of its
\* embeds included (classic.go Convert, model.go Normalize, verification.go
\* withVerificationButton).
THEOREM ContentKept == Spec => []ContentSurvives
  <1>1. IInv => ContentSurvives
    BY DEF IInv
  <1>2. QED
    BY <1>1, Invariance, PTL

\* What the job last wrote holds the verification button once, in a row at the end,
\* whatever body it found (withVerificationButton and cleanComponent, verification.go).
THEOREM ButtonUnique == Spec => []ButtonIsUnique
  <1>1. IInv => ButtonIsUnique
    BY ButtonIsUniqueThen DEF IInv
  <1>2. QED
    BY <1>1, Invariance, PTL

\* Whoever leaves room for two components gets the button: cleaning makes no valid
\* body invalid, but for a section whose texts do not fit in one (verification.go).
THEOREM RoomEnough == Spec => []RoomIsEnough
  <1>1. IInv => RoomIsEnough
    BY RoomIsEnoughThen DEF IInv
  <1>2. QED
    BY <1>1, Invariance, PTL

\* What is read back of a stored body, after Discord and its library have added
\* numbers, flags, metadata and defaults and dropped some of them again, has the normal
\* form that is stored, for every valid body whose separators are written out
\* (normalizeComponentValue, model.go; observe, platform/discord/messages.go).
THEOREM EchoRecognised == Spec => []EchoIsRecognised
  <1>1. IInv => EchoIsRecognised
    BY EchoIsRecognisedThen DEF IInv
  <1>2. QED
    BY <1>1, Invariance, PTL

\* No button of a preview can be pressed, wherever it stands in the body, and the text
\* is what would be stored (previewComponents and disableButtons, payload.go).
THEOREM PreviewInert == Spec => []PreviewIsInert
  <1>1. IInv => PreviewIsInert
    BY PreviewIsInertThen DEF IInv
  <1>2. QED
    BY <1>1, Invariance, PTL

\* The job writes nothing after its own write: its button on what has the button is
\* the same body, and so is its normal form (refreshVerification, verification.go).
THEOREM JobSettles == Spec => RefreshSettles
  <1>1. IInv /\ [Next]_vars => (writer = "job" /\ writer' = "job" => row' = row)
    BY SettlesThen DEF IInv, PendingInv
  <1>2. QED
    BY <1>1, Invariance, PTL DEF Spec, RefreshSettles

\* An archive is refused only while the store holds its limit of confirmations that
\* have not expired (put, pending.go).
THEOREM RefusedRightly == Spec => []RefusedOnlyWhenFull
  <1>1. IInv => RefusedOnlyWhenFull
    BY DEF IInv, PendingInv
  <1>2. QED
    BY <1>1, Invariance, PTL

\* What became of a confirmation stays so: it is taken once, and never after it
\* expired, was cancelled or was lost (take and cancel, pending.go).
THEOREM FateFinal == Spec => FateIsFinal
  <1> DEFINE FatesStay == \A id \in Ids :
        fates[id] \in {"expired", "confirmed", "cancelled", "lost"} => fates'[id] = fates[id]
  <1>1. ASSUME PendingInv, NEW item \in store, NEW fate,
               fates' = [fates EXCEPT ![item.id] = fate],
               fates[item.id] = "waiting" \/ fate = fates[item.id]
        PROVE  FatesStay
    BY <1>1, StateFacts
  <1>2. ASSUME PendingInv, [Next]_vars
        PROVE  FatesStay
    <2>1. CASE fates' = fates
      BY <2>1
    <2>2. ASSUME NEW user \in Users, AskArchive(user)
          PROVE  FatesStay
      <3>1. fates' = fates \/ fates' = [fates EXCEPT ![asked + 1] = "waiting"]
        BY <2>2 DEF AskArchive
      <3>2. asked < MaxAsked
        BY <2>2 DEF AskArchive
      <3>3. asked + 1 \in Ids /\ fates[asked + 1] = "none"
        BY <1>2, <3>2, StateFacts DEF PendingInv, PendingIsSound, Ids
      <3>4. QED
        BY <1>2, <3>1, <3>3, StateFacts
    <2>3. ASSUME NEW user \in Users, NEW item \in store, Confirm(user, item)
          PROVE  FatesStay
      <3>1. /\ fates' = [fates EXCEPT ![item.id] = "confirmed"]
            /\ fates[item.id] = "waiting"
        BY <1>2, <2>3 DEF Confirm, PendingInv, PendingIsSound
      <3>2. QED
        BY <1>1, <1>2, <3>1
    <2>4. ASSUME NEW user \in Users, NEW item \in store, Cancel(user, item)
          PROVE  FatesStay
      BY <1>2, <2>4, StateFacts DEF Cancel
    <2>5. ASSUME NEW item \in store, ItemExpires(item)
          PROVE  FatesStay
      <3>1. /\ fates' = [fates EXCEPT ![item.id] = "expired"]
            /\ fates[item.id] = "waiting"
        BY <1>2, <2>5 DEF ItemExpires, PendingInv, PendingIsSound
      <3>2. QED
        BY <1>1, <1>2, <3>1
    <2>6. CASE Restart
      BY <2>6 DEF Restart
    <2>7. ASSUME \/ \E body \in Bodies : CreateMessage(body) \/ EditMessage(body)
                 \/ Export \/ ResubmitExport \/ PutButton
                 \/ \E item \in store : PressExpired(item)
                 \/ \E id \in Ids : ExecuteArchive(id)
                 \/ UNCHANGED vars
          PROVE  fates' = fates
      BY <2>7 DEF CreateMessage, EditMessage, Write, Export, ResubmitExport, PutButton,
                  PressExpired, ExecuteArchive, pendings, vars
    <2>8. QED
      BY <1>2, <2>1, <2>2, <2>3, <2>4, <2>5, <2>6, <2>7 DEF Next
  <1>3. IInv /\ [Next]_vars => FatesStay
    BY <1>2 DEF IInv
  <1>4. QED
    BY <1>3, Invariance, PTL DEF Spec, FateIsFinal
=============================================================================
