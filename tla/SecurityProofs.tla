--------------------------- MODULE SecurityProofs ---------------------------
(***************************************************************************)
(* Proofs about Security and SecurityHandlers, for every number of         *)
(* channels, every set of texts and members, and every bound.              *)
(***************************************************************************)
EXTENDS SecurityHandlers, FiniteSetTheorems, TLAPS

-----------------------------------------------------------------------------
(* Channels, contents and rows.                                            *)

LEMMA Values ==
    /\ NoChannel \notin Nat /\ NoChannel \notin ChannelIds
    /\ Places \subseteq ChannelIds /\ Ordinary \in Nat \ {0} /\ Ordinary <= MaxChannels
    /\ MaxChannels \in Nat /\ MaxWarnings \in Nat /\ MaxBoards \in Nat /\ MaxEvents \in Nat
    /\ Trap # Verification /\ Trap \in Keys /\ Verification \in Keys
    /\ Warning \in Bodies
  BY SecurityAssumption DEF ChannelIds, Places, Trap, Verification, Keys, Warning, Bodies

\* The first of the channels that are listed.
LEMMA FirstExists ==
    ASSUME NEW seen \in SUBSET ChannelIds, seen # {}
    PROVE  \E c \in seen : \A d \in seen : c <= d
  <1> DEFINE R == StrictSubsetOrdering(ChannelIds)
             T == {1..c : c \in seen}
  <1>1. IsWellFoundedOn(R, FiniteSubsetsOf(ChannelIds))
    BY FS_StrictSubsetOrderingWellFounded
  <1>2. T \subseteq FiniteSubsetsOf(ChannelIds) /\ T # {}
    <2>1. ASSUME NEW c \in seen
          PROVE  1..c \in SUBSET ChannelIds /\ IsFiniteSet(1..c)
      <3>1. c \in Int /\ 1 \in Int /\ c <= MaxChannels
        BY Values DEF ChannelIds
      <3>2. QED
        BY <3>1, Values, FS_Interval DEF ChannelIds
    <2>2. QED
      BY <2>1 DEF FiniteSubsetsOf
  <1>3. PICK x \in T : \A y \in T : <<y, x>> \notin R
    <2> HIDE DEF R, T
    <2>1. QED
      BY <1>1, <1>2, WFMin
  <1>4. PICK c \in seen : x = 1..c
    OBVIOUS
  <1>5. ASSUME NEW d \in seen, d < c
        PROVE  FALSE
    <2>1. /\ 1..d \subseteq 1..c /\ 1..d # 1..c
          /\ 1..d \in SUBSET ChannelIds /\ 1..c \in SUBSET ChannelIds
      BY <1>5, Values DEF ChannelIds
    <2>2. <<1..d, 1..c>> \in R
      BY <2>1 DEF StrictSubsetOrdering
    <2>3. QED
      BY <1>3, <1>4, <2>2
  <1>6. QED
    BY <1>4, <1>5, Values DEF ChannelIds

LEMMA FirstFacts ==
    ASSUME NEW seen \in SUBSET ChannelIds, seen # {}
    PROVE  First(seen) \in seen
  BY FirstExists DEF First

LEMMA ChosenFacts ==
    ASSUME NEW listed \in SUBSET ChannelIds, NEW called \in SUBSET listed, NEW preferred
    PROVE  /\ Chosen(preferred, listed, called) \in listed \union {NoChannel}
           /\ preferred \in listed => Chosen(preferred, listed, called) = preferred
           /\ Chosen(preferred, listed, called) = NoChannel => called = {}
  <1>1. CASE preferred \in listed \/ called = {}
    BY <1>1, Values DEF Chosen
  <1>2. CASE preferred \notin listed /\ called # {}
    BY <1>2, FirstFacts, Values DEF Chosen
  <1>3. QED
    BY <1>1, <1>2

LEMMA AbsentType ==
    /\ Store!AbsentRow \in Record
    /\ Store!AbsentRow.state = "absent" /\ Store!AbsentRow.revision = 0
    /\ Store!AbsentRow.channel = NoChannel /\ Store!AbsentRow.message = 0
  BY DEF Store!AbsentRow, Record, Store!NoMessage

\* The row after a write that is not refused.
LEMMA PublishedType ==
    ASSUME NEW row \in Record, NEW channel \in ChannelIds \union {NoChannel},
           NEW content \in Bodies, NEW new, new = Published(row, channel, content)
    PROVE  /\ new \in Record /\ new.state = "pending" /\ new.revision > 0
           /\ new.channel = channel /\ new.content = content
           /\ Store!Exists(row) => new.revision = row.revision + 1
           /\ ~Store!Exists(row) => new.message = 0
           /\ Store!Exists(row) => new.message = IF channel = row.channel THEN row.message ELSE 0
  <1>1. CASE Store!Exists(row)
    <2>1. new = Store!ReplacedRow(row, channel, content)
      BY <1>1 DEF Published
    <2>2. /\ row.revision \in Nat /\ row.revision + 1 \in Nat /\ row.revision + 1 > 0
          /\ (IF channel = row.channel THEN row.message ELSE 0) \in Nat
      BY DEF Record
    <2>3. QED
      BY <1>1, <2>1, <2>2 DEF Store!ReplacedRow, Record, Store!States, Store!NoMessage
  <1>2. CASE ~Store!Exists(row)
    <2>1. new = Store!InsertedRow(channel, content)
      BY <1>2 DEF Published
    <2>2. \A r \in Record :
              [r EXCEPT !.state = "pending", !.revision = 1, !.due = TRUE,
                        !.channel = channel, !.content = content] \in Record
      BY DEF Record, Store!States
    <2>3. new \in Record
      BY <2>1, <2>2, AbsentType DEF Store!InsertedRow
    <2>4. /\ new.state = "pending" /\ new.revision = 1 /\ new.channel = channel
          /\ new.content = content /\ new.message = 0
      BY <2>1 DEF Store!InsertedRow, Store!AbsentRow, Store!NoMessage
    <2>5. QED
      BY <1>2, <2>3, <2>4
  <1>3. QED
    BY <1>1, <1>2

LEMMA ArchivedType ==
    ASSUME NEW row \in Record, NEW new, new = Store!ArchivedRow(row)
    PROVE  /\ new \in Record /\ new.state = "archived" /\ new.revision = row.revision + 1
           /\ new.channel = row.channel /\ new.content = row.content
           /\ new.message = row.message
  <1>1. row.revision + 1 \in Nat
    BY DEF Record
  <1>2. QED
    BY <1>1 DEF Store!ArchivedRow, Record, Store!States

-----------------------------------------------------------------------------
(* Where a Refresh goes.                                                   *)

LEMMA IdleType ==
    /\ IdleRefresh \in RefreshRecord /\ IdleRefresh.step = "idle"
    /\ IdleRefresh.trap = NoChannel /\ IdleRefresh.seen = {}
  BY AbsentType DEF IdleRefresh, RefreshRecord, Steps, Settings

\* Neither at the trap nor with a verification message in its hands it has
\* nothing to be sound about.
LEMMA AfterTrapSound ==
    ASSUME NEW config \in Settings, AfterTrap(config)
    PROVE  /\ refresh' \in RefreshRecord /\ refresh'.step \in {"read", "idle"}
           /\ TrapIsSound' /\ VerificationIsSound'
  <1>1. CASE VerificationReady(config)
    <2>1. refresh' = [IdleRefresh EXCEPT !.step = "read", !.config = config]
      BY <1>1 DEF AfterTrap
    <2>2. /\ refresh' \in RefreshRecord /\ refresh'.step = "read"
          /\ refresh'.config = config /\ refresh'.trap = NoChannel
      BY <2>1, IdleType DEF RefreshRecord, Steps
    <2>3. QED
      BY <1>1, <2>2 DEF TrapIsSound, VerificationIsSound, VerificationReady
  <1>2. CASE ~VerificationReady(config)
    <2>1. refresh' = IdleRefresh
      BY <1>2 DEF AfterTrap
    <2>2. QED
      BY <2>1, IdleType DEF TrapIsSound, VerificationIsSound
  <1>3. QED
    BY <1>1, <1>2

LEMMA IdleSound ==
    ASSUME refresh' = IdleRefresh
    PROVE  refresh' \in RefreshRecord /\ TrapIsSound' /\ VerificationIsSound'
  BY IdleType DEF TrapIsSound, VerificationIsSound

\* What people and failures may do is bounded.
LEMMA BoundsKept ==
    ASSUME IInv,
           \/ Change /\ faults' = faults
           \/ Fault /\ changes' = changes
           \/ changes' = changes /\ faults' = faults
    PROVE  Bounded'
  BY Values DEF IInv, TypeOK, Bounded, Change, Fault

\* A step of Refresh that changes neither rows nor channels.
LEMMA RefreshMoves ==
    ASSUME IInv,
           UNCHANGED <<settings, rows, channels, opened, posted, worker>>,
           armed' \in (1..opened) \union {NoChannel}, ArmedIsAssigned',
           named' \subseteq channels, posts' \subseteq posts,
           moved' \in {"no", "yes", "read"}, Bounded',
           refresh' \in RefreshRecord, TrapIsSound', VerificationIsSound'
    PROVE  IInv'
  <1>1. TypeOK'
    BY DEF IInv, TypeOK
  <1>2. (\A k \in Keys : RowIsSound(k)') /\ PlacesAreKnown'
    BY DEF IInv, RowIsSound, PlacesAreKnown
  <1>3. QED
    BY <1>1, <1>2 DEF IInv

LEMMA StateFacts ==
    ASSUME IInv
    PROVE  /\ refresh \in RefreshRecord /\ refresh.config \in Settings
           /\ refresh.record \in Record /\ settings \in Settings
           /\ refresh.seen \in SUBSET ChannelIds
           /\ rows \in [Keys -> Record] /\ worker \in [Keys -> Jobs]
           /\ rows[Trap] \in Record /\ rows[Verification] \in Record
           /\ opened \in Ordinary..MaxChannels /\ channels \subseteq 1..opened
           /\ named \subseteq channels /\ moved \in {"no", "yes", "read"}
           /\ channels \in SUBSET ChannelIds /\ 1..opened \in SUBSET ChannelIds
           /\ armed \in (1..opened) \union {NoChannel} /\ Bounded
           /\ posted \in [Keys -> Nat] /\ posts \subseteq Posts
           /\ NoChannel \notin channels /\ NoChannel \notin 1..opened
           /\ opened \in Nat /\ opened <= MaxChannels /\ Places \subseteq 1..opened
  <1>1. /\ refresh \in RefreshRecord /\ settings \in Settings
        /\ rows \in [Keys -> Record] /\ worker \in [Keys -> Jobs]
        /\ opened \in Ordinary..MaxChannels /\ channels \subseteq 1..opened
        /\ named \subseteq channels /\ moved \in {"no", "yes", "read"}
        /\ posted \in [Keys -> Nat] /\ posts \subseteq Posts
        /\ armed \in (1..opened) \union {NoChannel} /\ Bounded
    BY DEF IInv, TypeOK
  <1>2. /\ 1..opened \in SUBSET ChannelIds /\ NoChannel \notin 1..opened
        /\ opened \in Nat /\ opened <= MaxChannels /\ Places \subseteq 1..opened
    BY <1>1, Values DEF ChannelIds, Places
  <1>3. /\ refresh.config \in Settings /\ refresh.record \in Record
        /\ refresh.seen \in SUBSET ChannelIds
    BY <1>1 DEF RefreshRecord
  <1>4. QED
    BY <1>1, <1>2, <1>3, Values

-----------------------------------------------------------------------------
(* The steps of Refresh that write nothing but what it remembers.          *)

LEMMA StartStep ==
    ASSUME IInv, StartRefresh
    PROVE  IInv'
  <1>1. /\ refresh' = [IdleRefresh EXCEPT !.step = "settings"]
        /\ UNCHANGED <<settings, armed, rows, channels, named, opened, posts, posted, worker,
                       moved, changes, faults>>
    BY DEF StartRefresh, discord, bounds
  <1>2. refresh' \in RefreshRecord /\ refresh'.step = "settings" /\ refresh'.trap = NoChannel
    BY <1>1, IdleType DEF RefreshRecord, Steps
  <1>3. TrapIsSound' /\ VerificationIsSound'
    BY <1>2 DEF TrapIsSound, VerificationIsSound
  <1>4. ArmedIsAssigned'
    BY <1>1 DEF IInv, ArmedIsAssigned
  <1>5. QED
    BY <1>1, <1>2, <1>3, <1>4, BoundsKept, StateFacts, RefreshMoves

LEMMA ReadSettingsStep ==
    ASSUME IInv, ReadSettings
    PROVE  IInv'
  <1>1. /\ armed' = armed \/ armed' = NoChannel
        /\ UNCHANGED <<settings, rows, channels, named, opened, posts, posted, worker,
                       moved, changes, faults>>
    BY DEF ReadSettings, Disarmed, discord, bounds
  <1>2. armed' \in (1..opened) \union {NoChannel} /\ ArmedIsAssigned'
    BY <1>1, StateFacts DEF IInv, ArmedIsAssigned
  <1>3. refresh' \in RefreshRecord /\ TrapIsSound' /\ VerificationIsSound'
    <2>1. CASE AfterTrap(settings)
      BY <2>1, AfterTrapSound, StateFacts
    <2>2. CASE refresh' = [refresh EXCEPT !.step = "get", !.config = settings]
      <3>1. /\ refresh' \in RefreshRecord /\ refresh'.step = "get"
            /\ refresh'.trap = refresh.trap
        BY <2>2, StateFacts DEF RefreshRecord, Steps
      <3>2. QED
        BY <1>1, <3>1 DEF IInv, TrapIsSound, VerificationIsSound
    <2>3. QED
      BY <2>1, <2>2 DEF ReadSettings
  <1>4. QED
    BY <1>1, <1>2, <1>3, BoundsKept, StateFacts, RefreshMoves

\* What changes when a step of Refresh only goes on to the next.
LEMMA GoesType ==
    ASSUME IInv, NEW step \in Steps, Goes(step)
    PROVE  /\ refresh' \in RefreshRecord /\ refresh'.step = step
           /\ refresh'.config = refresh.config /\ refresh'.record = refresh.record
           /\ refresh'.seen = refresh.seen /\ refresh'.trap = refresh.trap
  BY StateFacts DEF Goes, RefreshRecord

LEMMA GetWarningStep ==
    ASSUME IInv, GetWarning
    PROVE  IInv'
  <1>1. /\ refresh' = [refresh EXCEPT !.step = "list", !.record = rows[Trap]]
        /\ moved' = IF moved = "yes" THEN "read" ELSE moved
        /\ UNCHANGED <<settings, armed, rows, channels, named, opened, posts, posted, worker,
                       changes, faults>>
    BY DEF GetWarning, discord, bounds
  <1>2. /\ refresh' \in RefreshRecord /\ refresh'.step = "list"
        /\ refresh'.record = rows[Trap] /\ refresh'.trap = refresh.trap
    BY <1>1, StateFacts DEF RefreshRecord, Steps
  <1>3. moved' \in {"no", "yes", "read"} /\ (moved' = "no" => moved = "no")
    BY <1>1, StateFacts
  <1>4. TrapIsSound' /\ VerificationIsSound'
    BY <1>1, <1>2 DEF IInv, TrapIsSound, VerificationIsSound
  <1>5. ArmedIsAssigned'
    BY <1>1, <1>3 DEF IInv, ArmedIsAssigned
  <1>6. QED
    BY <1>1, <1>2, <1>3, <1>4, <1>5, BoundsKept, StateFacts, RefreshMoves

\* The assigned channel if it is still there, and one of those listed in any case.
LEMMA ListChannelsStep ==
    ASSUME IInv, ListChannels
    PROVE  IInv'
  <1> DEFINE trap == Chosen(refresh.record.channel, channels, named)
  <1>1. /\ refresh.step = "list"
        /\ UNCHANGED <<settings, armed, rows, channels, named, opened, posts, posted, worker,
                       moved, changes, faults>>
    BY DEF ListChannels, At, discord, bounds
  <1>2. PICK next \in {"open", "edit", "clean"} :
            /\ next = "open" <=> trap = NoChannel
            /\ refresh' = [refresh EXCEPT
                    !.step = next, !.trap = trap, !.seen = named \ {trap}]
    BY DEF ListChannels
  <1>3. /\ trap \in channels \union {NoChannel}
        /\ refresh.record.channel \in channels => trap = refresh.record.channel
        /\ trap = NoChannel => named \ {trap} = {}
    BY ChosenFacts, StateFacts
  <1>4. trap \in (1..opened) \union {NoChannel} /\ trap \in ChannelIds \union {NoChannel}
        /\ named \ {trap} \in SUBSET ChannelIds
    BY <1>3, StateFacts
  <1> HIDE DEF trap
  <1>5. /\ refresh' \in RefreshRecord /\ refresh'.step = next
        /\ refresh'.trap = trap /\ refresh'.seen = named \ {trap}
        /\ refresh'.record = refresh.record
    BY <1>2, <1>4, StateFacts DEF RefreshRecord, Steps
  <1>6. TrapIsSound'
    <2>1. moved # "yes" => refresh.record.channel = rows[Trap].channel
      BY <1>1 DEF IInv, TrapIsSound
    <2>2. moved # "yes" => rows[Trap].channel \notin channels \ {trap}
      BY <1>3, <2>1
    <2>3. QED
      BY <1>1, <1>2, <1>3, <1>4, <1>5, <2>1, <2>2 DEF TrapIsSound
  <1>7. VerificationIsSound'
    BY <1>5 DEF VerificationIsSound
  <1>8. ArmedIsAssigned'
    BY <1>1 DEF IInv, ArmedIsAssigned
  <1>9. QED
    BY <1>1, <1>5, <1>6, <1>7, <1>8, BoundsKept, StateFacts, RefreshMoves

\* The chosen channel gets its name.
LEMMA EditChannelStep ==
    ASSUME IInv, EditChannel
    PROVE  IInv'
  <1>1. /\ refresh.step = "edit"
        /\ \/ /\ refresh.trap \in channels
              /\ named' = named \union {refresh.trap}
              /\ Goes("clean")
           \/ AfterTrap(refresh.config) /\ named' = named
        /\ UNCHANGED <<settings, armed, rows, channels, opened, posts, posted, worker,
                       moved, changes, faults>>
    BY DEF EditChannel, At, bounds
  <1>2. named' \subseteq channels
    BY <1>1, StateFacts
  <1>3. ArmedIsAssigned'
    BY <1>1 DEF IInv, ArmedIsAssigned
  <1>4. refresh' \in RefreshRecord /\ TrapIsSound' /\ VerificationIsSound'
    <2>1. CASE AfterTrap(refresh.config)
      BY <2>1, AfterTrapSound, StateFacts
    <2>2. CASE Goes("clean")
      <3>1. "clean" \in Steps
        BY DEF Steps
      <3>2. refresh.trap \notin refresh.seen
        BY <1>1 DEF IInv, TrapIsSound
      <3>3. QED
        BY <1>1, <2>2, <3>1, <3>2, GoesType DEF IInv, TrapIsSound, VerificationIsSound
    <2>3. QED
      BY <1>1, <2>1, <2>2
  <1>5. QED
    BY <1>1, <1>2, <1>3, <1>4, BoundsKept, StateFacts, RefreshMoves

LEMMA TrapRepairedStep ==
    ASSUME IInv, TrapRepaired
    PROVE  IInv'
  <1>1. /\ refresh.step = "clean" /\ Goes("publish")
        /\ UNCHANGED <<settings, armed, rows, channels, named, opened, posts, posted, worker,
                       moved, changes, faults>>
    BY DEF TrapRepaired, At, discord, bounds
  <1>2. "publish" \in Steps
    BY DEF Steps
  <1>3. TrapIsSound' /\ VerificationIsSound'
    BY <1>1, <1>2, GoesType DEF IInv, TrapIsSound, VerificationIsSound
  <1>4. ArmedIsAssigned'
    BY <1>1 DEF IInv, ArmedIsAssigned
  <1>5. QED
    BY <1>1, <1>2, <1>3, <1>4, GoesType, BoundsKept, StateFacts, RefreshMoves

\* A move of the warning that was read is followed by now.
LEMMA ArmStep ==
    ASSUME IInv, Arm
    PROVE  IInv'
  <1>1. /\ refresh.step = "arm" /\ armed' = refresh.trap /\ Goes("reconcile")
        /\ moved' = IF moved = "read" THEN "no" ELSE moved
        /\ UNCHANGED <<settings, rows, channels, named, opened, posts, posted, worker,
                       changes, faults>>
    BY DEF Arm, At, discord, bounds
  <1>2. "reconcile" \in Steps
    BY DEF Steps
  <1>3. moved' \in {"no", "yes", "read"} /\ (moved' = "no" => moved # "yes")
    BY <1>1, StateFacts
  <1>4. TrapIsSound' /\ VerificationIsSound'
    BY <1>1, <1>2, GoesType DEF IInv, TrapIsSound, VerificationIsSound
  <1>5. armed' \in (1..opened) \union {NoChannel} /\ ArmedIsAssigned'
    BY <1>1, <1>3 DEF IInv, TrapIsSound, ArmedIsAssigned
  <1>6. QED
    BY <1>1, <1>2, <1>3, <1>4, <1>5, GoesType, BoundsKept, StateFacts, RefreshMoves

LEMMA PruneSteps ==
    ASSUME IInv, ReconcileWarning \/ ConfirmWarning \/ ListWarnings \/ DeleteWarning
    PROVE  IInv'
  <1>1. /\ UNCHANGED <<settings, armed, rows, channels, named, opened, posted, worker,
                       moved, changes, faults>>
        /\ posts' \subseteq posts
    BY DEF ReconcileWarning, ConfirmWarning, ListWarnings, DeleteWarning, discord, bounds
  <1>2. ArmedIsAssigned'
    BY <1>1 DEF IInv, ArmedIsAssigned
  <1>3. \/ AfterTrap(refresh.config) \/ Goes("confirm") \/ Goes("prune")
        \/ \E extras \in SUBSET Posts :
            refresh' = [refresh EXCEPT !.step = "delete", !.extras = extras]
    <2>1. CASE ReconcileWarning \/ ConfirmWarning
      BY <2>1 DEF ReconcileWarning, ConfirmWarning
    <2>2. CASE ListWarnings
      <3>1. Extras(refresh) \in SUBSET Posts
        BY StateFacts DEF Extras
      <3>2. QED
        BY <2>2, <3>1 DEF ListWarnings
    <2>3. CASE DeleteWarning
      <3>1. refresh.step = "delete" /\ refresh.extras \in SUBSET Posts
        BY <2>3, StateFacts DEF DeleteWarning, At, RefreshRecord
      <3>2. PICK post \in refresh.extras :
                \/ AfterTrap(refresh.config)
                \/ refresh' = [refresh EXCEPT !.extras = refresh.extras \ {post}]
        BY <2>3 DEF DeleteWarning
      <3>3. refresh = [refresh EXCEPT !.step = "delete"]
        BY <3>1, StateFacts DEF RefreshRecord
      <3>4. CASE refresh' = [refresh EXCEPT !.extras = refresh.extras \ {post}]
        <4>1. refresh' = [refresh EXCEPT !.step = "delete", !.extras = refresh.extras \ {post}]
          BY <3>1, <3>3, <3>4, StateFacts DEF RefreshRecord
        <4>2. QED
          BY <3>1, <4>1
      <3>5. QED
        BY <3>2, <3>4
    <2>4. QED
      BY <2>1, <2>2, <2>3
  <1>4. refresh' \in RefreshRecord /\ TrapIsSound' /\ VerificationIsSound'
    <2>1. CASE AfterTrap(refresh.config)
      BY <2>1, AfterTrapSound, StateFacts
    <2>2. ASSUME refresh' \in RefreshRecord, refresh'.trap = refresh.trap,
                 refresh'.step \in {"confirm", "prune", "delete"}
          PROVE  TrapIsSound' /\ VerificationIsSound'
      BY <1>1, <2>2 DEF IInv, TrapIsSound, VerificationIsSound
    <2>3. ASSUME NEW step \in {"confirm", "prune"}, Goes(step)
          PROVE  refresh' \in RefreshRecord /\ TrapIsSound' /\ VerificationIsSound'
      <3>1. step \in Steps
        BY DEF Steps
      <3>2. QED
        BY <2>2, <2>3, <3>1, GoesType
    <2>4. ASSUME NEW extras \in SUBSET Posts,
                 refresh' = [refresh EXCEPT !.step = "delete", !.extras = extras]
          PROVE  refresh' \in RefreshRecord /\ TrapIsSound' /\ VerificationIsSound'
      <3>1. /\ refresh' \in RefreshRecord /\ refresh'.trap = refresh.trap
            /\ refresh'.step = "delete"
        BY <2>4, StateFacts DEF RefreshRecord, Steps
      <3>2. QED
        BY <2>2, <3>1
    <2>5. QED
      BY <1>3, <2>1, <2>3, <2>4
  <1>5. QED
    BY <1>1, <1>2, <1>4, BoundsKept, StateFacts, RefreshMoves

LEMMA ReadVerificationStep ==
    ASSUME IInv, ReadVerification
    PROVE  IInv'
  <1>1. /\ refresh.step = "read"
        /\ UNCHANGED <<settings, armed, rows, channels, named, opened, posts, posted, worker,
                       moved, changes, faults>>
    BY DEF ReadVerification, At, discord, bounds
  <1>2. ArmedIsAssigned'
    BY <1>1 DEF IInv, ArmedIsAssigned
  <1>3. refresh' \in RefreshRecord /\ TrapIsSound' /\ VerificationIsSound'
    <2>1. CASE ~Usable(rows[Verification])
      BY <2>1, IdleSound DEF ReadVerification
    <2>2. CASE Usable(rows[Verification])
      <3>1. refresh' = [refresh EXCEPT !.step = "write", !.record = rows[Verification]]
        BY <2>2 DEF ReadVerification
      <3>2. /\ refresh' \in RefreshRecord /\ refresh'.step = "write"
            /\ refresh'.record = rows[Verification] /\ refresh'.config = refresh.config
            /\ refresh'.trap = refresh.trap
        BY <3>1, StateFacts DEF RefreshRecord, Steps
      <3>3. TrapIsSound'
        BY <1>1, <3>2 DEF IInv, TrapIsSound
      <3>4. rows[Verification].content \in Bodies /\ rows[Verification].revision \in Nat
        BY <2>2, StateFacts, Values DEF IInv, RowIsSound, Usable, Store!Markable, Record
      <3>5. VerificationIsSound'
        BY <1>1, <2>2, <3>2, <3>4 DEF IInv, VerificationIsSound, VerificationReady
      <3>6. QED
        BY <3>2, <3>3, <3>5
    <2>3. QED
      BY <2>1, <2>2
  <1>4. QED
    BY <1>1, <1>2, <1>3, BoundsKept, StateFacts, RefreshMoves

LEMMA CallFailsStep ==
    ASSUME IInv, CallFails
    PROVE  IInv'
  <1>1. /\ UNCHANGED <<settings, armed, rows, channels, named, opened, posts, posted, worker,
                       moved, changes>>
        /\ Fault
        /\ refresh' = IdleRefresh \/ AfterTrap(refresh.config)
    BY DEF CallFails, discord
  <1>2. ArmedIsAssigned'
    BY <1>1 DEF IInv, ArmedIsAssigned
  <1>3. refresh' \in RefreshRecord /\ TrapIsSound' /\ VerificationIsSound'
    BY <1>1, IdleSound, AfterTrapSound, StateFacts
  <1>4. QED
    BY <1>1, <1>2, <1>3, BoundsKept, StateFacts, RefreshMoves

-----------------------------------------------------------------------------
(* The steps that create and delete channels.                              *)

LEMMA ChannelsMove ==
    ASSUME IInv,
           UNCHANGED <<settings, armed, rows, posted, worker, moved>>,
           opened' \in {opened, opened + 1}, opened' <= MaxChannels,
           channels' \subseteq 1..opened', named' \subseteq channels', posts' \subseteq posts,
           Bounded', armed \in channels' => armed \in channels,
           refresh' \in RefreshRecord, TrapIsSound', VerificationIsSound'
    PROVE  IInv'
  <1>1. opened' \in Ordinary..MaxChannels /\ 1..opened \subseteq 1..opened'
    BY StateFacts, Values
  <1>2. TypeOK'
    BY <1>1 DEF IInv, TypeOK
  <1>3. (\A k \in Keys : RowIsSound(k)') /\ PlacesAreKnown'
    BY <1>1 DEF IInv, RowIsSound, PlacesAreKnown
  <1>4. ArmedIsAssigned'
    BY DEF IInv, ArmedIsAssigned
  <1>5. QED
    BY <1>2, <1>3, <1>4 DEF IInv

\* A channel that is created is new to everybody.
LEMMA NewChannel ==
    ASSUME IInv, Opens
    PROVE  /\ opened' = opened + 1 /\ opened' <= MaxChannels
           /\ channels' = channels \union {opened + 1}
           /\ named' \subseteq channels'
           /\ opened + 1 \in ChannelIds /\ opened + 1 # NoChannel
           /\ armed # opened + 1 /\ rows[Trap].channel # opened + 1
           /\ channels' \subseteq 1..opened' /\ 1..opened \subseteq 1..opened'
           /\ opened + 1 \in 1..opened'
  <1>1. /\ opened < MaxChannels /\ opened' = opened + 1
        /\ channels' = channels \union {opened + 1} /\ named' = named \union {opened + 1}
    BY DEF Opens
  <1>2. opened \in Nat /\ MaxChannels \in Nat
    BY StateFacts, Values
  <1>3. opened + 1 \in ChannelIds /\ opened + 1 # NoChannel
    BY <1>1, <1>2, Values DEF ChannelIds
  <1>4. rows[Trap].channel \in (1..opened) \union {NoChannel}
    BY Values DEF IInv, PlacesAreKnown
  <1>5. QED
    BY <1>1, <1>2, <1>3, <1>4, StateFacts

LEMMA CreateChannelStep ==
    ASSUME IInv, CreateChannel
    PROVE  IInv'
  <1>1. /\ refresh.step = "open" /\ Opens
        /\ refresh' = [refresh EXCEPT !.step = "clean", !.trap = opened + 1]
        /\ UNCHANGED <<settings, armed, rows, posts, posted, worker, moved, changes, faults>>
    BY DEF CreateChannel, At, bounds
  <1>2. /\ refresh' \in RefreshRecord /\ refresh'.step = "clean"
        /\ refresh'.trap = opened + 1 /\ refresh'.seen = refresh.seen
        /\ refresh'.record = refresh.record
    BY <1>1, NewChannel, StateFacts DEF RefreshRecord, Steps
  <1>3. refresh.seen = {} /\ (moved # "yes" => rows[Trap].channel \notin channels)
    BY <1>1, StateFacts DEF IInv, TrapIsSound
  <1>4. TrapIsSound'
    BY <1>1, <1>2, <1>3, NewChannel DEF IInv, TrapIsSound
  <1>5. VerificationIsSound'
    BY <1>2 DEF VerificationIsSound
  <1>6. QED
    BY <1>1, <1>2, <1>4, <1>5, NewChannel, BoundsKept, StateFacts, ChannelsMove

\* A channel that goes, whoever deletes it.
LEMMA ChannelGoes ==
    ASSUME NEW c, Closes(c), named \subseteq channels
    PROVE  channels' \subseteq channels /\ posts' \subseteq posts /\ named' \subseteq channels'
  BY DEF Closes

LEMMA DeleteDuplicateStep ==
    ASSUME IInv, DeleteDuplicate
    PROVE  IInv'
  <1> DEFINE c == First(refresh.seen)
  <1>1. /\ refresh.step = "clean"
        /\ UNCHANGED <<settings, armed, rows, opened, posted, worker, moved, changes, faults>>
    BY DEF DeleteDuplicate, At, bounds
  <1>2. opened \in Nat /\ opened <= MaxChannels
    BY StateFacts, Values
  <1>3. \/ /\ Closes(c)
           /\ refresh' = [refresh EXCEPT !.seen = refresh.seen \ {c}]
        \/ /\ AfterTrap(refresh.config)
           /\ UNCHANGED <<channels, named, posts>>
    BY DEF DeleteDuplicate
  <1> HIDE DEF c
  <1>4. CASE AfterTrap(refresh.config) /\ UNCHANGED <<channels, named, posts>>
    BY <1>1, <1>2, <1>4, AfterTrapSound, BoundsKept, StateFacts, ChannelsMove
  <1>5. CASE Closes(c) /\ refresh' = [refresh EXCEPT !.seen = refresh.seen \ {c}]
    <2>1. /\ refresh' \in RefreshRecord /\ refresh'.step = "clean"
          /\ refresh'.trap = refresh.trap /\ refresh'.record = refresh.record
          /\ refresh'.seen \subseteq refresh.seen
      BY <1>1, <1>5, StateFacts DEF RefreshRecord
    <2>2. channels' \subseteq channels /\ posts' \subseteq posts /\ named' \subseteq channels'
      BY <1>5, StateFacts, ChannelGoes
    <2>3. TrapIsSound' /\ VerificationIsSound'
      BY <1>1, <2>1, <2>2 DEF IInv, TrapIsSound, VerificationIsSound
    <2>4. QED
      BY <1>1, <1>2, <2>1, <2>2, <2>3, BoundsKept, StateFacts, ChannelsMove
  <1>6. QED
    BY <1>3, <1>4, <1>5

LEMMA ModeratorSteps ==
    ASSUME IInv, ChannelDeleted \/ ChannelAdded \/ ChannelRenamed \/ PostDeleted
    PROVE  IInv'
  <1>1. /\ UNCHANGED <<settings, armed, rows, posted, worker, refresh, moved, changes>>
        /\ Fault
    BY DEF ChannelDeleted, ChannelAdded, ChannelRenamed, PostDeleted
  <1>2. Bounded' /\ opened \in Nat /\ opened <= MaxChannels
    BY <1>1, BoundsKept, Values, StateFacts
  <1>3. VerificationIsSound'
    BY <1>1 DEF IInv, VerificationIsSound
  <1>4. CASE ChannelDeleted \/ ChannelRenamed \/ PostDeleted
    <2>1. /\ channels' \subseteq channels /\ posts' \subseteq posts /\ opened' = opened
          /\ named' \subseteq channels'
      BY <1>4, StateFacts, ChannelGoes DEF ChannelDeleted, ChannelRenamed, PostDeleted
    <2>2. TrapIsSound'
      BY <1>1, <2>1 DEF IInv, TrapIsSound
    <2>3. QED
      BY <1>1, <1>2, <1>3, <2>1, <2>2, StateFacts, ChannelsMove
  <1>5. CASE ChannelAdded
    <2>1. Opens /\ posts' = posts
      BY <1>5 DEF ChannelAdded
    <2>2. TrapIsSound'
      BY <1>1, <2>1, NewChannel DEF IInv, TrapIsSound
    <2>3. QED
      BY <1>1, <1>2, <1>3, <2>1, <2>2, NewChannel, StateFacts, ChannelsMove
  <1>6. QED
    BY <1>4, <1>5

-----------------------------------------------------------------------------
(* The steps that write rows.                                              *)

LEMMA RowsMove ==
    ASSUME IInv, NEW k \in Keys, NEW new \in Record,
           rows' = [rows EXCEPT ![k] = new],
           new.state = "absent" <=> new.revision = 0,
           Store!Exists(new) => new.content \in Bodies /\ new.channel # NoChannel,
           new.channel \in (1..opened) \union {NoChannel},
           UNCHANGED <<settings, armed, channels, named, opened, posted>>,
           posts' \subseteq posts, worker' \in [Keys -> Jobs],
           moved' \in {"no", "yes", "read"}, Bounded', ArmedIsAssigned',
           refresh' \in RefreshRecord, TrapIsSound', VerificationIsSound'
    PROVE  IInv'
  <1>1. rows \in [Keys -> Record]
    BY DEF IInv, TypeOK
  <1>2. /\ rows' \in [Keys -> Record]
        /\ \A l \in Keys : rows'[l] = IF l = k THEN new ELSE rows[l]
    BY <1>1
  <1>3. TypeOK'
    BY <1>2 DEF IInv, TypeOK
  <1>4. \A l \in Keys : RowIsSound(l)'
    BY <1>2 DEF IInv, RowIsSound
  <1>5. PlacesAreKnown'
    BY <1>2 DEF IInv, PlacesAreKnown
  <1>6. QED
    BY <1>3, <1>4, <1>5 DEF IInv

LEMMA PublishWarningStep ==
    ASSUME IInv, PublishWarning
    PROVE  IInv'
  <1>1. /\ refresh.step = "publish"
        /\ UNCHANGED <<settings, armed, channels, named, opened, posts, posted, worker,
                       moved, changes, faults>>
    BY DEF PublishWarning, At, discord, bounds
  <1>2. /\ refresh.trap \in 1..opened /\ refresh.trap # NoChannel
        /\ moved # "yes" =>
            /\ rows[Trap].channel \notin channels \ {refresh.trap}
            /\ refresh.record.channel = rows[Trap].channel
    BY <1>1 DEF IInv, TrapIsSound
  <1>3. "arm" \in Steps
    BY DEF Steps
  <1>4. CASE rows' = rows /\ Goes("arm") /\ refresh.record.channel = refresh.trap
    <2>1. TrapIsSound' /\ VerificationIsSound' /\ refresh' \in RefreshRecord
      BY <1>1, <1>2, <1>3, <1>4, GoesType DEF IInv, TrapIsSound, VerificationIsSound
    <2>2. ArmedIsAssigned'
      BY <1>1, <1>4 DEF IInv, ArmedIsAssigned
    <2>3. QED
      BY <1>1, <1>4, <2>1, <2>2, BoundsKept, StateFacts, RefreshMoves
  <1>5. CASE rows' = rows /\ AfterTrap(refresh.config)
    <2>1. ArmedIsAssigned'
      BY <1>1, <1>5 DEF IInv, ArmedIsAssigned
    <2>2. QED
      BY <1>1, <1>5, <2>1, AfterTrapSound, BoundsKept, StateFacts, RefreshMoves
  <1>6. CASE /\ rows' = [rows EXCEPT ![Trap] = Published(rows[Trap], refresh.trap, Warning)]
             /\ Goes("arm")
    <2> DEFINE new == Published(rows[Trap], refresh.trap, Warning)
    <2>1. refresh.trap \in ChannelIds \union {NoChannel}
      BY <1>2, StateFacts
    <2>2. /\ new \in Record /\ new.state = "pending" /\ new.revision > 0
          /\ new.channel = refresh.trap /\ new.content = Warning
      BY <2>1, StateFacts, Values, PublishedType
    <2> HIDE DEF new
    <2>3. rows' = [rows EXCEPT ![Trap] = new]
      BY <1>6 DEF new
    <2>4. rows'[Trap] = new /\ rows'[Verification] = rows[Verification]
      BY <2>3, StateFacts, Values
    <2>5. TrapIsSound' /\ VerificationIsSound' /\ refresh' \in RefreshRecord
      BY <1>1, <1>2, <1>3, <1>6, <2>2, <2>4, GoesType
         DEF IInv, TrapIsSound, VerificationIsSound
    <2>6. ArmedIsAssigned'
      BY <1>1, <1>2, <2>2, <2>4 DEF IInv, ArmedIsAssigned
    <2>7. /\ new.state = "absent" <=> new.revision = 0
          /\ Store!Exists(new) => new.content \in Bodies /\ new.channel # NoChannel
          /\ new.channel \in (1..opened) \union {NoChannel}
      BY <1>2, <2>2, Values
    <2>8. Bounded' /\ worker' \in [Keys -> Jobs] /\ moved' \in {"no", "yes", "read"}
      BY <1>1, BoundsKept, StateFacts
    <2>9. QED
      BY <1>1, <2>2, <2>3, <2>5, <2>6, <2>7, <2>8, Values, RowsMove
  <1>7. QED
    BY <1>4, <1>5, <1>6 DEF PublishWarning, UpToDate

\* What Refresh writes is what it has read, with the button.
LEMMA WriteVerificationStep ==
    ASSUME IInv, WriteVerification
    PROVE  IInv'
  <1>1. /\ refresh.step = "write" /\ refresh' = IdleRefresh
        /\ UNCHANGED <<settings, armed, channels, named, opened, posts, posted, worker,
                       moved, changes, faults>>
    BY DEF WriteVerification, At, discord, bounds
  <1>2. refresh' \in RefreshRecord /\ TrapIsSound' /\ VerificationIsSound'
    BY <1>1, IdleSound
  <1>3. CASE rows' = rows
    <2>1. ArmedIsAssigned'
      BY <1>1, <1>3 DEF IInv, ArmedIsAssigned
    <2>2. QED
      BY <1>1, <1>2, <1>3, <2>1, BoundsKept, StateFacts, RefreshMoves
  <1>4. CASE rows' # rows
    <2>1. PICK content, new :
            /\ content = WithVerificationButton(refresh.record.content)
            /\ new = Published(rows[Verification], refresh.config.channel, content)
            /\ rows' = [rows EXCEPT ![Verification] = new]
      BY <1>4 DEF WriteVerification, Place
    <2>2. /\ refresh.config.channel \in Places /\ refresh.record.content \in Bodies
          /\ refresh.config.channel \in ChannelIds \union {NoChannel}
      BY <1>1, StateFacts, Values DEF IInv, VerificationIsSound, VerificationReady, Settings
    <2>3. content \in Bodies
      BY <2>1, <2>2 DEF WithVerificationButton, Bodies
    <2>4. /\ new \in Record /\ new.state = "pending" /\ new.revision > 0
          /\ new.channel = refresh.config.channel /\ new.content = content
      BY <2>1, <2>2, <2>3, StateFacts, PublishedType
    <2>5. rows'[Trap] = rows[Trap]
      BY <2>1, StateFacts, Values
    <2>6. ArmedIsAssigned'
      BY <1>1, <2>5 DEF IInv, ArmedIsAssigned
    <2>7. refresh.config.channel \in 1..opened
      BY <2>2, StateFacts
    <2>8. /\ new.state = "absent" <=> new.revision = 0
          /\ Store!Exists(new) => new.content \in Bodies /\ new.channel # NoChannel
          /\ new.channel \in (1..opened) \union {NoChannel}
      BY <2>3, <2>4, <2>7, StateFacts
    <2>9. Bounded' /\ worker' \in [Keys -> Jobs] /\ moved' \in {"no", "yes", "read"}
      BY <1>1, BoundsKept, StateFacts
    <2>10. QED
      BY <1>1, <1>2, <2>1, <2>4, <2>6, <2>8, <2>9, Values, RowsMove
  <1>5. QED
    BY <1>3, <1>4

\* A row that another writes while Refresh is at work.
LEMMA OthersWrite ==
    ASSUME IInv, NEW k \in Keys, NEW new \in Record,
           rows' = [rows EXCEPT ![k] = new],
           new.state = "absent" <=> new.revision = 0,
           Store!Exists(new) => new.content \in Bodies /\ new.channel # NoChannel,
           new.channel \in (1..opened) \union {NoChannel},
           \/ new.revision > rows[k].revision
           \/ new.revision = rows[k].revision /\ new.content = rows[k].content,
           moved' = moved \/ moved' = "yes",
           k = Trap /\ moved' # "yes" => new.channel = rows[k].channel,
           UNCHANGED <<settings, armed, channels, named, opened, posted, refresh>>,
           posts' \subseteq posts, worker' \in [Keys -> Jobs], Bounded'
    PROVE  IInv'
  <1>1. rows'[k] = new /\ \A l \in Keys \ {k} : rows'[l] = rows[l]
    BY StateFacts
  <1>2. refresh' \in RefreshRecord /\ moved' \in {"no", "yes", "read"}
    BY StateFacts
  <1>3. moved' # "yes" => moved = moved' /\ rows'[Trap].channel = rows[Trap].channel
    BY <1>1, Values
  <1>4. ArmedIsAssigned' /\ TrapIsSound'
    BY <1>3 DEF IInv, ArmedIsAssigned, TrapIsSound
  <1>5. VerificationIsSound'
    <2>1. CASE k = Trap
      BY <1>1, <2>1, Values DEF IInv, VerificationIsSound
    <2>2. CASE k = Verification
      <3>1. /\ new.revision \in Nat /\ rows[Verification].revision \in Nat
            /\ refresh.record.revision \in Nat
        BY StateFacts DEF Record
      <3>2. QED
        BY <1>1, <2>2, <3>1 DEF IInv, VerificationIsSound
    <2>3. QED
      BY <2>1, <2>2 DEF Keys
  <1>6. QED
    BY <1>2, <1>4, <1>5, RowsMove

\* A client that writes, and perhaps moves, either message.
LEMMA WriteMessageStep ==
    ASSUME IInv, NEW k \in Keys, NEW channel \in 1..opened, NEW content \in Bodies,
           WriteMessage(k, channel, content)
    PROVE  IInv'
  <1>1. PICK new : new = Published(rows[k], channel, content)
    OBVIOUS
  <1>2. /\ rows' = [rows EXCEPT ![k] = new] /\ Change /\ faults' = faults
        /\ moved' = IF k = Trap /\ rows[k].channel # channel THEN "yes" ELSE moved
        /\ UNCHANGED <<settings, armed, channels, named, opened, posts, posted, worker,
                       refresh>>
    BY <1>1, StateFacts DEF WriteMessage, discord
  <1>3. rows[k] \in Record /\ channel \in ChannelIds \union {NoChannel} /\ channel # NoChannel
    BY StateFacts
  <1>4. /\ new \in Record /\ new.state = "pending" /\ new.revision > 0
        /\ new.channel = channel /\ new.content = content
        /\ Store!Exists(rows[k]) => new.revision = rows[k].revision + 1
    BY <1>1, <1>3, PublishedType
  <1>5. rows[k].revision \in Nat /\ new.revision \in Nat
    BY <1>3, <1>4 DEF Record
  <1>6. new.revision > rows[k].revision
    BY <1>4, <1>5 DEF IInv, RowIsSound, Store!Exists
  <1>7. /\ new.state = "absent" <=> new.revision = 0
        /\ Store!Exists(new) => new.content \in Bodies /\ new.channel # NoChannel
        /\ new.channel \in (1..opened) \union {NoChannel}
    BY <1>3, <1>4
  <1>8. /\ moved' = moved \/ moved' = "yes"
        /\ k = Trap /\ moved' # "yes" => new.channel = rows[k].channel
    BY <1>2, <1>4
  <1>9. Bounded' /\ worker' \in [Keys -> Jobs] /\ posts' \subseteq posts
    BY <1>2, BoundsKept, StateFacts
  <1>10. QED
    BY <1>2, <1>4, <1>6, <1>7, <1>8, <1>9, OthersWrite

LEMMA ArchiveStep ==
    ASSUME IInv, NEW k \in Keys, ArchiveMessage(k)
    PROVE  IInv'
  <1>1. PICK new : new = Store!ArchivedRow(rows[k])
    OBVIOUS
  <1>2. /\ rows' = [rows EXCEPT ![k] = new]
        /\ Change /\ faults' = faults /\ Store!Exists(rows[k])
        /\ UNCHANGED <<settings, armed, channels, named, opened, posts, posted, worker,
                       refresh, moved>>
    BY <1>1, StateFacts DEF ArchiveMessage, discord, Usable, Store!Markable
  <1>3. rows[k] \in Record
    BY StateFacts
  <1>4. /\ new \in Record /\ new.state = "archived" /\ new.revision = rows[k].revision + 1
        /\ new.channel = rows[k].channel /\ new.content = rows[k].content
    BY <1>1, <1>3, ArchivedType
  <1>5. rows[k].revision \in Nat /\ new.revision > rows[k].revision /\ new.revision > 0
    BY <1>3, <1>4 DEF Record
  <1>6. /\ new.state = "absent" <=> new.revision = 0
        /\ Store!Exists(new) => new.content \in Bodies /\ new.channel # NoChannel
        /\ new.channel \in (1..opened) \union {NoChannel}
    BY <1>2, <1>4, <1>5 DEF IInv, RowIsSound, PlacesAreKnown
  <1>7. Bounded' /\ worker' \in [Keys -> Jobs] /\ posts' \subseteq posts
    BY <1>2, BoundsKept, StateFacts
  <1>8. QED
    BY <1>2, <1>4, <1>5, <1>6, <1>7, OthersWrite

LEMMA ClientSteps ==
    ASSUME IInv, NEW k \in Keys, Client(k)
    PROVE  IInv'
  <1>1. CASE \E channel \in 1..opened : EditMessage(k, channel)
    <2>1. PICK channel \in 1..opened, text \in Texts :
              WriteMessage(k, channel, UserMessage(text))
      BY <1>1 DEF EditMessage
    <2>2. UserMessage(text) \in Bodies
      BY DEF UserMessage, Bodies
    <2>3. QED
      BY <2>1, <2>2, WriteMessageStep
  <1>2. CASE \E channel \in 1..opened : AssignMessage(k, channel)
    <2>1. PICK channel \in 1..opened :
              Store!Exists(rows[k]) /\ WriteMessage(k, channel, rows[k].content)
      BY <1>2 DEF AssignMessage
    <2>2. rows[k].content \in Bodies
      BY <2>1 DEF IInv, RowIsSound
    <2>3. QED
      BY <2>1, <2>2, WriteMessageStep
  <1>3. QED
    BY <1>1, <1>2, ArchiveStep DEF Client

-----------------------------------------------------------------------------
(* The others, and the theorems about Security.                            *)

\* A step of a job that only posts, or only remembers.
LEMMA JobMoves ==
    ASSUME IInv,
           UNCHANGED <<settings, armed, rows, channels, named, opened, refresh, moved,
                       changes, faults>>,
           worker' \in [Keys -> Jobs], posted' \in [Keys -> Nat], posts' \subseteq Posts
    PROVE  IInv'
  <1>1. TypeOK'
    BY DEF IInv, TypeOK, Bounded
  <1>2. (\A k \in Keys : RowIsSound(k)') /\ PlacesAreKnown' /\ ArmedIsAssigned'
    BY DEF IInv, RowIsSound, PlacesAreKnown, ArmedIsAssigned
  <1>3. TrapIsSound' /\ VerificationIsSound'
    BY DEF IInv, TrapIsSound, VerificationIsSound
  <1>4. QED
    BY <1>1, <1>2, <1>3 DEF IInv

LEMMA IdleJob ==
    IdleWorker \in Jobs /\ IdleWorker.revision = 0 /\ IdleWorker.message = 0
  BY DEF IdleWorker, Jobs, Store!NoMessage

LEMMA WorkerSteps ==
    ASSUME IInv, NEW k \in Keys, Worker(k)
    PROVE  IInv'
  <1>1. /\ worker \in [Keys -> Jobs] /\ posted \in [Keys -> Nat] /\ posts \subseteq Posts
        /\ worker[k] \in Jobs /\ posted[k] \in Nat /\ posted[k] + 1 \in Nat
        /\ rows[k] \in Record
    BY StateFacts
  <1>2. CASE WorkerClaims(k)
    <2>1. PICK job : job = [revision |-> rows[k].revision, channel |-> rows[k].channel,
                            known |-> rows[k].message, message |-> Store!NoMessage]
      OBVIOUS
    <2>2. job \in Jobs
      BY <1>1, <2>1 DEF Record, Jobs, Store!NoMessage
    <2>3. worker' = [worker EXCEPT ![k] = job]
      BY <1>2, <2>1 DEF WorkerClaims
    <2>4. worker' \in [Keys -> Jobs] /\ posted' \in [Keys -> Nat] /\ posts' \subseteq Posts
      BY <1>1, <1>2, <2>2, <2>3 DEF WorkerClaims, discord
    <2>5. QED
      BY <1>2, <2>4, JobMoves DEF WorkerClaims, discord, bounds
  <1>3. CASE WorkerCreates(k)
    <2>1. CASE UNCHANGED <<posts, posted>> /\ worker' = [worker EXCEPT ![k] = IdleWorker]
      <3>1. worker' \in [Keys -> Jobs] /\ posted' \in [Keys -> Nat] /\ posts' \subseteq Posts
        BY <1>1, <2>1, IdleJob
      <3>2. QED
        BY <1>3, <3>1, JobMoves DEF WorkerCreates, bounds
    <2>2. CASE /\ posted' = [posted EXCEPT ![k] = posted[k] + 1]
               /\ worker[k].channel \in channels
               /\ posts' = posts \union
                    {[key |-> k, id |-> posted[k] + 1, channel |-> worker[k].channel]}
               /\ worker' = [worker EXCEPT ![k].message = posted[k] + 1]
      <3>1. PICK post : post = [key |-> k, id |-> posted[k] + 1, channel |-> worker[k].channel]
        OBVIOUS
      <3>2. post \in Posts
        BY <1>1, <2>2, <3>1, StateFacts DEF Posts
      <3>3. posts' \subseteq Posts
        BY <1>1, <2>2, <3>1, <3>2
      <3>4. PICK job : job = [worker[k] EXCEPT !.message = posted[k] + 1]
        OBVIOUS
      <3>5. job \in Jobs
        BY <1>1, <3>4 DEF Jobs
      <3>6. worker' = [worker EXCEPT ![k] = job]
        BY <2>2, <3>4
      <3>7. worker' \in [Keys -> Jobs] /\ posted' \in [Keys -> Nat]
        BY <1>1, <2>2, <3>5, <3>6
      <3>8. QED
        BY <1>3, <3>3, <3>7, JobMoves DEF WorkerCreates, bounds
    <2>3. QED
      BY <1>3, <2>1, <2>2 DEF WorkerCreates
  <1>4. CASE WorkerStores(k)
    <2>1. /\ worker' = [worker EXCEPT ![k] = IdleWorker] /\ posts' \subseteq posts
          /\ UNCHANGED <<settings, armed, channels, named, opened, posted, refresh, moved,
                         changes, faults>>
          /\ \/ rows' = [rows EXCEPT ![k].message = worker[k].message]
             \/ rows' = rows
      BY <1>4 DEF WorkerStores, bounds
    <2>2. worker' \in [Keys -> Jobs]
      BY <1>1, <2>1, IdleJob
    <2>3. CASE rows' = rows
      <3>1. posts' \subseteq Posts
        BY <1>1, <2>1
      <3>2. QED
        BY <1>1, <2>1, <2>2, <2>3, <3>1, JobMoves
    <2>4. CASE rows' = [rows EXCEPT ![k].message = worker[k].message]
      <3>1. PICK new : new = [rows[k] EXCEPT !.message = worker[k].message]
        OBVIOUS
      <3>2. rows' = [rows EXCEPT ![k] = new]
        BY <2>4, <3>1
      <3>3. worker[k].message \in Nat
        BY <1>1 DEF Jobs
      <3>4. /\ new \in Record /\ new.state = rows[k].state
            /\ new.revision = rows[k].revision /\ new.channel = rows[k].channel
            /\ new.content = rows[k].content
        BY <1>1, <3>1, <3>3 DEF Record
      <3>5. /\ new.state = "absent" <=> new.revision = 0
            /\ Store!Exists(new) => new.content \in Bodies /\ new.channel # NoChannel
            /\ new.channel \in (1..opened) \union {NoChannel}
        BY <3>4 DEF IInv, RowIsSound, PlacesAreKnown, Store!Exists
      <3>6. Bounded'
        BY <2>1, BoundsKept
      <3>7. QED
        BY <2>1, <2>2, <3>2, <3>4, <3>5, <3>6, OthersWrite
    <2>5. QED
      BY <2>1, <2>3, <2>4
  <1>5. QED
    BY <1>2, <1>3, <1>4 DEF Worker

LEMMA ConfigureStep ==
    ASSUME IInv, Configure
    PROVE  IInv'
  <1>1. /\ settings' \in Settings /\ Change /\ faults' = faults
        /\ UNCHANGED <<armed, rows, channels, named, opened, posts, posted, worker, refresh,
                       moved>>
    BY DEF Configure, discord
  <1>2. Bounded'
    BY <1>1, BoundsKept
  <1>3. TypeOK'
    BY <1>1, <1>2 DEF IInv, TypeOK
  <1>4. QED
    BY <1>1, <1>3 DEF IInv, RowIsSound, PlacesAreKnown, ArmedIsAssigned, TrapIsSound,
                      VerificationIsSound

LEMMA CrashStep ==
    ASSUME IInv, Crash
    PROVE  IInv'
  <1>1. /\ armed' = NoChannel /\ refresh' = IdleRefresh
        /\ worker' = [k \in Keys |-> IdleWorker] /\ Fault
        /\ UNCHANGED <<settings, rows, channels, named, opened, posts, posted, moved, changes>>
    BY DEF Crash, discord
  <1>2. worker' \in [Keys -> Jobs] /\ Bounded'
    BY <1>1, IdleJob, BoundsKept
  <1>3. TypeOK'
    BY <1>1, <1>2, IdleSound DEF IInv, TypeOK
  <1>4. ArmedIsAssigned'
    BY <1>1, StateFacts DEF ArmedIsAssigned
  <1>5. (\A k \in Keys : RowIsSound(k)') /\ PlacesAreKnown'
    BY <1>1 DEF IInv, RowIsSound, PlacesAreKnown
  <1>6. QED
    BY <1>1, <1>3, <1>4, <1>5, IdleSound DEF IInv

LEMMA StutterStep ==
    ASSUME IInv, UNCHANGED vars
    PROVE  IInv'
  BY DEF vars, IInv, TypeOK, Bounded, RowIsSound, PlacesAreKnown, ArmedIsAssigned,
         TrapIsSound, VerificationIsSound

LEMMA RefreshSteps ==
    ASSUME IInv, StartRefresh \/ RefreshStep
    PROVE  IInv'
  BY StartStep, ReadSettingsStep, GetWarningStep, ListChannelsStep, CreateChannelStep,
     EditChannelStep, DeleteDuplicateStep, TrapRepairedStep, PublishWarningStep, ArmStep,
     PruneSteps, ReadVerificationStep, WriteVerificationStep DEF RefreshStep

LEMMA SecuritySteps ==
    ASSUME IInv, Step
    PROVE  IInv'
  BY RefreshSteps, WorkerSteps, ConfigureStep, ClientSteps, ModeratorSteps,
     CallFailsStep DEF Step

\* A message that is there at the start.
LEMMA InsertedType ==
    ASSUME NEW row, NEW text \in Texts, row = Store!InsertedRow(1, UserMessage(text))
    PROVE  /\ row \in Record /\ row.state = "pending" /\ row.revision > 0
           /\ row.channel = 1 /\ row.content \in Bodies /\ row.message = 0
  <1>1. UserMessage(text) \in Bodies /\ 1 \in ChannelIds \union {NoChannel}
    BY SecurityAssumption DEF UserMessage, Bodies, ChannelIds
  <1>2. row = Published(Store!AbsentRow, 1, UserMessage(text))
    BY AbsentType DEF Published, Store!Exists
  <1>3. ~Store!Exists(Store!AbsentRow)
    BY AbsentType DEF Store!Exists
  <1>4. QED
    BY <1>1, <1>2, <1>3, AbsentType, PublishedType

LEMMA InitSatisfies ==
    ASSUME Init
    PROVE  /\ IInv /\ rows[Verification].message = 0 /\ rows[Verification].revision \in Nat
  <1>1. PICK text : text = CHOOSE t \in Texts : TRUE
    OBVIOUS
  <1>2. text \in Texts
    BY <1>1, SecurityAssumption
  <1>3. PICK row \in {Store!AbsentRow, Store!InsertedRow(1, UserMessage(text))} :
            rows = [k \in Keys |-> IF k = Trap THEN Store!AbsentRow ELSE row]
    BY <1>1 DEF Init
  <1>4. rows[Trap] = Store!AbsentRow /\ rows[Verification] = row
    BY <1>3, Values
  <1>5. \/ row = Store!AbsentRow
        \/ /\ row \in Record /\ row.state = "pending" /\ row.revision > 0
           /\ row.channel = 1 /\ row.content \in Bodies /\ row.message = 0
    BY <1>2, <1>3, InsertedType
  <1>6. /\ armed = NoChannel /\ channels = 1..Ordinary /\ named = {} /\ opened = Ordinary
        /\ posts = {} /\ posted = [k \in Keys |-> 0]
        /\ worker = [k \in Keys |-> IdleWorker] /\ refresh = IdleRefresh
        /\ moved = "no" /\ changes = 0 /\ faults = 0 /\ settings \in Settings
    BY DEF Init
  <1>7. row \in Record /\ row.message = 0 /\ row.revision \in Nat
    BY <1>5, AbsentType DEF Record
  <1>8. rows \in [Keys -> Record]
    BY <1>3, <1>7, AbsentType
  <1>9. worker \in [Keys -> Jobs] /\ posted \in [Keys -> Nat] /\ posts \subseteq Posts
    BY <1>6, IdleJob
  <1>10. /\ opened \in Ordinary..MaxChannels /\ channels \subseteq 1..opened
         /\ 1 \in 1..opened /\ 1 # NoChannel
    BY <1>6, SecurityAssumption
  <1>11. Bounded
    BY <1>6, Values DEF Bounded
  <1>12. TypeOK
    BY <1>6, <1>8, <1>9, <1>10, <1>11, IdleType DEF TypeOK
  <1>13. \A k \in Keys : RowIsSound(k)
    BY <1>4, <1>5, AbsentType DEF RowIsSound, Store!Exists, Keys
  <1>14. PlacesAreKnown
    BY <1>4, <1>5, <1>10, AbsentType DEF PlacesAreKnown, Store!Exists, Keys
  <1>15. ArmedIsAssigned /\ TrapIsSound /\ VerificationIsSound
    BY <1>6, <1>10, Values, IdleType, SecurityAssumption
       DEF ArmedIsAssigned, TrapIsSound, VerificationIsSound
  <1>16. QED
    BY <1>4, <1>7, <1>12, <1>13, <1>14, <1>15 DEF IInv

\* Whatever calls fail, restart or overtake one another, and whatever clients do to
\* either message meanwhile: what a Refresh has chosen and read is what it acts on,
\* until a client moves the warning.
THEOREM Invariance == Spec => []IInv
  <1>1. Init => IInv
    BY InitSatisfies
  <1>2. IInv /\ [Next]_vars => IInv'
    BY SecuritySteps, CrashStep, StutterStep DEF Next
  <1>3. QED
    BY <1>1, <1>2, PTL DEF Spec

\* Authors are only banned in the channel the warning is assigned to, from the
\* start and again from the first Refresh that has followed a client's move.
THEOREM ArmedAssigned == Spec => []ArmedIsAssigned
  <1>1. IInv => ArmedIsAssigned
    BY DEF IInv
  <1>2. QED
    BY <1>1, Invariance, PTL

\* Refresh deletes no channel that the warning has been assigned to since it was
\* read, though the listing and the record may be stale.
THEOREM CanonicalKept == Spec => CanonicalIsKept
  <1>1. ASSUME IInv, [Next]_vars
        PROVE  refresh' # refresh /\ faults' = faults /\ moved # "yes" =>
                   rows[Trap].channel \notin channels \ channels'
    <2>1. SUFFICES ASSUME refresh' # refresh, faults' = faults, moved # "yes",
                          ~(channels \subseteq channels')
                   PROVE  rows[Trap].channel \notin channels \ channels'
      OBVIOUS
    <2>2. faults \in Nat
      BY <1>1, StateFacts DEF Bounded
    <2>3. DeleteDuplicate
      BY <1>1, <2>1, <2>2
         DEF Next, Step, StartRefresh, RefreshStep, ReadSettings, GetWarning, ListChannels,
             CreateChannel, EditChannel, TrapRepaired, PublishWarning, Arm,
             ReconcileWarning, ConfirmWarning, ListWarnings, DeleteWarning,
             ReadVerification, WriteVerification, Worker, WorkerClaims, WorkerCreates,
             WorkerStores, Configure, Client, EditMessage, AssignMessage, WriteMessage,
             ArchiveMessage, ChannelDeleted, ChannelAdded, ChannelRenamed, PostDeleted,
             CallFails, Crash, Opens, Fault, discord, vars
    <2>4. /\ channels' = channels \ {First(refresh.seen)} \/ channels' = channels
          /\ refresh.seen # {}
      BY <2>3 DEF DeleteDuplicate, Closes
    <2>5. First(refresh.seen) \in refresh.seen
      BY <1>1, <2>4, StateFacts, FirstFacts
    <2>6. /\ rows[Trap].channel \notin channels \ {refresh.trap}
          /\ refresh.trap \notin refresh.seen
      BY <1>1, <2>1, <2>3 DEF DeleteDuplicate, At, IInv, TrapIsSound
    <2>7. QED
      BY <2>4, <2>5, <2>6
  <1>2. QED
    BY <1>1, Invariance, PTL DEF Spec, CanonicalIsKept

\* Who writes rows.
LEMMA RowsWritten ==
    ASSUME [Next]_vars
    PROVE  \/ rows' = rows
           \/ PublishWarning \/ WriteVerification
           \/ \E k \in Keys : WorkerStores(k) \/ Client(k)
  <1>1. CASE StartRefresh \/ RefreshStep
    BY <1>1 DEF StartRefresh, RefreshStep, ReadSettings, GetWarning, ListChannels,
                CreateChannel, EditChannel, DeleteDuplicate, TrapRepaired, Arm,
                ReconcileWarning, ConfirmWarning, ListWarnings, DeleteWarning,
                ReadVerification
  <1>2. ASSUME NEW k \in Keys, Worker(k)
        PROVE  rows' = rows \/ WorkerStores(k)
    BY <1>2 DEF Worker, WorkerClaims, WorkerCreates
  <1>3. CASE \/ Configure \/ ChannelDeleted \/ ChannelAdded \/ ChannelRenamed
             \/ PostDeleted \/ CallFails \/ Crash \/ UNCHANGED vars
    BY <1>3 DEF Configure, ChannelDeleted, ChannelAdded, ChannelRenamed, PostDeleted,
                CallFails, Crash, vars
  <1>4. QED
    BY <1>1, <1>2, <1>3 DEF Next, Step

\* Only a client's operation changes what the verification message says.
THEOREM UserTextKept == Spec => UserTextIsKept
  <1>1. ASSUME IInv, [Next]_vars
        PROVE  Store!Exists(rows[Verification]) /\ changes' = changes =>
                   rows'[Verification].content.text = rows[Verification].content.text
    <2>1. SUFFICES ASSUME Store!Exists(rows[Verification]), changes' = changes,
                          rows'[Verification].content # rows[Verification].content
                   PROVE  rows'[Verification].content.text = rows[Verification].content.text
      OBVIOUS
    <2>2. changes \in Nat
      BY <1>1, StateFacts DEF Bounded
    <2>3. rows \in [Keys -> Record] /\ Trap # Verification /\ Verification \in Keys
      BY <1>1, StateFacts, Values
    <2>4. \A k \in Keys : ~WorkerStores(k)
      <3>1. ASSUME NEW k \in Keys, WorkerStores(k)
            PROVE  rows'[Verification].content = rows[Verification].content
        <4>1. rows[k] \in Record /\ rows[Verification] \in Record
          BY <2>3
        <4>2. CASE rows' = [rows EXCEPT ![k].message = worker[k].message]
          BY <2>3, <4>1, <4>2 DEF Record
        <4>3. QED
          BY <3>1, <4>2 DEF WorkerStores
      <3>2. QED
        BY <2>1, <3>1
    <2>5. WriteVerification
      <3>1. ~PublishWarning
        BY <2>1, <2>3 DEF PublishWarning
      <3>2. ASSUME NEW k \in Keys
            PROVE  ~Client(k)
        BY <2>1, <2>2 DEF Client, EditMessage, AssignMessage, WriteMessage, ArchiveMessage,
                          Change
      <3>3. QED
        BY <1>1, <2>1, <2>4, <3>1, <3>2, RowsWritten
    <2>6. PICK record, row, content :
            /\ record = refresh.record /\ row = rows[Verification]
            /\ content = WithVerificationButton(record.content)
      OBVIOUS
    <2>7. /\ rows'[Verification] = Published(row, refresh.config.channel, content)
          /\ ~Conflict(record, row) /\ refresh.step = "write"
      BY <2>1, <2>3, <2>5, <2>6 DEF WriteVerification, At, Place
    <2>8. /\ Usable(record) /\ record.content \in Bodies
          /\ record.revision = row.revision => record.content = row.content
          /\ refresh.config.channel \in Places
      BY <1>1, <2>6, <2>7, StateFacts
         DEF IInv, VerificationIsSound, VerificationReady, Settings
    <2>9. record.revision = row.revision
      BY <2>7, <2>8 DEF Conflict, Usable, Store!Markable
    <2>10. content \in Bodies /\ content.text = record.content.text
      BY <2>6, <2>8 DEF WithVerificationButton, Bodies
    <2>11. rows'[Verification].content = content
      <3>1. row \in Record /\ refresh.config.channel \in ChannelIds \union {NoChannel}
        BY <1>1, <2>6, <2>8, StateFacts, Values
      <3>2. QED
        BY <2>7, <2>10, <3>1, PublishedType
    <2>12. QED
      BY <2>6, <2>8, <2>9, <2>10, <2>11
  <1>2. QED
    BY <1>1, Invariance, PTL DEF Spec, UserTextIsKept

-----------------------------------------------------------------------------
(* What the rest of Security does under the handlers' feet.                *)

\* Neither the managed message nor about to be.
Forgotten(channel, message) == ~Current(channel, message) /\ ~Pending(channel, message)

\* Ids of the verification's messages that a press may name.
Pressed == (1..posted[Verification]) \union {Copy}

LEMMA BoardFacts ==
    ASSUME IInv, BoardIsKnown
    PROVE  /\ rows \in [Keys -> Record] /\ worker \in [Keys -> Jobs]
           /\ posted \in [Keys -> Nat] /\ Verification \in Keys /\ Trap # Verification
           /\ rows[Verification] \in Record /\ rows[Verification].revision \in Nat
           /\ worker[Verification] \in Jobs /\ worker[Verification].revision \in Nat
           /\ worker[Verification].message \in Nat
           /\ posted[Verification] \in Nat /\ MaxBoards \in Nat
           /\ posted[Verification] <= MaxBoards /\ Store!NoMessage = 0
           /\ MaxPosts(Verification) = MaxBoards
           /\ IdleWorker.revision = 0 /\ IdleWorker.message = 0
  <1>1. /\ rows \in [Keys -> Record] /\ worker \in [Keys -> Jobs]
        /\ posted \in [Keys -> Nat] /\ Verification \in Keys /\ Trap # Verification
        /\ MaxBoards \in Nat
    BY StateFacts, Values
  <1>2. rows[Verification] \in Record /\ worker[Verification] \in Jobs
    BY <1>1
  <1>3. /\ rows[Verification].revision \in Nat /\ worker[Verification].revision \in Nat
        /\ worker[Verification].message \in Nat
    BY <1>2 DEF Record, Jobs
  <1>4. QED
    BY <1>1, <1>2, <1>3, IdleJob DEF BoardIsKnown, Store!NoMessage, MaxPosts

\* A step that leaves the row alone, and the job too unless it ends.
LEMMA BoardStays ==
    ASSUME IInv, BoardIsKnown,
           rows'[Verification] = rows[Verification],
           worker'[Verification] \in {worker[Verification], IdleWorker},
           posted'[Verification] = posted[Verification],
           \A post \in posts' : post.key = Verification => post \in posts
    PROVE  /\ BoardIsKnown' /\ Pressed' = Pressed
           /\ \A m \in Pressed : \A c : Forgotten(c, m) => Forgotten(c, m)'
  <1>1. BoardIsKnown' /\ Pressed' = Pressed
    BY BoardFacts DEF BoardIsKnown, Pressed, Copy
  <1>2. 0 \notin Pressed
    BY BoardFacts DEF Pressed, Copy
  <1>3. ASSUME NEW c, NEW m \in Pressed, Forgotten(c, m)
        PROVE  Forgotten(c, m)'
    BY <1>2, <1>3, BoardFacts DEF Forgotten, Current, Pending
  <1>4. QED
    BY <1>1, <1>3

\* A write raises the revision, and forgets the message of a row that moves, of one
\* that is archived and of one that is new.
LEMMA BoardWritten ==
    ASSUME IInv, BoardIsKnown, NEW new \in Record, rows'[Verification] = new,
           new.revision > rows[Verification].revision,
           \/ ~Usable(new)
           \/ new.message = 0
           \/ /\ new.message = rows[Verification].message
              /\ new.channel = rows[Verification].channel
              /\ Usable(rows[Verification]),
           UNCHANGED <<worker, posts, posted>>
    PROVE  /\ BoardIsKnown' /\ Pressed' = Pressed
           /\ \A m \in Pressed : \A c : Forgotten(c, m) => Forgotten(c, m)'
  <1>1. /\ new.revision \in Nat /\ worker[Verification].revision < new.revision
        /\ rows[Verification].revision \in Nat
    BY BoardFacts DEF Record, BoardIsKnown
  <1>2. BoardIsKnown' /\ Pressed' = Pressed
    BY <1>1, BoardFacts DEF BoardIsKnown, Pressed, Copy
  <1>3. 0 \notin Pressed
    BY BoardFacts DEF Pressed, Copy
  <1>4. ASSUME NEW c, NEW m \in Pressed, Forgotten(c, m)
        PROVE  Forgotten(c, m)'
    <2>1. ~Current(c, m)'
      BY <1>3, <1>4 DEF Forgotten, Current
    <2>2. ~Pending(c, m)'
      BY <1>1, BoardFacts DEF Pending
    <2>3. QED
      BY <2>1, <2>2 DEF Forgotten
  <1>5. QED
    BY <1>2, <1>4

LEMMA BoardPublished ==
    ASSUME IInv, BoardIsKnown, NEW channel \in ChannelIds, NEW content \in Bodies,
           rows'[Verification] = Published(rows[Verification], channel, content),
           ~Store!Archived(rows[Verification]),
           UNCHANGED <<worker, posts, posted>>
    PROVE  /\ BoardIsKnown' /\ Pressed' = Pressed
           /\ \A m \in Pressed : \A c : Forgotten(c, m) => Forgotten(c, m)'
  <1>1. PICK new : new = Published(rows[Verification], channel, content)
    OBVIOUS
  <1>2. /\ new \in Record /\ new.revision > 0 /\ new.channel = channel
        /\ Store!Exists(rows[Verification]) =>
               /\ new.revision = rows[Verification].revision + 1
               /\ new.message = IF channel = rows[Verification].channel
                                THEN rows[Verification].message ELSE 0
        /\ ~Store!Exists(rows[Verification]) => new.message = 0
    BY <1>1, BoardFacts, PublishedType
  <1>3. ~Store!Exists(rows[Verification]) => rows[Verification].revision = 0
    BY Values DEF IInv, RowIsSound, Store!Exists
  <1>4. new.revision > rows[Verification].revision
    BY <1>2, <1>3, BoardFacts DEF Record
  <1>5. \/ new.message = 0
        \/ /\ new.message = rows[Verification].message
           /\ new.channel = rows[Verification].channel
           /\ Usable(rows[Verification])
    BY <1>2 DEF Usable, Store!Markable
  <1>6. QED
    BY <1>1, <1>2, <1>4, <1>5, BoardWritten

LEMMA BoardOfRefresh ==
    ASSUME IInv, BoardIsKnown, WriteVerification
    PROVE  /\ BoardIsKnown' /\ Pressed' = Pressed
           /\ \A m \in Pressed : \A c : Forgotten(c, m) => Forgotten(c, m)'
  <1>1. UNCHANGED <<worker, posts, posted>>
    BY DEF WriteVerification, discord
  <1>2. CASE rows' = rows
    BY <1>1, <1>2, BoardStays
  <1>3. CASE rows' # rows
    <2>1. PICK record, content :
            /\ record = refresh.record /\ content = WithVerificationButton(record.content)
            /\ rows' = [rows EXCEPT ![Verification] =
                            Published(rows[Verification], refresh.config.channel, content)]
            /\ ~Conflict(record, rows[Verification]) /\ refresh.step = "write"
      BY <1>3 DEF WriteVerification, At, Place
    <2>2. /\ Usable(record) /\ record.content \in Bodies
          /\ refresh.config.channel \in ChannelIds
      BY <2>1, StateFacts, Values
         DEF IInv, VerificationIsSound, VerificationReady, Settings
    <2>3. content \in Bodies
      BY <2>1, <2>2 DEF WithVerificationButton, Bodies
    <2>4. ~Store!Archived(rows[Verification])
      BY <2>1, <2>2 DEF Conflict, Usable, Store!Markable
    <2>5. rows'[Verification] =
              Published(rows[Verification], refresh.config.channel, content)
      BY <2>1, BoardFacts
    <2>6. QED
      BY <1>1, <2>2, <2>3, <2>4, <2>5, BoardPublished
  <1>4. QED
    BY <1>2, <1>3

LEMMA BoardOfClient ==
    ASSUME IInv, BoardIsKnown, NEW k \in Keys, Client(k)
    PROVE  /\ BoardIsKnown' /\ Pressed' = Pressed
           /\ \A m \in Pressed : \A c : Forgotten(c, m) => Forgotten(c, m)'
  <1>1. UNCHANGED <<worker, posts, posted>>
    BY DEF Client, EditMessage, AssignMessage, WriteMessage, ArchiveMessage, discord
  <1>2. CASE k # Verification
    <2>1. rows'[Verification] = rows[Verification]
      BY <1>2, BoardFacts
         DEF Client, EditMessage, AssignMessage, WriteMessage, ArchiveMessage
    <2>2. QED
      BY <1>1, <2>1, BoardStays
  <1>3. CASE k = Verification
    <2>1. ASSUME NEW channel \in 1..opened, NEW content \in Bodies,
                 WriteMessage(Verification, channel, content)
          PROVE  /\ BoardIsKnown' /\ Pressed' = Pressed
                 /\ \A m \in Pressed : \A c : Forgotten(c, m) => Forgotten(c, m)'
      <3>1. channel \in ChannelIds
        BY StateFacts
      <3>2. /\ rows'[Verification] = Published(rows[Verification], channel, content)
            /\ ~Store!Archived(rows[Verification])
        BY <2>1, BoardFacts DEF WriteMessage
      <3>3. QED
        BY <1>1, <3>1, <3>2, BoardPublished
    <2>2. CASE \E channel \in 1..opened : EditMessage(Verification, channel)
      <3>1. PICK channel \in 1..opened, text \in Texts :
                WriteMessage(Verification, channel, UserMessage(text))
        BY <2>2 DEF EditMessage
      <3>2. UserMessage(text) \in Bodies
        BY DEF UserMessage, Bodies
      <3>3. QED
        BY <2>1, <3>1, <3>2
    <2>3. CASE \E channel \in 1..opened : AssignMessage(Verification, channel)
      <3>1. PICK channel \in 1..opened :
                /\ Store!Exists(rows[Verification])
                /\ WriteMessage(Verification, channel, rows[Verification].content)
        BY <2>3 DEF AssignMessage
      <3>2. rows[Verification].content \in Bodies
        BY <3>1, Values DEF IInv, RowIsSound
      <3>3. QED
        BY <2>1, <3>1, <3>2
    <2>4. CASE ArchiveMessage(Verification)
      <3>1. PICK new : new = Store!ArchivedRow(rows[Verification])
        OBVIOUS
      <3>2. rows'[Verification] = new
        BY <2>4, <3>1, BoardFacts DEF ArchiveMessage
      <3>3. /\ new \in Record /\ new.state = "archived"
            /\ new.revision = rows[Verification].revision + 1
        BY <3>1, BoardFacts, ArchivedType
      <3>4. new.revision > rows[Verification].revision /\ ~Usable(new)
        BY <3>3, BoardFacts DEF Usable, Store!Markable, Store!Archived
      <3>5. QED
        BY <1>1, <3>2, <3>3, <3>4, BoardWritten
    <2>5. QED
      BY <1>3, <2>2, <2>3, <2>4 DEF Client
  <1>4. QED
    BY <1>2, <1>3

\* A job claims the row as it is, posts under an id nobody has pressed, and stores
\* it only in the revision it has claimed.
LEMMA BoardOfWorker ==
    ASSUME IInv, BoardIsKnown, Worker(Verification)
    PROVE  /\ BoardIsKnown' /\ Pressed \subseteq Pressed'
           /\ \A m \in Pressed : \A c : Forgotten(c, m) => Forgotten(c, m)'
  <1> DEFINE row == rows[Verification]
             job == worker[Verification]
             count == posted[Verification]
  <1>1. \A m \in Pressed : m # 0 /\ (count < MaxBoards => m # count + 1)
    BY BoardFacts DEF Pressed, Copy
  <1>2. CASE WorkerClaims(Verification)
    <2>1. /\ count < MaxBoards /\ UNCHANGED <<rows, posts, posted>>
          /\ worker'[Verification].revision = row.revision
          /\ worker'[Verification].channel = row.channel
          /\ worker'[Verification].message = 0
      BY <1>2, BoardFacts DEF WorkerClaims, discord
    <2>2. BoardIsKnown' /\ Pressed' = Pressed
      BY <2>1, BoardFacts DEF BoardIsKnown, Pressed, Copy
    <2>3. ASSUME NEW c, NEW m \in Pressed, Forgotten(c, m)
          PROVE  Forgotten(c, m)'
      BY <1>1, <2>1, <2>3 DEF Forgotten, Current, Pending
    <2>4. QED
      BY <2>2, <2>3
  <1>3. CASE WorkerCreates(Verification) /\ UNCHANGED <<posts, posted>>
    <2>1. rows' = rows /\ worker'[Verification] \in {job, IdleWorker}
      <3>1. \/ worker' = [worker EXCEPT ![Verification] = IdleWorker]
            \/ posted' = [posted EXCEPT ![Verification] = count + 1]
        BY <1>3 DEF WorkerCreates
      <3>2. posted'[Verification] = count
        BY <1>3
      <3>3. worker' = [worker EXCEPT ![Verification] = IdleWorker]
        BY <3>1, <3>2, BoardFacts
      <3>4. QED
        BY <1>3, <3>3, BoardFacts DEF WorkerCreates
    <2>2. QED
      BY <1>3, <2>1, BoardStays
  <1>4. CASE WorkerCreates(Verification) /\ ~UNCHANGED <<posts, posted>>
    <2>1. /\ job.revision # 0 /\ job.message = 0 /\ rows' = rows
          /\ posted' = [posted EXCEPT ![Verification] = count + 1]
          /\ posts' = posts \union
                {[key |-> Verification, id |-> count + 1, channel |-> job.channel]}
          /\ worker' = [worker EXCEPT ![Verification].message = count + 1]
      BY <1>4, BoardFacts DEF WorkerCreates
    <2>2. /\ posted'[Verification] = count + 1 /\ count < MaxBoards /\ count + 1 \in Nat
          /\ worker'[Verification].message = count + 1
          /\ worker'[Verification].revision = job.revision
          /\ worker'[Verification].channel = job.channel
      BY <2>1, BoardFacts DEF BoardIsKnown, Jobs
    <2>3. Pressed \subseteq Pressed'
      BY <2>2, BoardFacts DEF Pressed, Copy
    <2>4. \A post \in posts' : post.key = Verification => post.id <= posted'[Verification]
      <3>1. ASSUME NEW post \in posts, post.key = Verification
            PROVE  post.id <= count + 1
        <4>1. post.id \in Nat /\ post.id <= count
          BY <3>1, StateFacts DEF Posts, BoardIsKnown
        <4>2. QED
          BY <4>1, BoardFacts
      <3>2. QED
        BY <2>1, <2>2, <3>1
    <2>5. BoardIsKnown'
      BY <2>1, <2>2, <2>4, BoardFacts DEF BoardIsKnown
    <2>6. ASSUME NEW c, NEW m \in Pressed, Forgotten(c, m)
          PROVE  Forgotten(c, m)'
      BY <1>1, <2>1, <2>2, <2>6 DEF Forgotten, Current, Pending
    <2>7. QED
      BY <2>3, <2>5, <2>6
  <1>5. CASE WorkerStores(Verification) /\ rows' = rows
    <2>1. posts' \subseteq posts /\ posted' = posted /\ worker'[Verification] = IdleWorker
      BY <1>5, BoardFacts DEF WorkerStores
    <2>2. QED
      BY <1>5, <2>1, BoardStays
  <1>6. CASE WorkerStores(Verification) /\ rows' # rows
    <2>1. /\ row.revision = job.revision /\ job.message # 0
          /\ rows' = [rows EXCEPT ![Verification].message = job.message]
          /\ worker' = [worker EXCEPT ![Verification] = IdleWorker]
          /\ UNCHANGED <<posts, posted>>
      BY <1>6, BoardFacts DEF WorkerStores
    <2>2. /\ rows'[Verification].message = job.message
          /\ rows'[Verification].revision = row.revision
          /\ rows'[Verification].channel = row.channel
          /\ rows'[Verification].state = row.state
          /\ worker'[Verification] = IdleWorker
      BY <2>1, BoardFacts DEF Record
    <2>3. BoardIsKnown' /\ Pressed' = Pressed
      BY <2>1, <2>2, BoardFacts DEF BoardIsKnown, Pressed, Copy
    <2>4. Usable(row) => job.channel = row.channel
      <3>1. Usable(row) => row.revision # 0
        BY Values DEF IInv, RowIsSound, Usable, Store!Markable, Store!Exists
      <3>2. QED
        BY <2>1, <3>1 DEF BoardIsKnown
    <2>5. Usable(rows'[Verification]) => Usable(row)
      BY <2>2 DEF Usable, Store!Markable, Store!Exists, Store!Archived
    <2>6. ASSUME NEW c, NEW m \in Pressed, Forgotten(c, m)
          PROVE  Forgotten(c, m)'
      <3>1. ~Current(c, m)'
        BY <2>1, <2>2, <2>4, <2>5, <2>6 DEF Forgotten, Current, Pending
      <3>2. ~Pending(c, m)'
        BY <1>1, <2>2, BoardFacts DEF Pending
      <3>3. QED
        BY <3>1, <3>2 DEF Forgotten
    <2>7. QED
      BY <2>3, <2>6
  <1>7. QED
    BY <1>2, <1>3, <1>4, <1>5, <1>6 DEF Worker

LEMMA BoardOfOthers ==
    ASSUME IInv, BoardIsKnown, Worker(Trap)
    PROVE  /\ BoardIsKnown' /\ Pressed' = Pressed
           /\ \A m \in Pressed : \A c : Forgotten(c, m) => Forgotten(c, m)'
  <1>1. /\ rows'[Verification] = rows[Verification]
        /\ worker'[Verification] = worker[Verification]
        /\ posted'[Verification] = posted[Verification]
    BY BoardFacts DEF Worker, WorkerClaims, WorkerCreates, WorkerStores, discord
  <1>2. \A post \in posts' : post.key = Verification => post \in posts
    BY BoardFacts DEF Worker, WorkerClaims, WorkerCreates, WorkerStores, discord
  <1>3. QED
    BY <1>1, <1>2, BoardStays

LEMMA BoardKept ==
    ASSUME IInv, BoardIsKnown, Step \/ Crash
    PROVE  /\ BoardIsKnown' /\ Pressed \subseteq Pressed'
           /\ \A m \in Pressed : \A c : Forgotten(c, m) => Forgotten(c, m)'
  <1>1. CASE WriteVerification
    BY <1>1, BoardOfRefresh
  <1>2. ASSUME NEW k \in Keys, Worker(k) \/ Client(k)
        PROVE  /\ BoardIsKnown' /\ Pressed \subseteq Pressed'
               /\ \A m \in Pressed : \A c : Forgotten(c, m) => Forgotten(c, m)'
    BY <1>2, BoardOfClient, BoardOfWorker, BoardOfOthers DEF Keys
  <1>3. CASE /\ StartRefresh \/ RefreshStep
             /\ ~WriteVerification
    <2>1. /\ worker' = worker /\ posted' = posted /\ posts' \subseteq posts
          /\ rows' = rows \/ PublishWarning
      BY <1>3 DEF StartRefresh, RefreshStep, ReadSettings, GetWarning, ListChannels,
                  CreateChannel, EditChannel, DeleteDuplicate, Closes, TrapRepaired,
                  PublishWarning, Arm, ReconcileWarning, ConfirmWarning, ListWarnings,
                  DeleteWarning, ReadVerification, discord
    <2>2. rows'[Verification] = rows[Verification]
      BY <2>1, BoardFacts DEF PublishWarning
    <2>3. QED
      BY <2>1, <2>2, BoardStays
  <1>4. CASE \/ Configure \/ ChannelDeleted \/ ChannelAdded \/ ChannelRenamed
             \/ PostDeleted \/ CallFails
    <2>1. rows' = rows /\ worker' = worker /\ posted' = posted /\ posts' \subseteq posts
      BY <1>4 DEF Configure, ChannelDeleted, Closes, ChannelAdded, ChannelRenamed,
                  PostDeleted, CallFails, discord
    <2>2. QED
      BY <2>1, BoardStays
  <1>5. CASE Crash
    <2>1. /\ rows' = rows /\ worker'[Verification] = IdleWorker /\ posted' = posted
          /\ posts' = posts
      BY <1>5, BoardFacts DEF Crash, discord
    <2>2. QED
      BY <2>1, BoardStays
  <1>6. QED
    BY <1>1, <1>2, <1>3, <1>4, <1>5 DEF Step

\* The steps of Refresh between the settings and the arming.
Arming == {"get", "list", "open", "edit", "clean", "publish", "arm"}

\* A trap that is seen disabled stays disarmed, and no Refresh is about to arm it.
LEMMA QuietKept ==
    ASSUME IInv, QuietIsSound, Step \/ Crash, quiet \/ SettingsRead, ~settings'.antibot
    PROVE  armed' = NoChannel /\ refresh'.step \notin Arming
  <1>1. /\ refresh \in RefreshRecord /\ faults \in Nat
        /\ refresh.config \in Settings /\ settings \in Settings
    BY StateFacts DEF Bounded
  <1>2. ASSUME NEW config \in Settings, AfterTrap(config)
        PROVE  refresh'.step \notin Arming
    BY <1>2, AfterTrapSound DEF Arming
  <1>3. ASSUME ReadSettings, ~settings.antibot
        PROVE  armed' = NoChannel /\ refresh'.step \notin Arming
    BY <1>1, <1>2, <1>3 DEF ReadSettings, Disarmed
  <1>4. CASE ~quiet
    <2>1. At("settings") /\ refresh' # refresh /\ faults' = faults
      BY <1>4 DEF SettingsRead
    <2>2. ReadSettings
      <3>1. ~Crash /\ ~CallFails
        BY <1>1, <2>1 DEF Crash, CallFails, Fault
      <3>2. \A k \in Keys : ~Worker(k) /\ ~Client(k)
        BY <2>1 DEF Worker, WorkerClaims, WorkerCreates, WorkerStores, Client, EditMessage,
                    AssignMessage, WriteMessage, ArchiveMessage
      <3>3. /\ ~Configure /\ ~ChannelDeleted /\ ~ChannelAdded /\ ~ChannelRenamed
            /\ ~PostDeleted
        BY <2>1 DEF Configure, ChannelDeleted, ChannelAdded, ChannelRenamed, PostDeleted
      <3>4. QED
        BY <2>1, <3>1, <3>2, <3>3
           DEF At, Step, StartRefresh, RefreshStep, GetWarning, ListChannels,
               CreateChannel, EditChannel, DeleteDuplicate, TrapRepaired, PublishWarning,
               Arm, ReconcileWarning, ConfirmWarning, ListWarnings, DeleteWarning,
               ReadVerification, WriteVerification
    <2>3. QED
      BY <1>3, <2>2 DEF ReadSettings
  <1>5. CASE quiet
    <2>1. ~settings.antibot /\ armed = NoChannel /\ refresh.step \notin Arming
      BY <1>5 DEF QuietIsSound, Arming
    <2>2. CASE refresh' = refresh /\ armed' = armed
      BY <2>1, <2>2
    <2>3. CASE ReadSettings
      BY <1>3, <2>1, <2>3
    <2>4. CASE StartRefresh
      BY <2>1, <2>4, IdleType DEF StartRefresh, RefreshRecord, Arming
    <2>5. CASE Crash
      BY <2>5, IdleType DEF Crash, Arming
    <2>6. CASE CallFails
      BY <1>1, <1>2, <2>1, <2>6, IdleType DEF CallFails, Arming
    <2>7. CASE ReconcileWarning \/ ConfirmWarning
      BY <1>1, <1>2, <2>1, <2>7
         DEF ReconcileWarning, ConfirmWarning, Goes, RefreshRecord, Arming
    <2>8. CASE ListWarnings \/ DeleteWarning
      <3>1. armed' = armed
        BY <2>8 DEF ListWarnings, DeleteWarning
      <3>2. refresh'.step \notin Arming
        <4>1. CASE AfterTrap(refresh.config)
          BY <1>1, <1>2, <4>1
        <4>2. CASE ~AfterTrap(refresh.config)
          BY <1>1, <2>1, <2>8, <4>2 DEF ListWarnings, DeleteWarning, RefreshRecord, Arming
        <4>3. QED
          BY <4>1, <4>2
      <3>3. QED
        BY <2>1, <3>1, <3>2
    <2>9. CASE ReadVerification \/ WriteVerification
      BY <1>1, <2>1, <2>9, IdleType
         DEF ReadVerification, WriteVerification, RefreshRecord, Arming
    <2>10. ASSUME NEW k \in Keys, Worker(k) \/ Client(k)
           PROVE  refresh' = refresh /\ armed' = armed
      BY <2>10 DEF Worker, WorkerClaims, WorkerCreates, WorkerStores, Client, EditMessage,
                   AssignMessage, WriteMessage, ArchiveMessage
    <2>11. CASE \/ Configure \/ ChannelDeleted \/ ChannelAdded \/ ChannelRenamed
                \/ PostDeleted
      BY <2>2, <2>11
         DEF Configure, ChannelDeleted, ChannelAdded, ChannelRenamed, PostDeleted
    <2>12. CASE \/ GetWarning \/ ListChannels \/ CreateChannel \/ EditChannel
                \/ DeleteDuplicate \/ TrapRepaired \/ PublishWarning \/ Arm
      BY <2>1, <2>12
         DEF At, GetWarning, ListChannels, CreateChannel, EditChannel, DeleteDuplicate,
             TrapRepaired, PublishWarning, Arm, Arming
    <2>13. QED
      BY <2>2, <2>3, <2>4, <2>5, <2>6, <2>7, <2>8, <2>9, <2>10, <2>11, <2>12
         DEF Step, RefreshStep
  <1>6. QED
    BY <1>4, <1>5

-----------------------------------------------------------------------------
(* The inductive invariant of the handlers.                                *)

LEMMA HandlerFacts ==
    ASSUME HandlersInv
    PROVE  /\ press \in PressRecord /\ event \in EventRecord /\ quiet \in BOOLEAN
           /\ Pressed \subseteq 0..Copy
           /\ press.step # "idle" => press.message \in Pressed
           /\ press.step # "idle" /\ press.stale => Forgotten(press.channel, press.message)
           /\ Copy \in Nat
  BY BoardFacts
     DEF HandlersInv, HandlersTypeOK, PressIsSound, Pressed, Forgotten, Copy

\* What goes on around a press, by the message it names.
LEMMA PressGoesOn ==
    ASSUME HandlersInv, Step \/ Crash, press'.message = press.message,
           press'.channel = press.channel, press'.step = press.step,
           press'.stale = press.stale, press.configured => press'.configured,
           press.step # "idle" /\ settings'.channel = press.channel => press'.configured
    PROVE  PressIsSound'
  <1>1. /\ Pressed \subseteq Pressed'
        /\ \A m \in Pressed : \A c : Forgotten(c, m) => Forgotten(c, m)'
    BY BoardKept DEF HandlersInv
  <1>2. PICK c, m : c = press.channel /\ m = press.message
    OBVIOUS
  <1>3. press.step # "idle" => m \in Pressed'
    BY <1>1, <1>2, HandlerFacts
  <1>4. press.step # "idle" /\ press.stale => Forgotten(c, m)'
    BY <1>1, <1>2, HandlerFacts
  <1>5. QED
    BY <1>2, <1>3, <1>4 DEF HandlersInv, PressIsSound, Pressed, Forgotten, Copy

LEMMA SecurityStepInv ==
    ASSUME HandlersInv, SecurityStep,
           quiet' = (~settings'.antibot /\ (quiet \/ SettingsRead))
    PROVE  HandlersInv'
  <1>1. IInv' /\ BoardIsKnown'
    BY SecuritySteps, BoardKept DEF HandlersInv, SecurityStep
  <1>2. /\ Step
        /\ event' = [event EXCEPT !.during = @ /\ ~settings'.antibot]
        /\ press' = [press EXCEPT !.configured =
                        @ \/ (press.step # "idle" /\ settings'.channel = press.channel)]
    BY DEF SecurityStep
  <1>3. /\ event' \in EventRecord /\ event'.step = event.step
        /\ event'.during => event.during
    BY <1>2, HandlerFacts DEF EventRecord
  <1>4. /\ press' \in PressRecord
        /\ press'.step = press.step /\ press'.channel = press.channel
        /\ press'.message = press.message /\ press'.stale = press.stale
        /\ press.configured => press'.configured
        /\ press.step # "idle" /\ settings'.channel = press.channel => press'.configured
    BY <1>2, HandlerFacts DEF PressRecord
  <1>5. HandlersTypeOK'
    BY <1>3, <1>4, HandlerFacts DEF HandlersTypeOK
  <1>6. PressIsSound'
    BY <1>2, <1>4, PressGoesOn
  <1>7. QuietIsSound'
    BY <1>2, <1>3, QuietKept DEF HandlersInv, QuietIsSound, Arming
  <1>8. QED
    BY <1>1, <1>5, <1>6, <1>7 DEF HandlersInv

LEMMA IdleTypes ==
    /\ IdlePress \in PressRecord /\ IdlePress.step = "idle"
    /\ IdleEvent \in EventRecord /\ IdleEvent.step = "idle"
  <1>1. 0 \in 0..Copy
    BY Values DEF Copy
  <1>2. QED
    BY <1>1, SecurityHandlersAssumption DEF IdlePress, IdleEvent, PressRecord, EventRecord

LEMMA CrashInv ==
    ASSUME HandlersInv, CrashWithHandlers,
           quiet' = (~settings'.antibot /\ (quiet \/ SettingsRead))
    PROVE  HandlersInv'
  <1>1. Crash /\ press' = IdlePress /\ event' = IdleEvent
    BY DEF CrashWithHandlers
  <1>2. /\ press' \in PressRecord /\ press'.step = "idle"
        /\ event' \in EventRecord /\ event'.step = "idle"
    BY <1>1, IdleTypes
  <1>3. IInv' /\ BoardIsKnown'
    BY <1>1, CrashStep, BoardKept DEF HandlersInv
  <1>4. HandlersTypeOK'
    BY <1>2, HandlerFacts DEF HandlersTypeOK
  <1>5. PressIsSound'
    BY <1>2 DEF PressIsSound
  <1>6. QuietIsSound'
    BY <1>1, <1>2, QuietKept DEF HandlersInv, QuietIsSound, Arming
  <1>7. QED
    BY <1>3, <1>4, <1>5, <1>6 DEF HandlersInv

\* A step of a handler, or of a press or message that reaches one.
LEMMA HandlerMoves ==
    ASSUME HandlersInv, UNCHANGED vars,
           quiet' = (~settings'.antibot /\ (quiet \/ SettingsRead)),
           press' \in PressRecord, event' \in EventRecord, PressIsSound',
           event'.step # "idle" => ~event'.during
    PROVE  HandlersInv'
  <1>1. UNCHANGED <<settings, armed, rows, worker, posts, posted, refresh>>
    BY DEF vars
  <1>2. IInv'
    BY StutterStep DEF HandlersInv
  <1>3. HandlersTypeOK' /\ BoardIsKnown'
    BY <1>1, HandlerFacts DEF HandlersInv, HandlersTypeOK, BoardIsKnown
  <1>4. QuietIsSound'
    BY <1>1 DEF HandlersInv, QuietIsSound, SettingsRead
  <1>5. QED
    BY <1>2, <1>3, <1>4 DEF HandlersInv

LEMMA PressSteps ==
    ASSUME HandlersInv,
           \/ \E channel \in channels, message \in 1..Copy : PressButton(channel, message)
           \/ VerifySettings \/ VerifyRecord \/ GrantRole \/ EndPress,
           quiet' = (~settings'.antibot /\ (quiet \/ SettingsRead))
    PROVE  HandlersInv'
  <1>1. UNCHANGED vars /\ UNCHANGED event
    BY DEF PressButton, VerifySettings, VerifyRecord, GrantRole, EndPress
  <1>2. UNCHANGED <<settings, rows, worker, posted>>
    BY <1>1 DEF vars
  <1>3. event' \in EventRecord /\ (event'.step # "idle" => ~event'.during)
    BY <1>1, HandlerFacts DEF HandlersInv, QuietIsSound
  <1>4. CASE \E channel \in channels, message \in 1..Copy : PressButton(channel, message)
    <2>1. PICK channel \in channels, message \in 1..Copy : PressButton(channel, message)
      BY <1>4
    <2>2. PICK stale \in BOOLEAN, configured \in BOOLEAN :
                /\ press' = [step |-> "settings", channel |-> channel, message |-> message,
                             stale |-> stale, configured |-> configured]
                /\ stale <=> ~Current(channel, message) /\ ~Pending(channel, message)
                /\ configured <=> settings.channel = channel
      BY <2>1 DEF PressButton
    <2>3. message = Copy \/ message \in 1..posted[Verification]
      <3>1. CASE message # Copy
        <4>1. PICK post \in posts : post.key = Verification /\ post.id = message
          BY <2>1, <3>1 DEF PressButton, Standing, PostsIn
        <4>2. message <= posted[Verification] /\ message \in Nat /\ message >= 1
          BY <4>1, HandlerFacts DEF HandlersInv, BoardIsKnown
        <4>3. QED
          BY <4>2, BoardFacts DEF HandlersInv
      <3>2. QED
        BY <3>1
    <2>4. channel \in ChannelIds /\ message \in 0..Copy
      BY StateFacts, HandlerFacts DEF HandlersInv
    <2>5. press' \in PressRecord
      BY <2>2, <2>4 DEF PressRecord
    <2>6. PressIsSound'
      BY <1>2, <2>2, <2>3 DEF PressIsSound, Current, Pending, Copy
    <2>7. QED
      BY <1>1, <1>3, <2>5, <2>6, HandlerMoves
  <1>5. CASE press' = IdlePress
    BY <1>1, <1>3, <1>5, IdleTypes, HandlerMoves DEF PressIsSound
  <1>6. ASSUME press.step # "idle",
               NEW step \in {"record", "grant", "granted"},
               press' = [press EXCEPT !.step = step],
               press.configured, step \in {"grant", "granted"} => ~press.stale
        PROVE  HandlersInv'
    <2>1. press' \in PressRecord
      BY <1>6, HandlerFacts DEF PressRecord
    <2>2. /\ press'.step = step /\ press'.channel = press.channel
          /\ press'.message = press.message /\ press'.stale = press.stale
          /\ press'.configured = press.configured
      BY <1>6, HandlerFacts DEF PressRecord
    <2>3. PressIsSound'
      BY <1>2, <1>6, <2>2 DEF HandlersInv, PressIsSound, Current, Pending, Copy
    <2>4. QED
      BY <1>1, <1>3, <2>1, <2>3, HandlerMoves
  <1>7. CASE VerifySettings /\ press' # IdlePress
    <2>1. /\ press.step = "settings" /\ settings.channel = press.channel
          /\ press' = [press EXCEPT !.step = "record"]
      BY <1>7 DEF VerifySettings, ConfiguredHere
    <2>2. press.configured
      BY <2>1 DEF HandlersInv, PressIsSound
    <2>3. QED
      BY <1>6, <2>1, <2>2
  <1>8. CASE VerifyRecord /\ press' # IdlePress
    <2>1. /\ press.step = "record" /\ Current(press.channel, press.message)
          /\ press' = [press EXCEPT !.step = "grant"]
      BY <1>8 DEF VerifyRecord, Bound, Current
    <2>2. press.configured /\ ~press.stale
      BY <2>1 DEF HandlersInv, PressIsSound
    <2>3. QED
      BY <1>6, <2>1, <2>2
  <1>9. CASE GrantRole
    <2>1. press.step = "grant" /\ press' = [press EXCEPT !.step = "granted"]
      BY <1>9 DEF GrantRole
    <2>2. press.configured /\ ~press.stale
      BY <2>1 DEF HandlersInv, PressIsSound
    <2>3. QED
      BY <1>6, <2>1, <2>2
  <1>10. QED
    BY <1>4, <1>5, <1>7, <1>8, <1>9 DEF EndPress

LEMMA EventSteps ==
    ASSUME HandlersInv,
           \/ \E author \in Members \union {Bot}, channel \in channels :
                MessagePosted(author, channel)
           \/ KnowBot \/ HandleMessage \/ Ban \/ EndEvent,
           quiet' = (~settings'.antibot /\ (quiet \/ SettingsRead))
    PROVE  HandlersInv'
  <1>1. UNCHANGED vars /\ UNCHANGED press
    BY DEF MessagePosted, KnowBot, HandleMessage, Ban, EndEvent
  <1>2. press' \in PressRecord /\ PressIsSound'
    BY <1>1, HandlerFacts DEF vars, HandlersInv, PressIsSound, Current, Pending, Copy
  <1>3. event' \in EventRecord /\ (event'.step # "idle" => ~event'.during)
    <2>1. CASE event' = IdleEvent
      BY <2>1, IdleTypes
    <2>2. CASE \E author \in Members \union {Bot}, channel \in channels :
                  MessagePosted(author, channel)
      <3>1. PICK author \in Members \union {Bot}, channel \in channels :
                  MessagePosted(author, channel)
        BY <2>2
      <3>2. /\ armed # NoChannel
            /\ event' = [step |-> "bot", author |-> author, channel |-> channel,
                         during |-> quiet]
        BY <3>1 DEF MessagePosted, IsTrap
      <3>3. ~quiet
        BY <3>2 DEF HandlersInv, QuietIsSound
      <3>4. channel \in ChannelIds
        BY StateFacts DEF HandlersInv
      <3>5. event' \in EventRecord
        BY <3>2, <3>4, HandlerFacts DEF EventRecord
      <3>6. QED
        BY <3>2, <3>3, <3>5
    <2>3. ASSUME event.step # "idle", NEW step \in {"check", "ban", "banned"},
                 event' = [event EXCEPT !.step = step]
          PROVE  event' \in EventRecord /\ ~event'.during
      BY <2>3, HandlerFacts DEF HandlersInv, QuietIsSound, EventRecord
    <2>4. QED
      BY <2>1, <2>2, <2>3 DEF KnowBot, HandleMessage, Ban, EndEvent
  <1>4. QED
    BY <1>1, <1>2, <1>3, HandlerMoves

LEMMA HandlersInitSatisfies ==
    ASSUME HandlersInit
    PROVE  HandlersInv
  <1>1. Init /\ press = IdlePress /\ event = IdleEvent /\ quiet = FALSE
    BY DEF HandlersInit
  <1>2. IInv
    BY <1>1, InitSatisfies
  <1>3. BoardIsKnown
    <2>1. /\ posts = {} /\ posted[Verification] = 0
          /\ worker[Verification].revision = 0
      BY <1>1, Values, IdleJob DEF Init
    <2>2. rows[Verification].revision \in Nat
      BY <1>1, InitSatisfies
    <2>3. QED
      BY <2>1, <2>2, Values DEF BoardIsKnown
  <1>4. HandlersTypeOK
    BY <1>1, IdleTypes DEF HandlersTypeOK
  <1>5. PressIsSound /\ QuietIsSound
    BY <1>1, IdleTypes DEF PressIsSound, QuietIsSound
  <1>6. QED
    BY <1>2, <1>3, <1>4, <1>5 DEF HandlersInv

-----------------------------------------------------------------------------
(* The theorems.                                                           *)

\* The inductive invariant holds: a message the row has forgotten, and no job is
\* about to store, is never the managed one again, and once a Refresh has read the
\* trap disabled nothing that was under way arms it.
THEOREM HandlersInvariance == HandlersSpec => []HandlersInv
  <1>1. HandlersInit => HandlersInv
    BY HandlersInitSatisfies
  <1>2. HandlersInv /\ [HandlersNext]_allVars => HandlersInv'
    <2>1. ASSUME HandlersInv, UNCHANGED allVars
          PROVE  HandlersInv'
      <3>1. /\ UNCHANGED <<settings, armed, rows, worker, posts, posted, refresh>>
            /\ UNCHANGED vars /\ UNCHANGED <<press, event, quiet>>
        BY <2>1 DEF allVars, vars
      <3>2. IInv'
        BY <2>1, <3>1, StutterStep DEF HandlersInv
      <3>3. QED
        BY <2>1, <3>1, <3>2
           DEF HandlersInv, HandlersTypeOK, BoardIsKnown, PressIsSound, Current, Pending,
               Copy, QuietIsSound
    <2>2. ASSUME HandlersInv, HandlersNext
          PROVE  HandlersInv'
      <3>1. quiet' = (~settings'.antibot /\ (quiet \/ SettingsRead))
        BY <2>2 DEF HandlersNext
      <3>2. CASE SecurityStep
        BY <2>2, <3>1, <3>2, SecurityStepInv
      <3>3. CASE CrashWithHandlers
        BY <2>2, <3>1, <3>3, CrashInv
      <3>4. CASE \/ \E channel \in channels, message \in 1..Copy :
                      PressButton(channel, message)
                 \/ VerifySettings \/ VerifyRecord \/ GrantRole \/ EndPress
        BY <2>2, <3>1, <3>4, PressSteps
      <3>5. CASE \/ \E author \in Members \union {Bot}, channel \in channels :
                      MessagePosted(author, channel)
                 \/ KnowBot \/ HandleMessage \/ Ban \/ EndEvent
        BY <2>2, <3>1, <3>5, EventSteps
      <3>6. QED
        BY <2>2, <3>2, <3>3, <3>4, <3>5 DEF HandlersNext
    <2>3. QED
      BY <2>1, <2>2
  <1>3. QED
    BY <1>1, <1>2, PTL DEF HandlersSpec

\* No press of a message that was moved, replaced or archived before is granted.
THEOREM NoStaleGrant == HandlersSpec => []StaleNeverVerifies
  <1>1. HandlersInv => StaleNeverVerifies
    BY DEF HandlersInv, PressIsSound, StaleNeverVerifies
  <1>2. QED
    BY <1>1, HandlersInvariance, PTL

\* No press is granted in a channel that was not the configured one during it.
THEOREM GrantsConfigured == HandlersSpec => []GrantsAreConfigured
  <1>1. HandlersInv => GrantsAreConfigured
    BY DEF HandlersInv, PressIsSound, GrantsAreConfigured
  <1>2. QED
    BY <1>1, HandlersInvariance, PTL

\* Nobody is banned for a message posted after the trap was seen disabled.
THEOREM DisabledIsQuiet == HandlersSpec => []DisabledBansNobody
  <1>1. HandlersInv => DisabledBansNobody
    BY DEF HandlersInv, QuietIsSound, DisabledBansNobody
  <1>2. QED
    BY <1>1, HandlersInvariance, PTL
=============================================================================
