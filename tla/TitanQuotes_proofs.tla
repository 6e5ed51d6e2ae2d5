----------------------- MODULE TitanQuotes_proofs -----------------------
(***************************************************************************)
(* Proofs about the quotes of a Titan session, for every ladder, every set *)
(* of stream identifiers and every number of quotes: rows hold quotes of   *)
(* their size, the board is of the current session and not behind the rows,*)
(* its flags are honest, and the counters agree.                           *)
(***************************************************************************)
EXTENDS TitanQuotes, TLAPS

\* The rungs of the ladder are distinct positive sizes; request r is for rung
\* r - 1.
LEMMA LadderFacts ==
  /\ Len(HuntSizes) \in Nat \ {0}
  /\ \A i \in 1..Len(HuntSizes) : HuntSizes[i] \in Ladder /\ HuntSizes[i] \in Nat \ {0}
  /\ \A i, j \in 1..Len(HuntSizes) : HuntSizes[i] = HuntSizes[j] => i = j
  /\ Ladder \subseteq Nat \ {0}
<1>1. Len(HuntSizes) \in Nat \ {0}
  BY LadderAssumption
<1>2. \A i \in 1..Len(HuntSizes) : HuntSizes[i] \in Ladder /\ HuntSizes[i] \in Nat \ {0}
  BY LadderAssumption DEF Ladder
<1>3. ASSUME NEW i \in 1..Len(HuntSizes), NEW j \in 1..Len(HuntSizes), HuntSizes[i] = HuntSizes[j]
      PROVE  i = j
  <2>1. HuntSizes[i] \in Nat /\ HuntSizes[j] \in Nat
    BY <1>2
  <2>2. ~(i < j) /\ ~(j < i)
    BY <1>3, <2>1, LadderAssumption
  <2> QED
    BY <1>1, <2>2
<1>4. Ladder \subseteq Nat \ {0}
  BY <1>2 DEF Ladder
<1> QED
  BY <1>1, <1>2, <1>3, <1>4

LEMMA SizeFacts ==
  /\ Ladder \subseteq Sizes /\ 0 \in Sizes /\ 0 \notin Ladder
  /\ None \notin Ladder /\ None \notin Sizes /\ Sizes \subseteq Nat
  /\ \A s \in Sizes : s = 0 \/ s \in Ladder
<1>1. Ladder \subseteq Nat \ {0} /\ None \notin Nat /\ 0 \in Nat
  BY LadderFacts, NoneAssumption
<1> HIDE DEF Ladder
<1>2. /\ Ladder \subseteq Sizes /\ 0 \in Sizes /\ 0 \notin Ladder
      /\ None \notin Ladder /\ Sizes \subseteq Nat
      /\ \A s \in Sizes : s = 0 \/ s \in Ladder
  BY <1>1, Zenon DEF Sizes
<1> QED
  BY <1>1, <1>2

LEMMA RequestFacts ==
  /\ \A i \in 1..Len(HuntSizes) : i + 1 \in RequestIds /\ (i + 1) - 1 = i
  /\ \A r \in RequestIds : /\ r - 1 \in 1..Len(HuntSizes) /\ (r - 1) + 1 = r
                           /\ HuntSizes[r - 1] \in Ladder /\ HuntSizes[r - 1] # None
<1>1. \A i \in 1..Len(HuntSizes) : i + 1 \in RequestIds /\ (i + 1) - 1 = i
  BY LadderFacts DEF RequestIds
<1>2. ASSUME NEW r \in RequestIds
      PROVE  r - 1 \in 1..Len(HuntSizes) /\ (r - 1) + 1 = r
  <2>1. PICK i \in 1..Len(HuntSizes) : r = i + 1
    BY DEF RequestIds
  <2> QED
    BY <2>1, LadderFacts
<1>3. ASSUME NEW r \in RequestIds PROVE HuntSizes[r - 1] \in Ladder /\ HuntSizes[r - 1] # None
  BY <1>2, LadderFacts, SizeFacts
<1> QED
  BY <1>1, <1>2, <1>3

-----------------------------------------------------------------------------
\* The type invariant, part by part.
LEMMA TypeInit == Init => TypeOK
<1> SUFFICES ASSUME Init PROVE TypeOK
  OBVIOUS
<1>1. PlaceType
  BY LadderFacts DEF Init, PlaceType, PCs
<1>2. MemoryType
  BY QuotesAssumption DEF Init, MemoryType
<1>3. RedisType
  BY QuotesAssumption DEF Init, RedisType, NoRow, Absent
<1>4. ServerType
  BY DEF Init, ServerType
<1>5. HistoryType
  <2>1. lostBoard \in BOOLEAN /\ torn \in BOOLEAN
    BY Zenon DEF Init
  <2>2. quotes \in 0..MaxQuotes /\ sessionFrom \in 0..quotes
    BY QuotesAssumption DEF Init
  <2> QED
    BY <2>1, <2>2, Zenon DEF HistoryType
<1> QED
  BY <1>1, <1>2, <1>3, <1>4, <1>5 DEF TypeOK

\* The size a quote is filed under, and the quote itself.
LEMMA QuoteRead ==
  ASSUME TypeOK, NEW id \in StreamIds, NEW amount \in {opened[id], 0}, ReadQuote(id, amount)
  PROVE  \E size \in Sizes :
           /\ size = (IF streamToSize[id] # None THEN streamToSize[id] ELSE amount)
           /\ opened[id] \in Ladder
           /\ quotes + 1 \in 1..MaxQuotes /\ quotes \in Nat /\ quotes' = quotes + 1
           /\ unsubscribed' = unsubscribed \ {size}
           /\ pins' = [pins EXCEPT ![size] = quotes + 1]
           /\ quote' = [size |-> size, stamp |-> quotes + 1, origin |-> opened[id]]
           /\ quote' \in Quotes /\ quote' # None
<1>1. opened[id] \in Ladder
  BY DEF ReadQuote, TypeOK, ServerType
<1>2. (IF streamToSize[id] # None THEN streamToSize[id] ELSE amount) \in Sizes
  BY <1>1, SizeFacts DEF TypeOK, MemoryType
<1>3. quotes + 1 \in 1..MaxQuotes /\ quotes \in Nat
  BY QuotesAssumption DEF ReadQuote, TypeOK, HistoryType
<1>4. PICK size \in Sizes : size = (IF streamToSize[id] # None THEN streamToSize[id] ELSE amount)
  BY <1>2
<1>5. [size |-> size, stamp |-> quotes + 1, origin |-> opened[id]]
        \in Quotes
  BY <1>1, <1>3 DEF Quotes
<1>6. \A q \in Quotes : q # None
  BY NoneAssumption, Zenon
<1> QED
  BY <1>1, <1>3, <1>4, <1>5, <1>6 DEF ReadQuote

LEMMA PlaceNext == TypeOK /\ [Next]_vars => PlaceType'
<1> SUFFICES ASSUME TypeOK, [Next]_vars PROVE PlaceType'
  OBVIOUS
<1>0. PlaceType /\ Len(HuntSizes) \in Nat \ {0}
  BY LadderFacts DEF TypeOK
<1> USE DEF PlaceType, PCs
<1>1. CASE UNCHANGED vars
  BY <1>0, <1>1 DEF vars
<1>2. CASE Boot \/ CloseSession
  BY <1>0, <1>2 DEF Boot, CloseSession
<1>3. CASE Crash
  BY <1>0, <1>3 DEF Crash
<1>4. ASSUME NEW s \in Sizes, Expire(s) PROVE PlaceType'
  BY <1>0, <1>4 DEF Expire
<1>5. CASE OpenSession \/ SetupFails
  BY <1>0, <1>5 DEF OpenSession, SetupFails
<1>6. CASE SkipRung \/ SubscribeRung
  BY <1>0, <1>6 DEF SkipRung, SubscribeRung
<1>7. CASE Snapshot
  BY <1>0, <1>7 DEF Snapshot
<1>8. ASSUME NEW r \in RequestIds, NEW id \in StreamIds, ServerOpens(r, id) \/ ReadResponse(r, id) PROVE PlaceType'
  BY <1>0, <1>8 DEF ServerOpens, ReadResponse
<1>9. ASSUME NEW r \in RequestIds, ReadError(r) PROVE PlaceType'
  BY <1>0, <1>9 DEF ReadError
<1>10. ASSUME NEW id \in StreamIds, NEW amount \in {opened[id], 0}, ReadQuote(id, amount) PROVE PlaceType'
  BY <1>0, <1>10, QuoteRead DEF ReadQuote
<1>11. CASE WriteRow \/ PublishBoard
  BY <1>0, <1>11 DEF WriteRow, PublishBoard
<1>12. CASE Record
  BY <1>0, <1>12 DEF Record
<1> QED
  BY <1>1, <1>2, <1>3, <1>4, <1>5, <1>6, <1>7, <1>8, <1>9, <1>10, <1>11, <1>12 DEF Next

LEMMA MemoryNext == TypeOK /\ [Next]_vars => MemoryType'
<1> SUFFICES ASSUME TypeOK, [Next]_vars PROVE MemoryType'
  OBVIOUS
<1>0. MemoryType /\ PlaceType
  BY DEF TypeOK
<1> USE DEF MemoryType, registry, sizeBoard
<1>1. CASE UNCHANGED vars
  BY <1>0, <1>1 DEF vars
<1>2. CASE Boot \/ CloseSession
  BY <1>0, <1>2 DEF Boot, CloseSession
<1>3. CASE Crash
  BY <1>3, QuotesAssumption DEF Crash
<1>4. ASSUME NEW s \in Sizes, Expire(s) PROVE MemoryType'
  BY <1>0, <1>4 DEF Expire
<1>5. CASE OpenSession
  BY <1>5, QuotesAssumption DEF OpenSession
<1>6. CASE SetupFails
  <2>1. rung <= Len(HuntSizes) => HuntSizes[rung] \in Ladder
    BY <1>0, LadderFacts DEF PlaceType
  <2> QED
    BY <1>0, <1>6, <2>1 DEF SetupFails
<1>7. CASE SkipRung \/ SubscribeRung
  <2>1. HuntSizes[rung] \in Ladder
    BY <1>0, <1>7, LadderFacts DEF PlaceType, SkipRung, SubscribeRung
  <2> QED
    BY <1>0, <1>7, <2>1 DEF SkipRung, SubscribeRung
<1>8. CASE Snapshot
  BY <1>0, <1>8 DEF Snapshot
<1>9. ASSUME NEW r \in RequestIds, NEW id \in StreamIds, ServerOpens(r, id) PROVE MemoryType'
  BY <1>0, <1>9 DEF ServerOpens
<1>10. ASSUME NEW r \in RequestIds, NEW id \in StreamIds, ReadResponse(r, id) PROVE MemoryType'
  BY <1>0, <1>10 DEF ReadResponse
<1>11. ASSUME NEW r \in RequestIds, ReadError(r) PROVE MemoryType'
  BY <1>0, <1>11 DEF ReadError
<1>12. ASSUME NEW id \in StreamIds, NEW amount \in {opened[id], 0}, ReadQuote(id, amount) PROVE MemoryType'
  <2>1. PICK size \in Sizes : /\ unsubscribed' = unsubscribed \ {size}
                              /\ pins' = [pins EXCEPT ![size] = quotes + 1] /\ quotes + 1 \in 1..MaxQuotes
    BY <1>12, QuoteRead
  <2>2. UNCHANGED <<requestToSize, streamToSize, ladder>>
    BY <1>12, Zenon DEF ReadQuote
  <2>3. pins' \in [Sizes -> 0..MaxQuotes]
    <3>1. quotes + 1 \in 0..MaxQuotes
      BY <2>1, QuotesAssumption
    <3> QED
      BY <1>0, <2>1, <3>1, Zenon
  <2> QED
    BY <1>0, <2>1, <2>2, <2>3, Zenon
<1>13. CASE WriteRow \/ PublishBoard \/ Record
  BY <1>0, <1>13 DEF WriteRow, PublishBoard, Record
<1> QED
  BY <1>1, <1>2, <1>3, <1>4, <1>5, <1>6, <1>7, <1>8, <1>9, <1>10, <1>11, <1>12, <1>13 DEF Next

LEMMA ServerNext == TypeOK /\ [Next]_vars => ServerType'
<1> SUFFICES ASSUME TypeOK, [Next]_vars PROVE ServerType'
  OBVIOUS
<1>0. ServerType
  BY DEF TypeOK
<1> USE DEF ServerType, server
<1>1. CASE UNCHANGED vars
  BY <1>0, <1>1 DEF vars
<1>2. CASE Boot \/ Crash \/ CloseSession \/ SkipRung \/ SetupFails \/ Snapshot
  BY <1>0, <1>2 DEF Boot, Crash, CloseSession, SkipRung, SetupFails, Snapshot
<1>3. ASSUME NEW s \in Sizes, Expire(s) PROVE ServerType'
  BY <1>0, <1>3 DEF Expire
<1>4. CASE OpenSession
  BY <1>4 DEF OpenSession
<1>5. CASE SubscribeRung
  <2>1. rung + 1 \in RequestIds
    BY <1>5, RequestFacts, LadderFacts DEF SubscribeRung, TypeOK, PlaceType
  <2> QED
    BY <1>0, <1>5, <2>1 DEF SubscribeRung
<1>6. ASSUME NEW r \in RequestIds, NEW id \in StreamIds, ServerOpens(r, id) PROVE ServerType'
  <2>1. HuntSizes[r - 1] \in Ladder
    BY RequestFacts
  <2> QED
    BY <1>0, <1>6, <2>1 DEF ServerOpens
<1>7. ASSUME NEW r \in RequestIds, NEW id \in StreamIds, ReadResponse(r, id) PROVE ServerType'
  BY <1>0, <1>7 DEF ReadResponse
<1>8. ASSUME NEW r \in RequestIds, ReadError(r) PROVE ServerType'
  BY <1>0, <1>8 DEF ReadError
<1>9. ASSUME NEW id \in StreamIds, NEW amount \in {opened[id], 0}, ReadQuote(id, amount) PROVE ServerType'
  BY <1>0, <1>9 DEF ReadQuote
<1>10. CASE WriteRow \/ PublishBoard \/ Record
  BY <1>0, <1>10 DEF WriteRow, PublishBoard, Record
<1> QED
  BY <1>1, <1>2, <1>3, <1>4, <1>5, <1>6, <1>7, <1>8, <1>9, <1>10 DEF Next

\* quotes counts the quotes read, sessionFrom is set when a session opens.
LEMMA Clock ==
  ASSUME [Next]_vars
  PROVE  \/ UNCHANGED <<quotes, sessionFrom>>
         \/ OpenSession /\ quotes' = quotes /\ sessionFrom' = quotes
         \/ /\ \E id \in StreamIds : \E amount \in {opened[id], 0} : ReadQuote(id, amount)
            /\ quotes < MaxQuotes /\ quotes' = quotes + 1 /\ sessionFrom' = sessionFrom
<1>1. CASE UNCHANGED vars
  BY <1>1 DEF vars, history
<1>2. CASE Boot \/ Crash \/ CloseSession \/ SkipRung \/ SetupFails \/ Snapshot \/ SubscribeRung
  BY <1>2 DEF Boot, Crash, CloseSession, SkipRung, SetupFails, Snapshot, SubscribeRung, history
<1>3. ASSUME NEW s \in Sizes, Expire(s) PROVE UNCHANGED <<quotes, sessionFrom>>
  BY <1>3 DEF Expire, history
<1>4. CASE OpenSession
  BY <1>4 DEF OpenSession
<1>5. ASSUME NEW r \in RequestIds, NEW id \in StreamIds, ServerOpens(r, id) \/ ReadResponse(r, id)
      PROVE  UNCHANGED <<quotes, sessionFrom>>
  BY <1>5 DEF ServerOpens, ReadResponse, history
<1>6. ASSUME NEW r \in RequestIds, ReadError(r) PROVE UNCHANGED <<quotes, sessionFrom>>
  BY <1>6 DEF ReadError, history
<1>7. ASSUME NEW id \in StreamIds, NEW amount \in {opened[id], 0}, ReadQuote(id, amount)
      PROVE  quotes < MaxQuotes /\ quotes' = quotes + 1 /\ sessionFrom' = sessionFrom
  BY <1>7 DEF ReadQuote
<1>8. CASE WriteRow \/ PublishBoard \/ Record
  BY <1>8 DEF WriteRow, PublishBoard, Record
<1> QED
  BY <1>1, <1>2, <1>3, <1>4, <1>5, <1>6, <1>7, <1>8 DEF Next

LEMMA FlagsNext == TypeOK /\ [Next]_vars => lostBoard' \in BOOLEAN /\ torn' \in BOOLEAN
<1> SUFFICES ASSUME TypeOK, [Next]_vars PROVE lostBoard' \in BOOLEAN /\ torn' \in BOOLEAN
  OBVIOUS
<1>0. lostBoard \in BOOLEAN /\ torn \in BOOLEAN
  BY Zenon DEF TypeOK, HistoryType
<1> USE DEF history
<1>1. CASE UNCHANGED vars
  BY <1>0, <1>1, Zenon DEF vars
<1>2. CASE Boot
  <2>1. lostBoard' \in BOOLEAN
    BY <1>0, <1>2, Zenon DEF Boot
  <2>2. \E applied \in 0..4 : torn' = (applied < 3)
    BY <1>2, Zenon DEF Boot
  <2> QED
    BY <2>1, <2>2
<1>3. CASE Crash \/ CloseSession \/ SkipRung \/ SetupFails \/ SubscribeRung \/ OpenSession
  BY <1>0, <1>3, Zenon DEF Crash, CloseSession, SkipRung, SetupFails, SubscribeRung, OpenSession
<1>4. CASE Snapshot \/ PublishBoard
  BY <1>0, <1>4, Zenon DEF Snapshot, PublishBoard, WriteBoard
<1>5. ASSUME NEW s \in Sizes, Expire(s) PROVE UNCHANGED <<lostBoard, torn>>
  BY <1>5, Zenon DEF Expire
<1>6. ASSUME NEW r \in RequestIds, NEW id \in StreamIds, ServerOpens(r, id) \/ ReadResponse(r, id)
      PROVE  UNCHANGED <<lostBoard, torn>>
  BY <1>6, Zenon DEF ServerOpens, ReadResponse
<1>7. ASSUME NEW r \in RequestIds, ReadError(r) PROVE UNCHANGED <<lostBoard, torn>>
  BY <1>7, Zenon DEF ReadError
<1>8. ASSUME NEW id \in StreamIds, NEW amount \in {opened[id], 0}, ReadQuote(id, amount)
      PROVE  UNCHANGED <<lostBoard, torn>>
  BY <1>8, Zenon DEF ReadQuote
<1>9. CASE WriteRow \/ Record
  BY <1>0, <1>9, Zenon DEF WriteRow, Record
<1> QED
  BY <1>0, <1>1, <1>2, <1>3, <1>4, <1>5, <1>6, <1>7, <1>8, <1>9, Zenon DEF Next

LEMMA HistoryNext == TypeOK /\ [Next]_vars => HistoryType'
<1> SUFFICES ASSUME TypeOK, [Next]_vars PROVE HistoryType'
  OBVIOUS
<1>1. lostBoard' \in BOOLEAN /\ torn' \in BOOLEAN
  BY FlagsNext
<1>2. quotes \in 0..MaxQuotes /\ sessionFrom \in 0..quotes
  BY Zenon DEF TypeOK, HistoryType
<1>3. quotes' \in 0..MaxQuotes /\ sessionFrom' \in 0..quotes'
  BY <1>2, QuotesAssumption, Clock
<1> QED
  BY <1>1, <1>3, Zenon DEF HistoryType

-----------------------------------------------------------------------------
\* No counter is ahead of the quotes received, and while nothing was lost the
\* three differ by the quote in hand only.
Counted == frames \in Nat /\ decoded \in Nat /\ served \in Nat
Bounded == /\ frames + One(quote # None) <= quotes + 1
           /\ decoded + One(quote # None) <= quotes + 1
           /\ served + One(pc = "row") <= quotes + 1
Level == frames = decoded /\ served = decoded + One(pc \in {"board", "record"})

LEMMA BoundedNext ==
  ASSUME TypeOK, Bounded, [Next]_vars
  PROVE  Counted' /\ Bounded'
<1>0. /\ Counted /\ quotes \in Nat
      /\ pc \in PCs /\ (pc \in {"row", "board", "record"}) = (quote # None)
  BY QuotesAssumption DEF TypeOK, RedisType, HistoryType, PlaceType, Counted
<1>p. (pc' \in {"row", "board", "record"}) = (quote' # None)
  BY PlaceNext DEF PlaceType
<1> USE DEF Counted, Bounded, One, counters, history, PCs
<1>1. CASE UNCHANGED vars
  BY <1>0, <1>1 DEF vars
<1>2. CASE Boot
  BY <1>0, <1>p, <1>2 DEF Boot
<1>3. CASE Crash
  BY <1>0, <1>3 DEF Crash
<1>4. CASE CloseSession \/ SkipRung \/ SetupFails \/ SubscribeRung \/ OpenSession
  BY <1>0, <1>4 DEF CloseSession, SkipRung, SetupFails, SubscribeRung, OpenSession
<1>5. CASE Snapshot \/ PublishBoard
  BY <1>0, <1>5 DEF Snapshot, PublishBoard
<1>6. ASSUME NEW s \in Sizes, Expire(s) PROVE Counted' /\ Bounded'
  BY <1>0, <1>6 DEF Expire
<1>7. ASSUME NEW r \in RequestIds, NEW id \in StreamIds, ServerOpens(r, id) \/ ReadResponse(r, id)
      PROVE  Counted' /\ Bounded'
  BY <1>0, <1>7 DEF ServerOpens, ReadResponse
<1>8. ASSUME NEW r \in RequestIds, ReadError(r) PROVE Counted' /\ Bounded'
  BY <1>0, <1>8 DEF ReadError
<1>9. ASSUME NEW id \in StreamIds, NEW amount \in {opened[id], 0}, ReadQuote(id, amount)
      PROVE  Counted' /\ Bounded'
  <2>1. quotes' = quotes + 1 /\ pc = "read" /\ UNCHANGED <<frames, decoded, served>>
    BY <1>9 DEF ReadQuote
  <2> QED
    BY <1>0, <2>1
<1>10. CASE WriteRow
  BY <1>0, <1>10 DEF WriteRow
<1>11. CASE Record
  BY <1>0, <1>11 DEF Record
<1> QED
  BY <1>1, <1>2, <1>3, <1>4, <1>5, <1>6, <1>7, <1>8, <1>9, <1>10, <1>11 DEF Next

LEMMA LevelNext ==
  ASSUME TypeOK, ~torn => Level, [Next]_vars
  PROVE  ~torn' => Level'
<1> SUFFICES ASSUME ~torn' PROVE Level'
  BY Zenon
<1>0. /\ Counted /\ pc \in PCs /\ (pc \in {"row", "board", "record"}) = (quote # None)
  BY DEF TypeOK, RedisType, PlaceType, Counted
<1>t. torn' # TRUE
  OBVIOUS
<1> USE DEF Counted, counters, history
<1>1. CASE Level /\ UNCHANGED <<frames, decoded, served>>
           /\ (pc' \in {"board", "record"}) = (pc \in {"board", "record"})
  BY <1>1 DEF Level, One
<1>2. CASE UNCHANGED vars
  BY <1>1, <1>2, Zenon DEF vars
<1>3. CASE Boot
  <2>1. PICK applied \in 0..4 : /\ torn' = (applied < 3) /\ pc' = "down"
                                /\ frames' = IF applied >= 1 THEN 0 ELSE frames
                                /\ decoded' = IF applied >= 2 THEN 0 ELSE decoded
                                /\ served' = IF applied >= 3 THEN 0 ELSE served
    BY <1>3, Zenon DEF Boot
  <2>2. ~(applied < 3)
    BY <2>1, Zenon
  <2> QED
    BY <2>1, <2>2 DEF Level, One
<1>4. CASE Crash
  <2>1. UNCHANGED <<frames, decoded, served>> /\ quote = None /\ pc' = "boot"
    BY <1>4, Zenon DEF Crash
  <2>2. ~torn
    BY <1>4, Zenon DEF Crash
  <2>3. (pc' \in {"board", "record"}) = (pc \in {"board", "record"})
    BY <1>0, <2>1
  <2> QED
    BY <1>1, <2>1, <2>2, <2>3, Zenon
<1>5. CASE CloseSession \/ SkipRung \/ SetupFails \/ SubscribeRung \/ OpenSession
  <2>1. /\ UNCHANGED <<frames, decoded, served>>
        /\ (pc' \in {"board", "record"}) = (pc \in {"board", "record"})
    BY <1>5 DEF CloseSession, SkipRung, SetupFails, SubscribeRung, OpenSession
  <2>2. ~torn
    BY <1>5, Zenon DEF CloseSession, SkipRung, SetupFails, SubscribeRung, OpenSession
  <2> QED
    BY <1>1, <2>1, <2>2, Zenon
<1>6. CASE Snapshot \/ PublishBoard
  <2>1. /\ UNCHANGED <<frames, decoded, served>>
        /\ (pc' \in {"board", "record"}) = (pc \in {"board", "record"})
    BY <1>6 DEF Snapshot, PublishBoard
  <2>2. ~torn
    BY <1>6, Zenon DEF Snapshot, PublishBoard
  <2> QED
    BY <1>1, <2>1, <2>2, Zenon
<1>7. ASSUME NEW s \in Sizes, Expire(s) PROVE Level'
  BY <1>1, <1>7, Zenon DEF Expire
<1>8. ASSUME NEW r \in RequestIds, NEW id \in StreamIds, ServerOpens(r, id) \/ ReadResponse(r, id)
      PROVE  Level'
  BY <1>1, <1>8, Zenon DEF ServerOpens, ReadResponse
<1>9. ASSUME NEW r \in RequestIds, ReadError(r) PROVE Level'
  BY <1>1, <1>9, Zenon DEF ReadError
<1>10. ASSUME NEW id \in StreamIds, NEW amount \in {opened[id], 0}, ReadQuote(id, amount)
       PROVE  Level'
  <2>1. /\ UNCHANGED <<frames, decoded, served>>
        /\ (pc' \in {"board", "record"}) = (pc \in {"board", "record"})
    BY <1>10 DEF ReadQuote
  <2>2. ~torn
    BY <1>10, Zenon DEF ReadQuote
  <2> QED
    BY <1>1, <2>1, <2>2, Zenon
<1>11. CASE WriteRow
  <2>1. UNCHANGED <<frames, decoded>> /\ pc = "row" /\ pc' = "board"
    BY <1>11, Zenon DEF WriteRow
  <2>2. ~torn /\ served' = served + 1
    BY <1>t, <1>11, Zenon DEF WriteRow
  <2>3. Level
    BY <2>2, Zenon
  <2> QED
    BY <1>0, <2>1, <2>2, <2>3 DEF Level, One
<1>12. CASE Record
  <2>1. served' = served /\ pc = "record" /\ pc' = "read"
    BY <1>12, Zenon DEF Record
  <2>2. ~torn /\ frames' = frames + 1 /\ decoded' = decoded + 1
    BY <1>t, <1>12, Zenon DEF Record
  <2>3. Level
    BY <2>2, Zenon
  <2> QED
    BY <1>0, <2>1, <2>2, <2>3 DEF Level, One
<1> QED
  BY <1>2, <1>3, <1>4, <1>5, <1>6, <1>7, <1>8, <1>9, <1>10, <1>11, <1>12, Zenon DEF Next

-----------------------------------------------------------------------------
\* What is written to Redis is of its type.
LEMMA EntryType ==
  ASSUME MemoryType, NEW s \in Sizes
  PROVE  Entry(s) \in [stamp : 0..MaxQuotes, status : {"absent", "live", "unsubscribed"}]
  BY QuotesAssumption DEF MemoryType, Entry, Absent

LEMMA RedisNext == ASSUME TypeOK, Bounded, [Next]_vars PROVE RedisType'
<1>0. RedisType /\ MemoryType /\ PlaceType
  BY DEF TypeOK
<1> DEFINE RowsType == rows \in [Sizes -> [stamp : 0..MaxQuotes, origin : Ladder \union {None}]]
           BoardType == board \in [Sizes -> [stamp : 0..MaxQuotes, status : {"absent", "live", "unsubscribed"}]]
<1>r. RowsType /\ BoardType
  BY <1>0 DEF RedisType
<1>1. frames' \in 0..(MaxQuotes + 1) /\ decoded' \in 0..(MaxQuotes + 1) /\ served' \in 0..(MaxQuotes + 1)
  <2>1. Counted' /\ Bounded' /\ quotes' \in 0..MaxQuotes
    BY BoundedNext, HistoryNext DEF HistoryType
  <2>2. One((quote # None)') \in {0, 1} /\ One((pc = "row")') \in {0, 1}
    BY DEF One
  <2> QED
    BY <2>1, <2>2, QuotesAssumption DEF Counted, Bounded
<1>2. RowsType'
  <2>1. ASSUME NEW s \in Sizes, rows' = [rows EXCEPT ![s] = NoRow] PROVE RowsType'
    <3>1. NoRow \in [stamp : 0..MaxQuotes, origin : Ladder \union {None}]
      BY QuotesAssumption DEF NoRow
    <3> QED
      BY <1>r, <2>1, <3>1
  <2>2. CASE WriteRow
    <3>1. \/ rows' = rows
          \/ rows' = [rows EXCEPT ![quote.size] = [stamp |-> quote.stamp, origin |-> quote.origin]]
      BY <2>2 DEF WriteRow
    <3>2. [stamp |-> quote.stamp, origin |-> quote.origin] \in [stamp : 0..MaxQuotes, origin : Ladder \union {None}]
      <4>1. quote.stamp \in 0..MaxQuotes /\ quote.origin \in Ladder
        BY <1>0, <2>2, QuotesAssumption DEF PlaceType, WriteRow, Quotes
      <4> QED
        BY <4>1
    <3> QED
      BY <1>r, <3>1, <3>2
  <2>3. rows' = rows \/ (\E s \in Sizes : rows' = [rows EXCEPT ![s] = NoRow]) \/ WriteRow
    <3>1. CASE UNCHANGED vars
      BY <3>1 DEF vars
    <3>2. CASE Boot \/ Crash \/ OpenSession \/ SkipRung \/ SubscribeRung \/ SetupFails \/ Snapshot
                \/ PublishBoard \/ Record \/ CloseSession
      BY <3>2 DEF Boot, Crash, OpenSession, SkipRung, SubscribeRung, SetupFails, Snapshot,
         PublishBoard, Record, CloseSession
    <3>3. ASSUME NEW r \in RequestIds, NEW id \in StreamIds, ServerOpens(r, id) \/ ReadResponse(r, id)
          PROVE  rows' = rows
      BY <3>3 DEF ServerOpens, ReadResponse
    <3>4. ASSUME NEW r \in RequestIds, ReadError(r) PROVE rows' = rows
      BY <3>4 DEF ReadError
    <3>5. ASSUME NEW id \in StreamIds, NEW amount \in {opened[id], 0}, ReadQuote(id, amount) PROVE rows' = rows
      BY <3>5 DEF ReadQuote
    <3>6. ASSUME NEW s \in Sizes, Expire(s) PROVE rows' = [rows EXCEPT ![s] = NoRow]
      BY <3>6 DEF Expire
    <3> QED
      BY <3>1, <3>2, <3>3, <3>4, <3>5, <3>6 DEF Next
  <2> QED
    BY <1>r, <2>1, <2>2, <2>3, Zenon
<1>3. BoardType'
  <2>1. board' = board \/ board' = [s \in Sizes |-> Absent] \/ board' = [s \in Sizes |-> Entry(s)]
    <3>1. CASE UNCHANGED vars
      BY <3>1 DEF vars
    <3>2. CASE Boot
      BY <3>2 DEF Boot
    <3>3. CASE Snapshot \/ PublishBoard
      BY <3>3 DEF Snapshot, PublishBoard, WriteBoard
    <3>4. CASE Crash \/ OpenSession \/ SkipRung \/ SubscribeRung \/ SetupFails
                \/ WriteRow \/ Record \/ CloseSession
      BY <3>4 DEF Crash, OpenSession, SkipRung, SubscribeRung, SetupFails, WriteRow, Record, CloseSession
    <3>5. ASSUME NEW r \in RequestIds, NEW id \in StreamIds, ServerOpens(r, id) \/ ReadResponse(r, id)
          PROVE  board' = board
      BY <3>5 DEF ServerOpens, ReadResponse
    <3>6. ASSUME NEW r \in RequestIds, ReadError(r) PROVE board' = board
      BY <3>6 DEF ReadError
    <3>7. ASSUME NEW id \in StreamIds, NEW amount \in {opened[id], 0}, ReadQuote(id, amount) PROVE board' = board
      BY <3>7 DEF ReadQuote
    <3>8. ASSUME NEW s \in Sizes, Expire(s) PROVE board' = board
      BY <3>8 DEF Expire
    <3> QED
      BY <3>1, <3>2, <3>3, <3>4, <3>5, <3>6, <3>7, <3>8 DEF Next
  <2>2. [s \in Sizes |-> Absent] \in [Sizes -> [stamp : 0..MaxQuotes, status : {"absent", "live", "unsubscribed"}]]
    BY QuotesAssumption DEF Absent
  <2>3. [s \in Sizes |-> Entry(s)] \in [Sizes -> [stamp : 0..MaxQuotes, status : {"absent", "live", "unsubscribed"}]]
    BY <1>0, EntryType
  <2> QED
    BY <1>r, <2>1, <2>2, <2>3, Zenon
<1> QED
  BY <1>1, <1>2, <1>3 DEF RedisType

LEMMA TypeNext == ASSUME TypeOK, Bounded, [Next]_vars PROVE TypeOK'
  BY PlaceNext, MemoryNext, RedisNext, ServerNext, HistoryNext, Zenon DEF TypeOK

-----------------------------------------------------------------------------
\* A stream identifier means the same rung to the registry and to the server:
\* identifiers are not used twice on a connection, and a reconnect clears both.
LEMMA RegistryNext == ASSUME TypeOK, RegistryAgrees, [Next]_vars PROVE RegistryAgrees'
<1>0. MemoryType /\ ServerType
  BY DEF TypeOK
<1> USE DEF RegistryAgrees, registry, server
<1>1. CASE UNCHANGED vars
  BY <1>1 DEF vars
<1>2. CASE Boot \/ SkipRung \/ Snapshot \/ WriteRow \/ PublishBoard \/ Record \/ CloseSession
  BY <1>2 DEF Boot, SkipRung, Snapshot, WriteRow, PublishBoard, Record, CloseSession
<1>3. CASE Crash
  BY <1>3 DEF Crash
<1>4. ASSUME NEW s \in Sizes, Expire(s) PROVE RegistryAgrees'
  BY <1>4 DEF Expire
<1>5. CASE OpenSession
  BY <1>5 DEF OpenSession
<1>6. CASE SubscribeRung \/ SetupFails
  <2>1. /\ UNCHANGED <<streamToSize, opened, responses>>
        /\ \/ requestToSize' = requestToSize
           \/ /\ rung <= Len(HuntSizes)
              /\ requestToSize' = [requestToSize EXCEPT ![rung + 1] = HuntSizes[rung]]
    BY <1>6 DEF SubscribeRung, SetupFails
  <2>2. (rung + 1) - 1 = rung
    BY LadderFacts DEF TypeOK, PlaceType
  <2> QED
    BY <1>0, <2>1, <2>2 DEF MemoryType
<1>7. ASSUME NEW r \in RequestIds, NEW id \in StreamIds, ServerOpens(r, id) PROVE RegistryAgrees'
  <2>1. opened[id] = None /\ opened' = [opened EXCEPT ![id] = HuntSizes[r - 1]]
        /\ responses' = responses \union {<<r, id>>} /\ UNCHANGED <<requestToSize, streamToSize>>
    BY <1>7 DEF ServerOpens
  <2>2. streamToSize[id] = None
    BY <2>1
  <2>3. \A q \in RequestIds : <<q, id>> \notin responses
    BY <2>1, RequestFacts
  <2>4. \A i \in StreamIds : opened'[i] = IF i = id THEN HuntSizes[r - 1] ELSE opened[i]
    BY <1>0, <2>1 DEF ServerType
  <2>5. ASSUME NEW q \in RequestIds, NEW i \in StreamIds, <<q, i>> \in responses'
        PROVE  opened'[i] = HuntSizes[q - 1]
    <3>1. CASE i = id
      BY <2>1, <2>3, <2>4, <2>5, <3>1
    <3>2. CASE i # id
      BY <2>1, <2>4, <2>5, <3>2
    <3> QED
      BY <3>1, <3>2
  <2>6. \A i \in StreamIds : streamToSize'[i] # None => streamToSize'[i] = opened'[i]
    BY <2>1, <2>2, <2>4
  <2> QED
    BY <2>1, <2>5, <2>6
<1>8. ASSUME NEW r \in RequestIds, NEW id \in StreamIds, ReadResponse(r, id) PROVE RegistryAgrees'
  <2>1. /\ <<r, id>> \in responses /\ responses' \subseteq responses
        /\ UNCHANGED <<requestToSize, opened>>
        /\ \/ streamToSize' = streamToSize
           \/ requestToSize[r] # None /\ streamToSize' = [streamToSize EXCEPT ![id] = requestToSize[r]]
    BY <1>8 DEF ReadResponse
  <2>2. opened[id] = HuntSizes[r - 1] /\ (requestToSize[r] # None => requestToSize[r] = opened[id])
    BY <2>1
  <2> QED
    BY <1>0, <2>1, <2>2 DEF MemoryType
<1>9. ASSUME NEW r \in RequestIds, ReadError(r) PROVE RegistryAgrees'
  BY <1>9 DEF ReadError
<1>10. ASSUME NEW id \in StreamIds, NEW amount \in {opened[id], 0}, ReadQuote(id, amount) PROVE RegistryAgrees'
  BY <1>10 DEF ReadQuote
<1> QED
  BY <1>1, <1>2, <1>3, <1>4, <1>5, <1>6, <1>7, <1>8, <1>9, <1>10 DEF Next

\* A size is sent exactly when the request of its rung is registered.
LEMMA SentFacts ==
  /\ SentThisSession \subseteq Ladder
  /\ \A i \in 1..Len(HuntSizes) : HuntSizes[i] \in SentThisSession <=> requestToSize[i + 1] # None
<1>1. SentThisSession \subseteq Ladder
  BY RequestFacts DEF SentThisSession
<1>2. ASSUME NEW i \in 1..Len(HuntSizes)
      PROVE  HuntSizes[i] \in SentThisSession <=> requestToSize[i + 1] # None
  <2>1. i + 1 \in RequestIds /\ (i + 1) - 1 = i
    BY RequestFacts
  <2>2. ASSUME NEW r \in RequestIds, HuntSizes[r - 1] = HuntSizes[i] PROVE r = i + 1
    BY <2>2, RequestFacts, LadderFacts
  <2> QED
    BY <2>1, <2>2 DEF SentThisSession
<1> QED
  BY <1>1, <1>2

\* A quote is filed under a size that was asked for, or under none: it never
\* takes the flag off a rung.
LEMMA QuoteIsSent ==
  ASSUME TypeOK, RegistryAgrees, SessionAgrees,
         NEW id \in StreamIds, NEW amount \in {opened[id], 0}, ReadQuote(id, amount)
  PROVE  \E size \in Sizes :
           /\ size \in {opened[id], 0}
           /\ (size = 0 \/ size \in SentThisSession)
           /\ quotes' = quotes + 1 /\ unsubscribed' = unsubscribed
           /\ pins' = [pins EXCEPT ![size] = quotes + 1]
           /\ quote' = [size |-> size, stamp |-> quotes + 1, origin |-> opened[id]] /\ quote' # None
<1>1. PICK size \in Sizes :
           /\ size = (IF streamToSize[id] # None THEN streamToSize[id] ELSE amount)
           /\ opened[id] \in Ladder
           /\ quotes + 1 \in 1..MaxQuotes /\ quotes \in Nat /\ quotes' = quotes + 1
           /\ unsubscribed' = unsubscribed \ {size}
           /\ pins' = [pins EXCEPT ![size] = quotes + 1]
           /\ quote' = [size |-> size, stamp |-> quotes + 1, origin |-> opened[id]]
           /\ quote' \in Quotes /\ quote' # None
  BY QuoteRead, Zenon
<1>2. opened[id] # None /\ pc = "read"
  BY DEF ReadQuote
<1>3. size \in {opened[id], 0}
  BY <1>1 DEF RegistryAgrees
<1>4. opened[id] \in SentThisSession
  BY <1>2 DEF SessionAgrees, SessionPCs, PCs
<1>5. size \notin unsubscribed
  <2>1. CASE size = 0
    BY <2>1, SizeFacts DEF TypeOK, MemoryType
  <2>2. CASE size \in SentThisSession
    <3>1. PICK i \in 1..Len(HuntSizes) : size = HuntSizes[i]
      BY <2>2, SentFacts DEF Ladder
    <3>2. requestToSize[i + 1] # None
      BY <2>2, <3>1, SentFacts
    <3> QED
      BY <1>2, <3>1, <3>2 DEF SessionAgrees, SessionPCs, PCs
  <2> QED
    BY <1>3, <1>4, <2>1, <2>2
<1> QED
  BY <1>1, <1>3, <1>4, <1>5

\* Within a session the flagged rungs are those passed over.
LEMMA SessionNext == ASSUME TypeOK, RegistryAgrees, SessionAgrees, [Next]_vars PROVE SessionAgrees'
<1>0. MemoryType /\ ServerType /\ PlaceType /\ Len(HuntSizes) \in Nat \ {0}
  BY LadderFacts DEF TypeOK
<1> USE DEF registry, server, sizeBoard
<1>c. \A x \in PCs : x \in SessionPCs <=> x \in {"subscribe", "read", "row", "board", "record"}
  BY DEF SessionPCs, PCs
<1>1. ASSUME UNCHANGED <<requestToSize, pins, ladder, unsubscribed, opened, rung>>,
             asked' \subseteq asked, pc' \in SessionPCs => pc \in SessionPCs,
             pc' \in ReadingPCs => pc \in ReadingPCs
      PROVE  SessionAgrees'
  BY <1>1 DEF SessionAgrees, SentThisSession
<1>2. CASE UNCHANGED vars
  BY <1>1, <1>2 DEF vars
<1>3. CASE Boot \/ Crash \/ SetupFails \/ CloseSession
  <2>1. pc' \notin SessionPCs
    BY <1>3 DEF Boot, Crash, SetupFails, CloseSession, SessionPCs, PCs
  <2> QED
    BY <2>1 DEF SessionAgrees
<1>4. CASE WriteRow \/ PublishBoard \/ Record
  BY <1>1, <1>4 DEF WriteRow, PublishBoard, Record, SessionPCs, ReadingPCs, PCs
<1>5. ASSUME NEW s \in Sizes, Expire(s) PROVE SessionAgrees'
  BY <1>1, <1>5 DEF Expire
<1>6. CASE OpenSession
  BY <1>0, <1>6, SizeFacts, RequestFacts DEF OpenSession, SessionAgrees, ReadingPCs
<1>7. CASE SkipRung
  <2>1. /\ pc = "subscribe" /\ pc' = pc /\ rung \in 1..Len(HuntSizes) /\ rung' = rung + 1
        /\ unsubscribed' = unsubscribed \union {HuntSizes[rung]}
        /\ UNCHANGED <<requestToSize, pins, ladder, asked, opened>>
    BY <1>0, <1>7 DEF SkipRung, PlaceType
  <2>2. pc \in SessionPCs /\ pc' \notin ReadingPCs
    BY <2>1 DEF SessionPCs, ReadingPCs, PCs
  <2>3. SentThisSession' = SentThisSession
    BY <2>1 DEF SentThisSession
  <2>4. ASSUME NEW i \in 1..Len(HuntSizes)
        PROVE  /\ HuntSizes[i] \in unsubscribed' <=> i < rung' /\ requestToSize'[i + 1] = None
               /\ i >= rung' => requestToSize'[i + 1] = None
    <3>1. /\ HuntSizes[i] \in unsubscribed <=> i < rung /\ requestToSize[i + 1] = None
          /\ i >= rung => requestToSize[i + 1] = None
      BY <2>2 DEF SessionAgrees
    <3>2. CASE i = rung
      BY <1>0, <2>1, <3>1, <3>2
    <3>3. CASE i # rung
      <4>1. HuntSizes[i] # HuntSizes[rung]
        BY <2>1, <3>3, LadderFacts
      <4> QED
        BY <1>0, <2>1, <3>1, <3>3, <4>1
    <3> QED
      BY <3>2, <3>3
  <2> QED
    BY <2>1, <2>2, <2>3, <2>4 DEF SessionAgrees
<1>8. CASE SubscribeRung
  <2>1. /\ pc = "subscribe" /\ pc' = pc /\ rung \in 1..Len(HuntSizes) /\ rung' = rung + 1
        /\ requestToSize' = [requestToSize EXCEPT ![rung + 1] = HuntSizes[rung]]
        /\ asked' = asked \union {rung + 1}
        /\ UNCHANGED <<pins, ladder, unsubscribed, opened>>
    BY <1>0, <1>8 DEF SubscribeRung, PlaceType
  <2>2. pc \in SessionPCs /\ pc' \notin ReadingPCs
    BY <2>1 DEF SessionPCs, ReadingPCs, PCs
  <2>3. rung + 1 \in RequestIds /\ HuntSizes[rung] # None
    BY <2>1, LadderFacts, RequestFacts, SizeFacts
  <2>4. \A r \in RequestIds : requestToSize'[r] = IF r = rung + 1 THEN HuntSizes[rung] ELSE requestToSize[r]
    BY <1>0, <2>1 DEF MemoryType
  <2>5. SentThisSession \subseteq SentThisSession'
    BY <2>3, <2>4 DEF SentThisSession
  <2>6. \A r \in asked' : requestToSize'[r] # None
    BY <1>0, <2>1, <2>2, <2>3, <2>4 DEF SessionAgrees, ServerType
  <2>7. ASSUME NEW i \in 1..Len(HuntSizes)
        PROVE  /\ HuntSizes[i] \in unsubscribed' <=> i < rung' /\ requestToSize'[i + 1] = None
               /\ i >= rung' => requestToSize'[i + 1] = None
    <3>1. /\ HuntSizes[i] \in unsubscribed <=> i < rung /\ requestToSize[i + 1] = None
          /\ i >= rung => requestToSize[i + 1] = None
      BY <2>2 DEF SessionAgrees
    <3>2. requestToSize'[i + 1] = IF i = rung THEN HuntSizes[rung] ELSE requestToSize[i + 1]
      BY <1>0, <2>1, <2>4, RequestFacts
    <3> QED
      BY <1>0, <2>1, <2>3, <3>1, <3>2
  <2> QED
    BY <2>1, <2>2, <2>5, <2>6, <2>7 DEF SessionAgrees
<1>9. CASE Snapshot
  <2>1. /\ pc = "subscribe" /\ rung = Len(HuntSizes) + 1
        /\ UNCHANGED <<requestToSize, pins, ladder, unsubscribed, opened, rung, asked>>
    BY <1>0, <1>9 DEF Snapshot, PlaceType
  <2>2. pc \in SessionPCs /\ SentThisSession' = SentThisSession
    BY <2>1 DEF SessionPCs, PCs, SentThisSession
  <2> QED
    BY <2>1, <2>2 DEF SessionAgrees
<1>10. ASSUME NEW r \in RequestIds, NEW id \in StreamIds, ServerOpens(r, id) PROVE SessionAgrees'
  <2>1. /\ r \in asked /\ opened' = [opened EXCEPT ![id] = HuntSizes[r - 1]]
        /\ asked' \subseteq asked
        /\ UNCHANGED <<pc, requestToSize, pins, ladder, unsubscribed, rung>>
    BY <1>10 DEF ServerOpens
  <2>2. SentThisSession' = SentThisSession
    BY <2>1 DEF SentThisSession
  <2>3. ASSUME pc \in SessionPCs, NEW i \in StreamIds, opened'[i] # None PROVE opened'[i] \in SentThisSession
    <3>1. CASE i = id
      <4>1. opened'[i] = HuntSizes[r - 1]
        BY <1>0, <2>1, <3>1 DEF ServerType
      <4>2. requestToSize[r] # None
        BY <2>1, <2>3 DEF SessionAgrees
      <4> QED
        BY <4>1, <4>2 DEF SentThisSession
    <3>2. CASE i # id
      BY <1>0, <2>1, <2>3, <3>2 DEF ServerType, SessionAgrees
    <3> QED
      BY <3>1, <3>2
  <2> QED
    BY <2>1, <2>2, <2>3 DEF SessionAgrees
<1>11. ASSUME NEW r \in RequestIds, NEW id \in StreamIds, ReadResponse(r, id) PROVE SessionAgrees'
  BY <1>1, <1>11 DEF ReadResponse
<1>12. ASSUME NEW r \in RequestIds, ReadError(r) PROVE SessionAgrees'
  BY <1>1, <1>12 DEF ReadError
<1>13. ASSUME NEW id \in StreamIds, NEW amount \in {opened[id], 0}, ReadQuote(id, amount) PROVE SessionAgrees'
  <2>1. PICK size \in Sizes : /\ size = 0 \/ size \in SentThisSession
                              /\ unsubscribed' = unsubscribed
                              /\ pins' = [pins EXCEPT ![size] = quotes + 1]
    BY <1>13, QuoteIsSent, Zenon
  <2>2. /\ UNCHANGED <<requestToSize, ladder, opened, rung, asked>>
        /\ pc \in SessionPCs /\ pc \in ReadingPCs
    BY <1>13 DEF ReadQuote, SessionPCs, ReadingPCs, PCs
  <2>3. SentThisSession' = SentThisSession
    BY <2>2 DEF SentThisSession
  <2>4. \A s \in Sizes : pins'[s] # 0 => s = 0 \/ s \in SentThisSession
    BY <1>0, <2>1, <2>2 DEF MemoryType, SessionAgrees
  <2> QED
    BY <2>1, <2>2, <2>3, <2>4 DEF SessionAgrees
<1> QED
  BY <1>2, <1>3, <1>4, <1>5, <1>6, <1>7, <1>8, <1>9, <1>10, <1>11, <1>12, <1>13 DEF Next

\* Pins are of this session and the rows are not newer than they.
LEMMA StampsNext ==
  ASSUME TypeOK, RegistryAgrees, SessionAgrees, StampsAgree, [Next]_vars
  PROVE  StampsAgree'
<1>0. /\ MemoryType /\ RedisType /\ PlaceType
      /\ quotes \in Nat /\ sessionFrom \in Nat /\ sessionFrom <= quotes
  BY QuotesAssumption DEF TypeOK, HistoryType
<1>n. /\ \A s \in Sizes : pins[s] \in Nat /\ rows[s].stamp \in Nat
      /\ pc \in PCs /\ (quote # None => pc \in {"row", "board", "record"})
  BY <1>0, QuotesAssumption DEF MemoryType, RedisType, PlaceType
<1> USE DEF sizeBoard, history
<1>1. ASSUME UNCHANGED <<pins, rows, quote, quotes, sessionFrom>>, pc' \in SessionPCs => pc \in SessionPCs
      PROVE  StampsAgree'
  BY <1>1 DEF StampsAgree
<1>2. CASE UNCHANGED vars
  BY <1>1, <1>2 DEF vars
<1>3. CASE Boot \/ SetupFails \/ CloseSession
  BY <1>1, <1>3 DEF Boot, SetupFails, CloseSession, SessionPCs
<1>4. CASE SkipRung \/ SubscribeRung \/ Snapshot \/ PublishBoard
  BY <1>1, <1>4 DEF SkipRung, SubscribeRung, Snapshot, PublishBoard, SessionPCs, PCs
<1>5. CASE Crash
  <2>1. /\ pins' = [s \in Sizes |-> 0] /\ quote' = None /\ pc' \notin SessionPCs
        /\ UNCHANGED <<rows, quotes>>
    BY <1>5 DEF Crash, SessionPCs
  <2> QED
    BY <2>1 DEF StampsAgree
<1>6. ASSUME NEW s \in Sizes, Expire(s) PROVE StampsAgree'
  <2>1. /\ rows' = [rows EXCEPT ![s] = NoRow] /\ UNCHANGED <<pc, pins, quote, quotes, sessionFrom>>
    BY <1>6 DEF Expire
  <2>2. \A q \in Sizes : rows'[q].stamp = IF q = s THEN 0 ELSE rows[q].stamp
    BY <1>0, <2>1 DEF RedisType, NoRow
  <2> QED
    BY <1>0, <1>n, <2>1, <2>2 DEF StampsAgree
<1>7. CASE OpenSession
  <2>1. /\ pins' = [s \in Sizes |-> 0] /\ quote' = quote /\ pc = "down"
        /\ UNCHANGED <<rows, quotes>> /\ sessionFrom' = quotes
    BY <1>7 DEF OpenSession
  <2>2. quote = None
    BY <1>n, <2>1
  <2> QED
    BY <1>0, <1>n, <2>1, <2>2 DEF StampsAgree
<1>8. ASSUME NEW r \in RequestIds, NEW id \in StreamIds, ServerOpens(r, id) \/ ReadResponse(r, id)
      PROVE  StampsAgree'
  BY <1>1, <1>8 DEF ServerOpens, ReadResponse
<1>9. ASSUME NEW r \in RequestIds, ReadError(r) PROVE StampsAgree'
  BY <1>1, <1>9 DEF ReadError
<1>10. ASSUME NEW id \in StreamIds, NEW amount \in {opened[id], 0}, ReadQuote(id, amount) PROVE StampsAgree'
  <2>1. PICK size \in Sizes : /\ size \in {opened[id], 0} /\ quotes' = quotes + 1
                              /\ pins' = [pins EXCEPT ![size] = quotes + 1]
                              /\ quote' = [size |-> size, stamp |-> quotes + 1, origin |-> opened[id]]
    BY <1>10, QuoteIsSent, Zenon
  <2>2. UNCHANGED <<rows, sessionFrom>> /\ pc \in SessionPCs
    BY <1>10 DEF ReadQuote, SessionPCs, PCs
  <2>3. \A s \in Sizes : pins'[s] = IF s = size THEN quotes + 1 ELSE pins[s]
    BY <1>0, <2>1 DEF MemoryType
  <2>4. quote'.stamp = pins'[quote'.size] /\ quote'.size \in {quote'.origin, 0}
    BY <2>1, <2>3
  <2>5. \A s \in Sizes : pins'[s] # 0 => pins'[s] > sessionFrom' /\ pins'[s] <= quotes'
    BY <1>0, <1>n, <2>1, <2>2, <2>3 DEF StampsAgree
  <2>6. \A s \in Sizes : rows'[s].stamp <= quotes'
    BY <1>0, <1>n, <2>1, <2>2 DEF StampsAgree
  <2>7. \A s \in Sizes : rows'[s].stamp > sessionFrom' => pins'[s] >= rows'[s].stamp
    BY <1>0, <1>n, <2>2, <2>3 DEF StampsAgree
  <2> QED
    BY <2>4, <2>5, <2>6, <2>7 DEF StampsAgree
<1>11. CASE WriteRow
  <2>1. /\ pc = "row" /\ UNCHANGED <<pins, quote, quotes, sessionFrom>>
        /\ \/ rows' = rows
           \/ rows' = [rows EXCEPT ![quote.size] = [stamp |-> quote.stamp, origin |-> quote.origin]]
    BY <1>11 DEF WriteRow
  <2>2. pc \in SessionPCs /\ quote # None /\ quote.size \in Sizes /\ quote.stamp \in Nat \ {0}
    BY <1>0, <2>1, QuotesAssumption DEF SessionPCs, PCs, PlaceType, Quotes
  <2>3. \A s \in Sizes : rows'[s].stamp = rows[s].stamp \/ (s = quote.size /\ rows'[s].stamp = quote.stamp)
    BY <1>0, <2>1, <2>2 DEF RedisType
  <2>4. quote.stamp = pins[quote.size] /\ quote.stamp <= quotes
    BY <2>2 DEF StampsAgree
  <2> QED
    BY <1>n, <2>1, <2>2, <2>3, <2>4 DEF StampsAgree
<1>12. CASE Record
  <2>1. /\ UNCHANGED <<pins, rows, quotes, sessionFrom>> /\ quote' = None /\ pc \in SessionPCs
    BY <1>12 DEF Record, SessionPCs, PCs
  <2> QED
    BY <2>1 DEF StampsAgree
<1> QED
  BY <1>2, <1>3, <1>4, <1>5, <1>6, <1>7, <1>8, <1>9, <1>10, <1>11, <1>12 DEF Next

\* Between two quotes the published document is the one the memory would
\* build, unless its last write was lost.
LEMMA BoardNext == ASSUME TypeOK, BoardIsCurrent, [Next]_vars PROVE BoardIsCurrent'
<1>0. pc \in PCs
  BY DEF TypeOK, PlaceType
<1> USE DEF sizeBoard, history
<1>e. ASSUME UNCHANGED <<pins, ladder, unsubscribed>>
      PROVE  [s \in Sizes |-> Entry(s)]' = [s \in Sizes |-> Entry(s)]
  BY <1>e, Zenon DEF Entry
<1>1. ASSUME UNCHANGED <<pins, ladder, unsubscribed, board, lostBoard>>,
             pc' \in {"read", "record"} => pc \in {"read", "record"}
      PROVE  BoardIsCurrent'
  BY <1>e, <1>1, Zenon DEF BoardIsCurrent
<1>2. ASSUME pc' \notin {"read", "record"} PROVE BoardIsCurrent'
  BY <1>2, Zenon DEF BoardIsCurrent
<1>3. CASE UNCHANGED vars
  BY <1>1, <1>3, Zenon DEF vars
<1>4. CASE Boot \/ Crash \/ OpenSession \/ SetupFails \/ CloseSession \/ SkipRung \/ SubscribeRung \/ WriteRow
  <2>1. pc' \notin {"read", "record"}
    BY <1>4 DEF Boot, Crash, OpenSession, SetupFails, CloseSession, SkipRung, SubscribeRung, WriteRow
  <2> QED
    BY <1>2, <2>1, Zenon
<1>5. CASE Snapshot \/ PublishBoard
  <2>1. WriteBoard /\ UNCHANGED <<pins, ladder, unsubscribed>>
    BY <1>5, Zenon DEF Snapshot, PublishBoard
  <2>2. lostBoard' = TRUE \/ board' = [s \in Sizes |-> Entry(s)]
    BY <2>1, Zenon DEF WriteBoard
  <2> QED
    BY <1>e, <2>1, <2>2, Zenon DEF BoardIsCurrent
<1>6. ASSUME NEW s \in Sizes, Expire(s) PROVE BoardIsCurrent'
  BY <1>1, <1>6, Zenon DEF Expire
<1>7. ASSUME NEW r \in RequestIds, NEW id \in StreamIds, ServerOpens(r, id) \/ ReadResponse(r, id)
      PROVE  BoardIsCurrent'
  BY <1>1, <1>7, Zenon DEF ServerOpens, ReadResponse
<1>8. ASSUME NEW r \in RequestIds, ReadError(r) PROVE BoardIsCurrent'
  BY <1>1, <1>8, Zenon DEF ReadError
<1>9. ASSUME NEW id \in StreamIds, NEW amount \in {opened[id], 0}, ReadQuote(id, amount)
      PROVE  BoardIsCurrent'
  <2>1. pc' \notin {"read", "record"}
    BY <1>9 DEF ReadQuote
  <2> QED
    BY <1>2, <2>1, Zenon
<1>10. CASE Record
  <2>1. UNCHANGED <<pins, ladder, unsubscribed, board, lostBoard>> /\ pc = "record"
    BY <1>10, Zenon DEF Record
  <2>2. pc \in {"read", "record"}
    BY <2>1
  <2> QED
    BY <1>1, <2>1, <2>2, Zenon
<1> QED
  BY <1>3, <1>4, <1>5, <1>6, <1>7, <1>8, <1>9, <1>10, Zenon DEF Next

\* A row is written under the size of its stream.
LEMMA RowNext == ASSUME TypeOK, StampsAgree, RowUnderItsSize, [Next]_vars PROVE RowUnderItsSize'
<1>0. PlaceType /\ RedisType
  BY DEF TypeOK
<1>1. ASSUME UNCHANGED rows PROVE RowUnderItsSize'
  BY <1>1 DEF RowUnderItsSize
<1>2. CASE UNCHANGED vars
  BY <1>1, <1>2 DEF vars
<1>3. CASE Boot \/ Crash \/ OpenSession \/ SkipRung \/ SubscribeRung \/ SetupFails \/ Snapshot
            \/ PublishBoard \/ Record \/ CloseSession
  BY <1>1, <1>3 DEF Boot, Crash, OpenSession, SkipRung, SubscribeRung, SetupFails, Snapshot,
     PublishBoard, Record, CloseSession
<1>4. ASSUME NEW r \in RequestIds, NEW id \in StreamIds, ServerOpens(r, id) \/ ReadResponse(r, id)
      PROVE  RowUnderItsSize'
  BY <1>1, <1>4 DEF ServerOpens, ReadResponse
<1>5. ASSUME NEW r \in RequestIds, ReadError(r) PROVE RowUnderItsSize'
  BY <1>1, <1>5 DEF ReadError
<1>6. ASSUME NEW id \in StreamIds, NEW amount \in {opened[id], 0}, ReadQuote(id, amount) PROVE RowUnderItsSize'
  BY <1>1, <1>6 DEF ReadQuote
<1>7. ASSUME NEW s \in Sizes, Expire(s) PROVE RowUnderItsSize'
  BY <1>0, <1>7, SizeFacts DEF Expire, RowUnderItsSize, RedisType
<1>8. CASE WriteRow
  <2>1. /\ quote # None
        /\ \/ rows' = rows
           \/ rows' = [rows EXCEPT ![quote.size] = [stamp |-> quote.stamp, origin |-> quote.origin]]
    BY <1>0, <1>8 DEF WriteRow, PlaceType
  <2>2. quote.size \in Sizes /\ quote.size \in {quote.origin, 0}
    BY <1>0, <2>1 DEF StampsAgree, PlaceType, Quotes
  <2>3. ASSUME NEW s \in Ladder, rows'[s] # NoRow PROVE rows'[s].origin = s
    <3>1. s # 0 /\ s \in Sizes
      BY SizeFacts
    <3>2. CASE s = quote.size /\ rows' # rows
      BY <1>0, <2>1, <2>2, <3>1, <3>2 DEF RedisType
    <3>3. CASE rows'[s] = rows[s]
      BY <2>3, <3>3 DEF RowUnderItsSize
    <3> QED
      BY <1>0, <2>1, <2>2, <3>1, <3>2, <3>3 DEF RedisType
  <2> QED
    BY <2>3 DEF RowUnderItsSize
<1> QED
  BY <1>2, <1>3, <1>4, <1>5, <1>6, <1>7, <1>8 DEF Next

-----------------------------------------------------------------------------
(* The inductive invariant *)

LEMMA InvInit == Init => IInv
<1> SUFFICES ASSUME Init PROVE IInv
  OBVIOUS
<1>1. TypeOK
  BY TypeInit
<1>2. RegistryAgrees
  BY DEF Init, RegistryAgrees
<1>3. SessionAgrees
  BY DEF Init, SessionAgrees, SessionPCs
<1>4. StampsAgree
  BY DEF Init, StampsAgree, SessionPCs, NoRow
<1>5. BoardIsCurrent
  BY DEF Init, BoardIsCurrent
<1>6. Bounded /\ Level
  BY DEF Init, Bounded, Level, One
<1>7. RowUnderItsSize
  BY SizeFacts DEF Init, RowUnderItsSize
<1> QED
  BY <1>1, <1>2, <1>3, <1>4, <1>5, <1>6, <1>7, Zenon DEF IInv, CountersBound, Bounded, Level

LEMMA InvNext == IInv /\ [Next]_vars => IInv'
<1> SUFFICES ASSUME IInv, [Next]_vars PROVE IInv'
  OBVIOUS
<1>1. /\ TypeOK /\ RegistryAgrees /\ SessionAgrees /\ StampsAgree /\ BoardIsCurrent
      /\ Bounded /\ (~torn => Level) /\ RowUnderItsSize
  BY Zenon DEF IInv, CountersBound, Bounded, Level
<1>2. TypeOK' /\ Bounded'
  BY <1>1, TypeNext, BoundedNext, Zenon
<1>3. RegistryAgrees' /\ SessionAgrees'
  BY <1>1, RegistryNext, SessionNext, Zenon
<1>4. StampsAgree' /\ BoardIsCurrent' /\ RowUnderItsSize'
  BY <1>1, StampsNext, BoardNext, RowNext, Zenon
<1>5. ~torn' => Level'
  BY <1>1, LevelNext, Zenon
<1> QED
  BY <1>2, <1>3, <1>4, <1>5, Zenon DEF IInv, CountersBound, Bounded, Level

\* The inductive invariant holds in every behaviour.
THEOREM InvHolds == Spec => []IInv
  BY InvInit, InvNext, PTL DEF Spec

\* Every variable keeps to its type, for any ladder and any number of quotes.
THEOREM TypeCorrect == Spec => []TypeOK
<1>1. IInv => TypeOK
  BY Zenon DEF IInv
<1> QED
  BY <1>1, InvHolds, PTL

\* A row of a size holds a quote of the stream opened for that size, in
\* whatever order responses, quotes and reconnects came.
THEOREM RowsAreUnderTheirSize == Spec => []RowUnderItsSize
<1>1. IInv => RowUnderItsSize
  BY Zenon DEF IInv
<1> QED
  BY <1>1, InvHolds, PTL

\* While a session reads and the last write of the board was not lost, the
\* board holds quotes of this session only.
THEOREM BoardIsOfItsSession == Spec => []BoardIsOfThisSession
<1>1. IInv => BoardIsOfThisSession
  <2> SUFFICES ASSUME IInv, pc = "read", ~lostBoard, NEW s \in Sizes, board[s].stamp # 0
               PROVE  board[s].stamp > sessionFrom
    BY Zenon DEF BoardIsOfThisSession
  <2>1. board = [q \in Sizes |-> Entry(q)]
    BY Zenon DEF IInv, BoardIsCurrent
  <2>2. board[s] = Entry(s)
    BY <2>1, Zenon
  <2>3. pins[s] # 0 /\ board[s].stamp = pins[s]
    BY <2>2 DEF Entry, Absent
  <2> QED
    BY <2>3 DEF IInv, StampsAgree
<1> QED
  BY <1>1, InvHolds, PTL

\* The board just built is behind no row of the session.
LevelOnceBuilt == pc \in {"read", "record"} /\ ~lostBoard => AheadOfBoard = {}
LEMMA BuiltIsLevel == IInv => LevelOnceBuilt
<1> SUFFICES ASSUME TypeOK, StampsAgree, BoardIsCurrent, pc \in {"read", "record"}, ~lostBoard,
                    NEW s \in Sizes, rows[s].stamp > sessionFrom
             PROVE  ~(rows[s].stamp > board[s].stamp)
  BY Zenon DEF IInv, LevelOnceBuilt, AheadOfBoard
<1>0. board = [q \in Sizes |-> Entry(q)]
  BY Zenon DEF BoardIsCurrent
<1>1. board[s] = Entry(s)
  BY <1>0, Zenon
<1>2. pins[s] >= rows[s].stamp
  BY DEF StampsAgree, SessionPCs, PCs
<1>3. sessionFrom \in Nat /\ rows[s].stamp \in Nat /\ pins[s] \in Nat
  BY QuotesAssumption DEF TypeOK, HistoryType, RedisType, MemoryType
<1> QED
  BY <1>1, <1>2, <1>3 DEF Entry

\* A step brings no row ahead of the board but the one it writes.
LEMMA AheadNext ==
  ASSUME IInv, IInv', LevelOnceBuilt', OnlyRowInHandIsAhead, [Next]_vars
  PROVE  OnlyRowInHandIsAhead'
<1>t. /\ TypeOK /\ TypeOK' /\ StampsAgree
      /\ pc \in PCs /\ pc' \in PCs
  BY DEF IInv, TypeOK, PlaceType
<1>p. ASSUME pc \in SessionPCs, ~lostBoard, NEW s \in AheadOfBoard
      PROVE  pc = "board" /\ s = quote.size /\ rows[s].stamp = quote.stamp
  BY <1>p, Zenon DEF OnlyRowInHandIsAhead
<1>o. ASSUME pc' \notin SessionPCs PROVE OnlyRowInHandIsAhead'
  BY <1>o, Zenon DEF OnlyRowInHandIsAhead, SessionPCs, PCs
<1>z. ASSUME ~lostBoard' => AheadOfBoard' = {} PROVE OnlyRowInHandIsAhead'
  BY <1>z, Zenon DEF OnlyRowInHandIsAhead
<1>b. ASSUME pc' \in {"read", "record"} PROVE OnlyRowInHandIsAhead'
  BY <1>b, <1>z, Zenon DEF LevelOnceBuilt
<1>k. ASSUME UNCHANGED <<rows, board, sessionFrom, lostBoard>>,
             pc \in SessionPCs, pc # "board" \/ UNCHANGED <<pc, quote>>
      PROVE  OnlyRowInHandIsAhead'
  <2>1. AheadOfBoard' = AheadOfBoard
    BY <1>k, Zenon DEF AheadOfBoard
  <2> QED
    BY <1>k, <1>p, <2>1, Zenon DEF OnlyRowInHandIsAhead
<1> USE DEF history, sizeBoard, counters, server
<1>1. CASE UNCHANGED vars
  BY <1>1, <1>k, <1>o, Zenon DEF vars
<1>2. CASE Boot \/ Crash \/ SetupFails \/ CloseSession
  BY <1>2, <1>o DEF Boot, Crash, SetupFails, CloseSession, SessionPCs
<1>3. CASE Snapshot \/ PublishBoard \/ Record
  BY <1>3, <1>b DEF Snapshot, PublishBoard, Record
<1>4. ASSUME NEW r \in RequestIds, (\E id \in StreamIds : ReadResponse(r, id)) \/ ReadError(r)
      PROVE  OnlyRowInHandIsAhead'
  BY <1>4, <1>b DEF ReadResponse, ReadError
<1>5. CASE OpenSession
  <2>1. \A s \in Sizes : rows'[s].stamp <= sessionFrom'
    BY <1>5, <1>t DEF OpenSession, StampsAgree
  <2>2. ASSUME NEW s \in Sizes PROVE rows'[s].stamp \in Nat /\ sessionFrom' \in Nat
    BY <1>t, QuotesAssumption DEF TypeOK, RedisType, HistoryType
  <2>3. AheadOfBoard' = {}
    BY <2>1, <2>2 DEF AheadOfBoard
  <2> QED
    BY <1>z, <2>3, Zenon
<1>6. CASE SkipRung \/ SubscribeRung
  BY <1>6, <1>k DEF SkipRung, SubscribeRung, SessionPCs, PCs
<1>7. ASSUME NEW r \in RequestIds, NEW id \in StreamIds, ServerOpens(r, id) PROVE OnlyRowInHandIsAhead'
  BY <1>7, <1>k DEF ServerOpens, SessionPCs, PCs
<1>8. ASSUME NEW id \in StreamIds, NEW amount \in {opened[id], 0}, ReadQuote(id, amount)
      PROVE  OnlyRowInHandIsAhead'
  BY <1>8, <1>k DEF ReadQuote, SessionPCs, PCs
<1>9. CASE WriteRow
  <2>1. pc = "row" /\ pc' = "board" /\ UNCHANGED <<board, sessionFrom, lostBoard, quote>>
    BY <1>9 DEF WriteRow
  <2>2. pc \in SessionPCs
    BY <2>1 DEF SessionPCs, PCs
  <2>3. \A s \in Sizes : s # quote.size => rows'[s] = rows[s]
    BY <1>9, <1>t DEF WriteRow, TypeOK, RedisType
  <2>4. rows' = rows \/ (quote.size \in Sizes => rows'[quote.size].stamp = quote.stamp)
    BY <1>9, <1>t DEF WriteRow, TypeOK, RedisType
  <2>5. ASSUME ~lostBoard', NEW s \in AheadOfBoard' PROVE s = quote.size /\ rows'[s].stamp = quote.stamp
    <3>1. s \notin AheadOfBoard /\ s \in Sizes
      BY <1>p, <2>1, <2>2, <2>5 DEF AheadOfBoard
    <3>2. rows'[s] # rows[s]
      BY <2>1, <2>5, <3>1, Zenon DEF AheadOfBoard
    <3> QED
      BY <2>3, <2>4, <3>1, <3>2, Zenon
  <2> QED
    BY <2>1, <2>5, Zenon DEF OnlyRowInHandIsAhead
<1>10. ASSUME NEW x \in Sizes, Expire(x) PROVE OnlyRowInHandIsAhead'
  <2>1. UNCHANGED <<pc, board, quote, sessionFrom, lostBoard>>
    BY <1>10, Zenon DEF Expire
  <2>2. ASSUME NEW s \in AheadOfBoard' PROVE s \in AheadOfBoard /\ rows'[s] = rows[s]
    <3>1. s \in Sizes /\ rows'[s].stamp > sessionFrom /\ rows'[s].stamp > board[s].stamp
      BY <2>1, <2>2, Zenon DEF AheadOfBoard
    <3>2. rows'[s] = rows[s]
      <4>1. sessionFrom \in Nat /\ ~(0 > sessionFrom)
        BY <1>t DEF TypeOK, HistoryType
      <4>2. rows'[s] # NoRow
        BY <3>1, <4>1 DEF NoRow
      <4> QED
        BY <1>10, <1>t, <3>1, <4>2 DEF Expire, TypeOK, RedisType
    <3> QED
      BY <3>1, <3>2, Zenon DEF AheadOfBoard
  <2> QED
    BY <1>p, <2>1, <2>2, Zenon DEF OnlyRowInHandIsAhead
<1> QED
  BY <1>1, <1>2, <1>3, <1>4, <1>5, <1>6, <1>7, <1>8, <1>9, <1>10, Zenon DEF Next

\* A hunter that reads in a session, also between two calls of one publication,
\* finds no row of the session ahead of the board but that of the quote being
\* published, and that only until the board is written.
THEOREM RowsAheadAreInHand == Spec => []OnlyRowInHandIsAhead
<1>1. Init => OnlyRowInHandIsAhead
  BY DEF Init, OnlyRowInHandIsAhead, SessionPCs
<1>2. IInv /\ IInv' /\ LevelOnceBuilt' /\ OnlyRowInHandIsAhead /\ [Next]_vars => OnlyRowInHandIsAhead'
  BY AheadNext, Zenon
<1> QED
  BY <1>1, <1>2, BuiltIsLevel, InvHolds, PTL DEF Spec

\* The board flags a rung exactly when no subscription for it was sent in this
\* session, and no rung of the ladder is missing from it.
THEOREM FlagsAreAlwaysHonest == Spec => []FlagsAreHonest
<1>1. IInv => FlagsAreHonest
  <2> SUFFICES ASSUME IInv, pc = "read", ~lostBoard, NEW s \in Ladder
               PROVE  /\ board[s].status # "absent"
                      /\ board[s].status = "unsubscribed" <=> s \notin SentThisSession
    BY Zenon DEF FlagsAreHonest
  <2>0. s \in Sizes /\ s # 0
    BY SizeFacts
  <2>1. board = [q \in Sizes |-> Entry(q)]
    BY Zenon DEF IInv, BoardIsCurrent
  <2>2. board[s] = Entry(s)
    BY <2>0, <2>1, Zenon
  <2>3. pc \in SessionPCs /\ pc \in ReadingPCs
    BY DEF SessionPCs, ReadingPCs, PCs
  <2>4. SessionAgrees /\ Len(HuntSizes) \in Nat
    BY LadderFacts DEF IInv
  <2>5. PICK i \in 1..Len(HuntSizes) : s = HuntSizes[i]
    BY DEF Ladder
  <2>6. s \in unsubscribed <=> s \notin SentThisSession
    <3>1. i < rung
      BY <2>3, <2>4, <2>5 DEF SessionAgrees
    <3>2. s \in unsubscribed <=> requestToSize[i + 1] = None
      BY <2>3, <2>4, <2>5, <3>1 DEF SessionAgrees
    <3> QED
      BY <2>5, <3>2, SentFacts
  <2>7. ladder = Ladder /\ (pins[s] # 0 => s \in SentThisSession)
    BY <2>0, <2>3, <2>4 DEF SessionAgrees
  <2> QED
    BY <2>2, <2>6, <2>7 DEF Entry
<1> QED
  BY <1>1, InvHolds, PTL

\* While no call was lost and no quote is in hand, every row written was
\* counted once as a frame and once as decoded.
THEOREM CountersAlwaysAgree == Spec => []CountersAgree
<1>1. IInv => CountersAgree
  <2> SUFFICES ASSUME IInv, ~torn, quote = None PROVE frames = decoded /\ decoded = served
    BY Zenon DEF CountersAgree
  <2>1. Level
    BY Zenon DEF IInv, CountersBound, Level
  <2>2. pc \notin {"board", "record"} /\ decoded \in Nat
    BY DEF IInv, TypeOK, PlaceType, RedisType, PCs
  <2> QED
    BY <2>1, <2>2 DEF Level, One
<1> QED
  BY <1>1, InvHolds, PTL
=============================================================================
