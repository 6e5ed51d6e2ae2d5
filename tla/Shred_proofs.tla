--------------------------- MODULE Shred_proofs ---------------------------
(***************************************************************************)
(* Proofs about the shred path.  The reassembler, for any sets, shreds and *)
(* capacity: what a batch is made of, how much is held and what is given   *)
(* up.  The listener: the bounds of its parser, for every datagram; the    *)
(* agreement of its two sets of counters, and what may be left of an       *)
(* earlier process, for every bound.  The two together: the listener that  *)
(* owns its buffer is the listener, and deshreds no datagram twice.        *)
(***************************************************************************)
EXTENDS ShredFeed, FiniteSetTheorems, TLAPS

-----------------------------------------------------------------------------
(* What the trim keeps and what it gives up *)

\* A set of numbers has a least one.
LEMMA Least ==
  ASSUME NEW S \in SUBSET Nat, S # {}
  PROVE  \E m \in S : \A n \in S : m <= n
<1> DEFINE F == {0..n : n \in S}
<1>1. IsWellFoundedOn(StrictSubsetOrdering(Nat), FiniteSubsetsOf(Nat))
  BY FS_StrictSubsetOrderingWellFounded
<1>2. F \subseteq FiniteSubsetsOf(Nat) /\ F # {}
  <2>1. \A n \in S : 0..n \subseteq Nat /\ IsFiniteSet(0..n)
    BY FS_Interval
  <2> QED
    BY <2>1 DEF FiniteSubsetsOf
<1>3. PICK I \in F : \A J \in F : <<J, I>> \notin StrictSubsetOrdering(Nat)
  <2> HIDE DEF F
  <2> QED
    BY <1>1, <1>2, WFMin
<1>4. PICK m \in S : I = 0..m
  BY <1>3
<1>5. ASSUME NEW n \in S, n < m PROVE FALSE
  <2>1. 0..n \in F /\ 0..n \subseteq 0..m /\ m \in 0..m /\ m \notin 0..n
    BY <1>5
  <2>2. <<0..n, I>> \in StrictSubsetOrdering(Nat)
    BY <2>1, <1>4 DEF StrictSubsetOrdering
  <2> QED
    BY <1>3, <2>1, <2>2
<1> QED
  BY <1>5

LEMMA HeldFinite ==
  ASSUME NEW buffer
  PROVE  /\ IsFiniteSet(HeldKeys(buffer)) /\ Cardinality(HeldKeys(buffer)) \in Nat
         /\ \A k : IsFiniteSet(NewerThan(k, buffer)) /\ Cardinality(NewerThan(k, buffer)) \in Nat
<1>1. HeldKeys(buffer) \subseteq Keys /\ IsFiniteSet(Keys)
  BY KeysAssumption DEF HeldKeys
<1>2. IsFiniteSet(HeldKeys(buffer))
  BY <1>1, FS_Subset
<1>3. \A k : NewerThan(k, buffer) \subseteq HeldKeys(buffer)
  BY DEF NewerThan
<1>4. \A k : IsFiniteSet(NewerThan(k, buffer))
  BY <1>2, <1>3, FS_Subset
<1> QED
  BY <1>2, <1>4, FS_CardinalityType

\* What the trim keeps: the sets with fewer than MaxSets newer ones.
LEMMA TrimKeeps ==
  ASSUME NEW buffer \in [Keys -> SUBSET Indices]
  PROVE  HeldKeys(Trim(buffer)) = {k \in HeldKeys(buffer) : Cardinality(NewerThan(k, buffer)) < MaxSets}
<1>1. \A k \in Keys : Trim(buffer)[k] = IF Cardinality(NewerThan(k, buffer)) < MaxSets THEN buffer[k] ELSE {}
  BY DEF Trim
<1> QED
  BY <1>1 DEF HeldKeys

\* They are at most MaxSets: all but the least are newer than the least.
LEMMA TrimFits ==
  ASSUME NEW buffer \in [Keys -> SUBSET Indices]
  PROVE  Cardinality(HeldKeys(Trim(buffer))) <= MaxSets
<1> DEFINE S == HeldKeys(Trim(buffer))
<1>1. S \subseteq Nat /\ IsFiniteSet(S)
  BY KeysAssumption, HeldFinite DEF HeldKeys
<1>2. S = {k \in HeldKeys(buffer) : Cardinality(NewerThan(k, buffer)) < MaxSets}
  BY TrimKeeps
<1> HIDE DEF S
<1>3. CASE S = {}
  BY <1>3, FS_EmptySet, MaxSetsAssumption DEF S
<1>4. CASE S # {}
  <2>1. PICK m \in S : \A n \in S : m <= n
    BY <1>1, <1>4, Least
  <2>2. S \ {m} \subseteq NewerThan(m, buffer)
    <3> SUFFICES ASSUME NEW n \in S, n # m PROVE n \in NewerThan(m, buffer)
      OBVIOUS
    <3>1. m <= n /\ m \in Nat /\ n \in Nat
      BY <1>1, <2>1
    <3>2. n > m
      BY <3>1
    <3>3. n \in HeldKeys(buffer)
      BY <1>2
    <3> QED
      BY <3>2, <3>3 DEF NewerThan
  <2>3. Cardinality(NewerThan(m, buffer)) \in Nat /\ Cardinality(NewerThan(m, buffer)) < MaxSets
    BY <1>2, HeldFinite
  <2>4. Cardinality(S \ {m}) <= Cardinality(NewerThan(m, buffer))
    BY <2>2, HeldFinite, FS_Subset
  <2>5. Cardinality(S \ {m}) = Cardinality(S) - 1 /\ Cardinality(S) \in Nat
    BY <1>1, FS_RemoveElement, FS_CardinalityType
  <2> QED
    BY <2>3, <2>4, <2>5, MaxSetsAssumption DEF S
<1> QED
  BY <1>3, <1>4

\* A set that goes leaves MaxSets newer ones behind.  Of the sets that go and are
\* not older than it, take the one with the fewest newer: those all stay.
LEMMA DroppedForNewer ==
  ASSUME NEW buffer \in [Keys -> SUBSET Indices],
         NEW k \in HeldKeys(buffer) \ HeldKeys(Trim(buffer))
  PROVE  Cardinality(NewerThan(k, Trim(buffer))) = MaxSets
<1> DEFINE newer(j) == NewerThan(j, buffer)
           kept == NewerThan(k, Trim(buffer))
           going == {j \in newer(k) \union {k} : ~(Cardinality(newer(j)) < MaxSets)}
           counts == {Cardinality(newer(j)) : j \in going}
<1>1. HeldKeys(Trim(buffer)) = {j \in HeldKeys(buffer) : Cardinality(newer(j)) < MaxSets}
  BY TrimKeeps
<1>2. HeldKeys(buffer) \subseteq Nat /\ k \in Nat
  BY KeysAssumption DEF HeldKeys
<1>3. k \in going
  BY <1>1
<1>4. counts \in SUBSET Nat /\ counts # {}
  BY <1>3, HeldFinite
<1>5. PICK g \in going : \A j \in going : Cardinality(newer(g)) <= Cardinality(newer(j))
  <2> HIDE DEF counts, newer
  <2>1. PICK c \in counts : \A d \in counts : c <= d
    BY <1>4, Least
  <2> QED
    BY <2>1 DEF counts
<1>6. newer(g) \subseteq kept
  <2> SUFFICES ASSUME NEW j \in newer(g) PROVE j \in kept
    OBVIOUS
  <2>1. /\ j \in HeldKeys(buffer) /\ j > g /\ j \in Nat /\ g \in Nat
        /\ g \in newer(k) \union {k} /\ g >= k
    BY <1>2 DEF NewerThan
  <2>2. j > k /\ j \in newer(k)
    BY <1>2, <2>1 DEF NewerThan
  <2>3. newer(j) \subseteq newer(g) \ {j}
    BY <1>2, <2>1 DEF NewerThan
  <2>4. Cardinality(newer(j)) <= Cardinality(newer(g) \ {j})
    BY <2>3, HeldFinite, FS_RemoveElement, FS_Subset
  <2>5. Cardinality(newer(g) \ {j}) = Cardinality(newer(g)) - 1
    BY HeldFinite, FS_RemoveElement
  <2>6. Cardinality(newer(j)) \in Nat /\ Cardinality(newer(g)) \in Nat
    BY HeldFinite
  <2>7. j \notin going
    <3> HIDE DEF newer, going
    <3> QED
      BY <1>5, <2>4, <2>5, <2>6
  <2>8. Cardinality(newer(j)) < MaxSets
    BY <2>2, <2>7
  <2> QED
    BY <1>1, <2>1, <2>2, <2>8 DEF NewerThan
<1>7. Cardinality(newer(g)) <= Cardinality(kept)
  BY <1>6, HeldFinite, FS_Subset
<1>8. MaxSets <= Cardinality(newer(g))
  BY HeldFinite, MaxSetsAssumption
<1>9. Cardinality(kept) <= MaxSets
  <2>1. kept \subseteq HeldKeys(Trim(buffer))
    BY DEF NewerThan
  <2>2. Cardinality(kept) <= Cardinality(HeldKeys(Trim(buffer)))
    BY <2>1, HeldFinite, FS_Subset
  <2> QED
    BY <2>2, TrimFits, HeldFinite, MaxSetsAssumption
<1>10. Cardinality(kept) \in Nat /\ Cardinality(newer(g)) \in Nat /\ MaxSets \in Nat
  BY HeldFinite, MaxSetsAssumption
<1> HIDE DEF kept, newer
<1> QED
  BY <1>7, <1>8, <1>9, <1>10 DEF kept

\* trim_old_sets leaves a set as it is or removes all of it.
LEMMA TrimKeepsOrEmpties ==
  ASSUME NEW buffer \in [Keys -> SUBSET Indices]
  PROVE  /\ Trim(buffer) \in [Keys -> SUBSET Indices]
         /\ \A k \in Keys : Trim(buffer)[k] \in {buffer[k], {}}
  BY DEF Trim

\* So a set that is not newly among the dropped is as it was before the trim.
LEMMA KeptUnlessDropped ==
  ASSUME NEW buffer \in [Keys -> SUBSET Indices], NEW k \in Keys,
         k \notin HeldKeys(buffer) \ HeldKeys(Trim(buffer))
  PROVE  Trim(buffer)[k] = buffer[k]
<1>1. Trim(buffer)[k] \in {buffer[k], {}}
  BY TrimKeepsOrEmpties
<1>2. buffer[k] # {} => Trim(buffer)[k] # {}
  BY DEF HeldKeys
<1> QED
  BY <1>1, <1>2

\* The buffer between the cut and the trim.
LEMMA AfterCutShape ==
  ASSUME ShapeOK, NEW k \in Keys, NEW i \in Indices
  PROVE  /\ Inserted(k, i) \in [Keys -> SUBSET Indices]
         /\ AfterCut(k, i) \in [Keys -> SUBSET Indices]
  BY DEF ShapeOK, Inserted, AfterCut

-----------------------------------------------------------------------------
(* The reassembler *)

LEMMA BufferInitially == BufferInit => BufferIInv
  BY DEF BufferInit, BufferIInv, ShapeOK, HeldArrived, BatchIsWhatArrived

LEMMA ShapeStays ==
  ASSUME ShapeOK, NEW k \in Keys, NEW i \in Indices, Push(k, i)
  PROVE  ShapeOK'
<1>1. held' \in [Keys -> SUBSET Indices]
  BY AfterCutShape, TrimKeepsOrEmpties DEF Push
<1>2. arrived' \in [Keys -> SUBSET Indices]
  BY DEF Push, ShapeOK
<1>3. dropped' \subseteq Keys
  BY DEF Push, ShapeOK, HeldKeys
<1>4. returned' \in {None} \union Batches
  <2>1. Inserted(k, i)[k] \in SUBSET Indices /\ arrived[k] \union {i} \in SUBSET Indices
    BY AfterCutShape DEF ShapeOK
  <2>2. Deshred(k, i) \in Batches
    BY <2>1 DEF Deshred, Batches
  <2> QED
    BY <2>2 DEF Push
<1> QED
  BY <1>1, <1>2, <1>3, <1>4 DEF ShapeOK

\* A push keeps the buffer within what arrived, and equal to it where nothing
\* was dropped.
LEMMA HeldNext ==
  ASSUME ShapeOK, HeldArrived, NEW k \in Keys, NEW i \in Indices, Push(k, i)
  PROVE  HeldArrived'
<1> DEFINE buffer == AfterCut(k, i)
<1>1. buffer \in [Keys -> SUBSET Indices] /\ held' = Trim(buffer)
  BY AfterCutShape DEF Push
<1> SUFFICES ASSUME NEW j \in Keys
             PROVE  held'[j] \subseteq arrived'[j] /\ (j \notin dropped' => held'[j] = arrived'[j])
  BY DEF HeldArrived
<1>2. buffer[j] \subseteq arrived'[j] /\ (j \notin dropped' => buffer[j] = arrived'[j])
  <2>1. CASE j = k /\ Completes(k, i)
    BY <2>1 DEF Push, AfterCut, ShapeOK
  <2>2. CASE ~Completes(k, i)
    <3>1. j \notin dropped' => j \notin dropped
      BY <2>2 DEF Push
    <3>2. CASE j = k
      BY <2>2, <3>1, <3>2 DEF Push, AfterCut, Inserted, ShapeOK, HeldArrived
    <3>3. CASE j # k
      BY <2>2, <3>1, <3>3 DEF Push, AfterCut, Inserted, ShapeOK, HeldArrived
    <3> QED
      BY <3>2, <3>3
  <2>3. CASE j # k /\ Completes(k, i)
    <3>1. j \notin dropped' => j \notin dropped
      BY <2>3 DEF Push
    <3> QED
      BY <2>3, <3>1 DEF Push, AfterCut, ShapeOK, HeldArrived
  <2> QED
    BY <2>1, <2>2, <2>3
<1>3. held'[j] \in {buffer[j], {}}
  BY <1>1, TrimKeepsOrEmpties
<1>4. j \notin dropped' => held'[j] = buffer[j]
  <2>1. j \notin dropped' => j \notin HeldKeys(buffer) \ HeldKeys(held')
    BY DEF Push
  <2> QED
    BY <1>1, <2>1, KeptUnlessDropped
<1> HIDE DEF buffer
<1> QED
  BY <1>2, <1>3, <1>4

LEMMA BatchNext ==
  ASSUME ShapeOK, HeldArrived, NEW k \in Keys, NEW i \in Indices, Push(k, i)
  PROVE  BatchIsWhatArrived'
<1>1. Inserted(k, i)[k] = held[k] \union {i}
  BY DEF Inserted, ShapeOK
<1>2. returned' = None \/ returned' = Deshred(k, i)
  BY DEF Push
<1>3. held[k] \union {i} \subseteq arrived[k] \union {i}
  BY DEF HeldArrived
<1>4. k \notin dropped => held[k] \union {i} = arrived[k] \union {i}
  BY DEF HeldArrived
<1>5. /\ Deshred(k, i).shreds = held[k] \union {i}
      /\ Deshred(k, i).arrived = arrived[k] \union {i}
  BY <1>1 DEF Deshred
<1>6. Deshred(k, i).trimmed = (k \in dropped)
  BY DEF Deshred
<1>7. ASSUME returned' = Deshred(k, i)
      PROVE  /\ returned'.shreds \subseteq returned'.arrived
             /\ ~returned'.trimmed => returned'.shreds = returned'.arrived
  <2>1. returned'.shreds \subseteq returned'.arrived
    BY <1>3, <1>5, <1>7
  <2>2. ASSUME ~returned'.trimmed PROVE returned'.shreds = returned'.arrived
    <3>1. k \notin dropped
      BY <1>6, <1>7, <2>2, Zenon
    <3> QED
      BY <1>4, <1>5, <1>7, <3>1
  <2> QED
    BY <2>1, <2>2
<1> QED
  BY <1>2, <1>7 DEF BatchIsWhatArrived

THEOREM BufferInductive == BufferSpec => []BufferIInv
<1>1. BufferIInv /\ [BufferNext]_bufferVars => BufferIInv'
  <2> SUFFICES ASSUME BufferIInv, [BufferNext]_bufferVars PROVE BufferIInv'
    OBVIOUS
  <2>1. CASE UNCHANGED bufferVars
    BY <2>1 DEF bufferVars, BufferIInv, ShapeOK, HeldArrived, BatchIsWhatArrived
  <2>2. ASSUME NEW k \in Keys, NEW i \in Indices, Push(k, i) PROVE BufferIInv'
    BY <2>2, ShapeStays, HeldNext, BatchNext DEF BufferIInv
  <2> QED
    BY <2>1, <2>2 DEF BufferNext
<1> QED
  BY <1>1, BufferInitially, PTL DEF BufferSpec

\* For any sets, shreds and capacity: a batch has only shreds that arrived since
\* the set was last cut, and all of them unless the set was dropped.
THEOREM BatchesAreWhatArrived == BufferSpec => []BatchIsWhatArrived
<1>1. BufferIInv => BatchIsWhatArrived
  BY DEF BufferIInv
<1> QED
  BY <1>1, BufferInductive, PTL

\* For any sets, shreds and capacity: between two calls of push the buffer holds
\* at most max_sets sets, whichever of them arrived or were cut.
THEOREM BufferTypeCorrect == BufferSpec => []BufferTypeOK
<1>1. BufferInit => Cardinality(HeldKeys(held)) <= MaxSets
  <2>1. BufferInit => HeldKeys(held) = {}
    BY DEF BufferInit, HeldKeys
  <2> QED
    BY <2>1, FS_EmptySet, MaxSetsAssumption
<1>2. BufferIInv /\ Cardinality(HeldKeys(held)) <= MaxSets /\ [BufferNext]_bufferVars
        => (Cardinality(HeldKeys(held)) <= MaxSets)'
  <2> SUFFICES ASSUME BufferIInv, Cardinality(HeldKeys(held)) <= MaxSets, [BufferNext]_bufferVars
               PROVE  (Cardinality(HeldKeys(held)) <= MaxSets)'
    OBVIOUS
  <2>1. CASE UNCHANGED bufferVars
    BY <2>1 DEF bufferVars, HeldKeys
  <2>2. ASSUME NEW k \in Keys, NEW i \in Indices, Push(k, i)
        PROVE  (Cardinality(HeldKeys(held)) <= MaxSets)'
    <3>1. held' = Trim(AfterCut(k, i)) /\ AfterCut(k, i) \in [Keys -> SUBSET Indices]
      BY <2>2, AfterCutShape DEF Push, BufferIInv
    <3>2. Cardinality(HeldKeys(Trim(AfterCut(k, i)))) <= MaxSets
      BY <3>1, TrimFits
    <3> QED
      BY <3>1, <3>2
  <2> QED
    BY <2>1, <2>2 DEF BufferNext
<1>3. BufferIInv /\ Cardinality(HeldKeys(held)) <= MaxSets => BufferTypeOK
  BY DEF BufferIInv, BufferTypeOK
<1> QED
  BY <1>1, <1>2, <1>3, BufferInductive, PTL DEF BufferSpec

LEMMA PushDropsOldest ==
  ASSUME BufferIInv, NEW j \in Keys, NEW i \in Indices, Push(j, i), NEW k \in dropped' \ dropped
  PROVE  Cardinality(NewerThan(k, held')) = MaxSets
<1>1. held' = Trim(AfterCut(j, i)) /\ AfterCut(j, i) \in [Keys -> SUBSET Indices]
  BY AfterCutShape DEF Push, BufferIInv
<1>2. k \in HeldKeys(AfterCut(j, i)) \ HeldKeys(Trim(AfterCut(j, i)))
  BY <1>1 DEF Push
<1> QED
  BY <1>1, <1>2, DroppedForNewer

\* For any sets, shreds and capacity: trim_old_sets gives up a set, the one just
\* pushed included, only when it leaves max_sets newer ones in the buffer.
THEOREM DropsOnlyOldest == BufferSpec => OnlyOldestDropped
<1>1. BufferIInv /\ [BufferNext]_bufferVars
        => [\A k \in dropped' \ dropped : Cardinality(NewerThan(k, held')) = MaxSets]_bufferVars
  BY PushDropsOldest DEF BufferNext
<1> QED
  BY <1>1, BufferInductive, PTL DEF BufferSpec, OnlyOldestDropped

-----------------------------------------------------------------------------
(* The parser and the listener *)

\* The proof that is trimmed never reaches the headers: it is shorter than the
\* body of every shred it is trimmed from.
LEMMA ProofIsShorter == ASSUME NEW body \in Nat PROVE ProofBytes(body) \in Nat /\ (body > 0 => ProofBytes(body) < body)
  BY DEF ProofBytes

\* For every datagram, prefix and declared size, the payload that
\* parse_data_shred slices out of an accepted packet is in bounds and not
\* empty, and the subtraction never saturates: &packet[88..payload_end] cannot
\* panic, and a set that holds a shred always yields a batch.
THEOREM PayloadInBounds ==
  ASSUME NEW p \in Packets, IsDataShred(p)
  PROVE  /\ PayloadEnd(p.declared) \in Nat
         /\ SizeOfDataHeaders < PayloadEnd(p.declared)
         /\ PayloadEnd(p.declared) <= p.len
<1> DEFINE body == p.declared - SizeOfDataHeaders
<1>1. p.len \in Nat /\ p.declared \in Nat
  <2>1. p.len \in 0..MaxDatagramSize /\ p.declared \in 0..MaxU16
    BY DEF Packets
  <2> QED
    BY <2>1
<1>2. body \in Nat /\ body > 0 /\ p.declared = body + 88
  BY <1>1 DEF IsDataShred, SizeOfDataHeaders
<1>3. ProofBytes(body) \in Nat /\ ProofBytes(body) < body
  BY <1>2, ProofIsShorter
<1>4. PayloadEnd(p.declared) \in {p.declared, p.declared - ProofBytes(body)}
  BY <1>2, <1>3 DEF PayloadEnd
<1>5. p.declared <= p.len
  BY DEF IsDataShred
<1> HIDE DEF body
<1> QED
  BY <1>1, <1>2, <1>3, <1>4, <1>5 DEF SizeOfDataHeaders

\* The packet that is parsed is part of the buffer: &buf[start..size] is in
\* bounds for every datagram and every configured prefix.
THEOREM PacketInBuffer ==
  ASSUME NEW sent \in Nat, NEW skip \in Nat
  PROVE  Stripped(Received(sent), skip) \in 0..MaxDatagramSize
  BY DEF Stripped, Received, MaxDatagramSize

-----------------------------------------------------------------------------
\* What one process leaves behind.
LEMMA GhostsNext == GhostsNeedLostWrites /\ [Next]_vars => GhostsNeedLostWrites'
<1> SUFFICES ASSUME GhostsNeedLostWrites, [Next]_vars PROVE GhostsNeedLostWrites'
  OBVIOUS
<1> USE DEF GhostsNeedLostWrites, Listening, redis, batch, Miss, Applied
<1>1. CASE UNCHANGED vars
  BY <1>1 DEF vars
<1>2. CASE Boot \/ Crash \/ Expire
  BY <1>2 DEF Boot, Crash, Expire
<1>3. CASE BindFails
  BY <1>3 DEF BindFails, SetUp
<1>4. CASE BindSucceeds
  BY <1>4 DEF BindSucceeds
<1>5. CASE ResetKeys
  <2>1. pc' = "raise" /\ redisConn' = redisConn
    BY <1>5 DEF ResetKeys
  <2>2. CASE redisConn
    <3>1. PICK done \in 0..5 :
            /\ shredUp' = (shredUp /\ done < 1)
            /\ hitRow' = IF done < 5 THEN hitRow ELSE "none"
            /\ IF done < 5 THEN Miss("reset") ELSE Applied
      BY <1>5, <2>2, Zenon DEF ResetKeys, ResetPipe
    <3>2. CASE done < 5
      BY <2>1, <3>1, <3>2, Zenon
    <3>3. CASE ~(done < 5)
      <4>1. ~(done < 1)
        BY <3>3
      <4>2. hitRow' = "none" /\ ~shredUp'
        BY <3>1, <3>3, <4>1, Zenon
      <4> QED
        BY <2>1, <4>2
    <3> QED
      BY <3>2, <3>3
  <2>3. CASE ~redisConn
    BY <2>1, <2>3
  <2> QED
    BY <2>2, <2>3
<1>6. CASE RaiseUp
  BY <1>6 DEF RaiseUp, SetUp
<1>7. CASE Receive \/ NoBatch \/ CutBatch \/ CountHit \/ BatchDone
  BY <1>7 DEF Receive, NoBatch, CutBatch, CountHit, BatchDone
<1>8. CASE RecordFrame
  BY <1>8 DEF RecordFrame, FramePipe
<1>9. CASE RecordDeshred
  BY <1>9 DEF RecordDeshred, DeshredPipe
<1>10. CASE PublishHit
  BY <1>10 DEF PublishHit, HitPipe
<1> QED
  BY <1>1, <1>2, <1>3, <1>4, <1>5, <1>6, <1>7, <1>8, <1>9, <1>10 DEF Next

\* An earlier process's hit row and "up" outlive the bind of the next one, or
\* its failure to bind, only through a lost write.
THEOREM GhostsAreExplained == Spec => []GhostsNeedLostWrites
<1>1. Init => GhostsNeedLostWrites
  BY DEF Init, GhostsNeedLostWrites
<1> QED
  BY <1>1, GhostsNext, PTL DEF Spec

-----------------------------------------------------------------------------
\* The type invariant: places and flags, then counters, then the packet.
LEMMA NoPacketFits == NoPacket \in Packets
<1>1. 0 \in 0..MaxDatagramSize /\ 0 \in 0..MaxU16
  BY DEF MaxDatagramSize, MaxU16
<1> QED
  BY <1>1 DEF NoPacket, Packets

LEMMA TypeInit == Init => TypeOK
<1> SUFFICES ASSUME Init PROVE TypeOK
  OBVIOUS
<1>1. NoPacket \in Packets
  BY NoPacketFits
<1>2. 0 \in 0..CountCap /\ 0 \in 0..MaxHits
  BY BoundsAssumption
<1> QED
  BY <1>1, <1>2 DEF Init, TypeOK, PlaceType, CounterType, PCs

LEMMA PlaceNext == PlaceType /\ [Next]_vars => PlaceType'
<1> SUFFICES ASSUME PlaceType, [Next]_vars PROVE PlaceType'
  OBVIOUS
<1> USE DEF PlaceType, PCs, Listening, Stopped, Counters, redis, batch, Miss, Applied
<1>1. CASE UNCHANGED vars
  BY <1>1 DEF vars
<1>2. CASE Boot \/ Crash \/ Expire
  BY <1>2 DEF Boot, Crash, Expire
<1>3. CASE BindFails
  BY <1>3 DEF BindFails, SetUp
<1>4. CASE BindSucceeds
  BY <1>4 DEF BindSucceeds
<1>5. CASE ResetKeys
  BY <1>5 DEF ResetKeys, ResetPipe
<1>6. CASE RaiseUp
  BY <1>6 DEF RaiseUp, SetUp
<1>7. CASE Receive \/ NoBatch \/ CutBatch \/ CountHit \/ BatchDone
  BY <1>7 DEF Receive, NoBatch, CutBatch, CountHit, BatchDone
<1>8. CASE RecordFrame
  BY <1>8 DEF RecordFrame, FramePipe
<1>9. CASE RecordDeshred
  BY <1>9 DEF RecordDeshred, DeshredPipe
<1>10. CASE PublishHit
  BY <1>10 DEF PublishHit, HitPipe
<1> QED
  BY <1>1, <1>2, <1>3, <1>4, <1>5, <1>6, <1>7, <1>8, <1>9, <1>10 DEF Next

\* What reaches the parser fits the receive buffer and is one of Packets.
LEMMA PacketNext == packet \in Packets /\ [Next]_vars => (packet \in Packets)'
<1> SUFFICES ASSUME packet \in Packets, [Next]_vars PROVE (packet \in Packets)'
  OBVIOUS
<1>1. NoPacket \in Packets
  BY NoPacketFits
<1>2. CASE Receive
  <2>1. PICK datagram \in Sent : packet' = [datagram EXCEPT !.len = Stripped(Received(@), PrefixSkip)]
    BY <1>2 DEF Receive
  <2>2. datagram \in [len : Nat, kind : {"data", "coding", "unknown"}, declared : 0..MaxU16]
    BY SentAssumption
  <2>3. Stripped(Received(datagram.len), PrefixSkip) \in 0..MaxDatagramSize
    BY <2>2, PacketInBuffer, PrefixAssumption
  <2> QED
    BY <2>1, <2>2, <2>3 DEF Packets
<1>3. CASE Crash \/ NoBatch \/ BatchDone
  BY <1>1, <1>3 DEF Crash, NoBatch, BatchDone
<1>4. CASE UNCHANGED packet
  BY <1>4
<1> QED
  BY <1>2, <1>3, <1>4
  DEF Next, vars, batch, Boot, Expire, BindFails, BindSucceeds, ResetKeys, RaiseUp, RecordFrame, CutBatch,
      RecordDeshred, CountHit, PublishHit

LEMMA CounterNext == CounterType /\ [Next]_vars => CounterType'
<1> SUFFICES ASSUME CounterType, [Next]_vars PROVE CounterType'
  OBVIOUS
<1>e. Estimates \subseteq Nat /\ MaxHits \in Nat
  BY EstimatesAssumption, BoundsAssumption
<1>n. estimate \in Nat
  BY <1>e DEF CounterType
<1>1. CASE UNCHANGED <<stats, keys, estimate, hitsLeft>>
  BY <1>1 DEF CounterType
<1>2. CASE Crash
  BY <1>2, <1>e DEF Crash, CounterType
<1>3. CASE ResetKeys
  BY <1>3 DEF ResetKeys, ResetPipe, CounterType, redis, batch
<1>4. CASE Receive
  BY <1>4 DEF Receive, CounterType, redis, batch, Counters
<1>5. CASE RecordFrame
  <2>1. keys' = keys \/ keys' = [keys EXCEPT !["shreds"] = @ + 1]
    BY <1>5, Zenon DEF RecordFrame, FramePipe, Incr, redis
  <2>2. UNCHANGED <<stats, estimate, hitsLeft>>
    BY <1>5 DEF RecordFrame, batch
  <2> QED
    BY <2>1, <2>2 DEF CounterType, Counters
<1>6. CASE CutBatch
  BY <1>6, <1>e DEF CutBatch, CounterType, redis, Counters
<1>7. CASE RecordDeshred
  BY <1>7, <1>n DEF RecordDeshred, DeshredPipe, Incr, CounterType, redis, batch, Counters
<1>8. CASE CountHit
  BY <1>8, <1>e DEF CountHit, CounterType, redis, Counters
<1>9. CASE PublishHit
  BY <1>9 DEF PublishHit, HitPipe, Incr, CounterType, redis, batch, Counters
<1>10. CASE BatchDone
  BY <1>10 DEF BatchDone, CounterType, redis
<1> QED
  BY <1>1, <1>2, <1>3, <1>4, <1>5, <1>6, <1>7, <1>8, <1>9, <1>10
  DEF Next, vars, redis, batch, Boot, Expire, BindFails, BindSucceeds, RaiseUp, SetUp, NoBatch

LEMMA TypeNext == TypeOK /\ [Next]_vars => TypeOK'
  BY PlaceNext, CounterNext, PacketNext DEF TypeOK

\* Every state of the listener is well typed for every datagram, prefix and
\* bound; the packet in hand always fits the receive buffer.
THEOREM TypeCorrect == Spec => []TypeOK
  BY TypeInit, TypeNext, PTL DEF Spec

-----------------------------------------------------------------------------
\* GET /health counts nothing before the listener receives.
LEMMA NothingNext == NothingCounted /\ [Next]_vars => NothingCounted'
<1> SUFFICES ASSUME NothingCounted, [Next]_vars PROVE NothingCounted'
  OBVIOUS
<1> USE DEF NothingCounted, Listening, redis, batch
<1>1. CASE UNCHANGED vars
  BY <1>1 DEF vars
<1>2. CASE Boot \/ Crash \/ Expire
  BY <1>2 DEF Boot, Crash, Expire
<1>3. CASE BindFails \/ BindSucceeds \/ ResetKeys \/ RaiseUp
  BY <1>3 DEF BindFails, BindSucceeds, ResetKeys, RaiseUp
<1>4. CASE Receive \/ RecordFrame \/ NoBatch \/ CutBatch
  BY <1>4 DEF Receive, RecordFrame, NoBatch, CutBatch
<1>5. CASE RecordDeshred \/ CountHit \/ PublishHit \/ BatchDone
  BY <1>5 DEF RecordDeshred, CountHit, PublishHit, BatchDone
<1> QED
  BY <1>1, <1>2, <1>3, <1>4, <1>5 DEF Next

\* Every step keeps the two sets of counters in agreement.
LEMMA AgreeNext ==
  TypeOK /\ TypeOK' /\ NothingCounted /\ CountersFollowHealth /\ [Next]_vars => CountersFollowHealth'
<1> SUFFICES ASSUME TypeOK, TypeOK', NothingCounted, CountersFollowHealth, [Next]_vars,
                    (pc \in Listening /\ redisConn /\ "reset" \notin missed)',
                    NEW c \in Counters
             PROVE  Agree(c)'
  BY DEF CountersFollowHealth
<1> DEFINE way == OnItsWay(c)
           wayAfter == OnItsWay(c)'
<1>n. /\ keys[c] \in Nat /\ stats[c] \in Nat /\ keys'[c] \in Nat /\ stats'[c] \in Nat
      /\ estimate \in Nat /\ estimate' \in Nat
  BY EstimatesAssumption DEF TypeOK, CounterType
<1>w. c \in {"shreds", "txs", "hits"}
  BY DEF Counters
<1>v. /\ way = CASE c = "shreds" -> IF pc = "frame" THEN 1 ELSE 0
                 [] c = "txs" -> IF pc = "deshred" THEN estimate ELSE 0
                 [] c = "hits" -> IF pc = "publish" THEN 1 ELSE 0
      /\ wayAfter = CASE c = "shreds" -> IF pc' = "frame" THEN 1 ELSE 0
                      [] c = "txs" -> IF pc' = "deshred" THEN estimate' ELSE 0
                      [] c = "hits" -> IF pc' = "publish" THEN 1 ELSE 0
  BY <1>w DEF OnItsWay
<1>m. way \in Nat /\ wayAfter \in Nat
  BY <1>n, <1>v, <1>w
\* A step that writes for no counter and counts nothing, or moves n from one
\* side to the other, or loses it, keeps them in agreement.
<1>g. ASSUME Agree(c),
             \/ keys'[c] + wayAfter - stats'[c] = keys[c] + way - stats[c] /\ missed \subseteq missed'
             \/ keys'[c] + wayAfter - stats'[c] <= keys[c] + way - stats[c] /\ c \in missed'
      PROVE  Agree(c)'
  <2>1. keys'[c] + wayAfter <= stats'[c]
    BY <1>g, <1>n, <1>m DEF Agree
  <2>2. c \notin missed' => keys'[c] + wayAfter = stats'[c]
    BY <1>g, <1>n, <1>m DEF Agree
  <2> QED
    BY <2>1, <2>2 DEF Agree
<1>a. ASSUME pc \in Listening, redisConn, "reset" \notin missed PROVE Agree(c)
  BY <1>a DEF CountersFollowHealth
<1>1. CASE UNCHANGED vars \/ Expire
  <2>1. UNCHANGED <<pc, redisConn, missed, keys, stats, estimate>>
    BY <1>1 DEF vars, redis, batch, Expire
  <2>2. way = wayAfter
    BY <1>v, <2>1
  <2> HIDE DEF way, wayAfter
  <2> QED
    BY <1>a, <1>g, <2>1, <2>2
<1>2. CASE Boot \/ Crash \/ BindFails \/ BindSucceeds
  BY <1>2 DEF Boot, Crash, BindFails, BindSucceeds, Listening
<1>3. CASE ResetKeys
  <2>1. keys'[c] = 0
    BY <1>3, <1>w DEF ResetKeys, ResetPipe, Place, Miss
  <2>2. stats'[c] = 0
    BY <1>3 DEF ResetKeys, NothingCounted, Listening
  <2>3. wayAfter = 0
    BY <1>3, <1>v, <1>w DEF ResetKeys
  <2> QED
    BY <2>1, <2>2, <2>3 DEF Agree
<1>4. CASE RaiseUp
  <2>1. /\ pc = "raise" /\ pc' = "recv" /\ missed \subseteq missed'
        /\ UNCHANGED <<redisConn, keys, stats, estimate>>
    BY <1>4 DEF RaiseUp, SetUp, redis, batch, Miss, Applied
  <2>2. way = 0 /\ wayAfter = 0
    BY <1>v, <1>w, <2>1
  <2> HIDE DEF way, wayAfter
  <2> QED
    BY <1>a, <1>g, <2>1, <2>2 DEF Listening
<1>5. CASE Receive
  <2>1. /\ pc = "recv" /\ pc' = "frame"
        /\ UNCHANGED <<redisConn, missed, keys, estimate>>
        /\ stats'[c] = IF c = "shreds" THEN stats[c] + 1 ELSE stats[c]
    BY <1>5 DEF Receive, redis, batch, TypeOK, CounterType
  <2>2. way = 0 /\ wayAfter = IF c = "shreds" THEN 1 ELSE 0
    BY <1>v, <1>w, <2>1
  <2> HIDE DEF way, wayAfter
  <2>3. keys'[c] + wayAfter - stats'[c] = keys[c] + way - stats[c]
    BY <1>n, <2>1, <2>2
  <2> QED
    BY <1>a, <1>g, <2>1, <2>3 DEF Listening
<1>6. CASE RecordFrame
  <2>1. pc = "frame" /\ pc' = "parse" /\ UNCHANGED <<redisConn, stats, estimate>>
    BY <1>6 DEF RecordFrame, batch
  <2>2. \/ "shreds" \in missed' /\ missed \subseteq missed' /\ keys' = keys
        \/ missed' = missed /\ keys'[c] = IF c = "shreds" THEN keys[c] + 1 ELSE keys[c]
    <3>1. redisConn
      BY <2>1
    <3>2. \/ missed' = missed \union {"shreds"} /\ keys' = keys
          \/ missed' = missed /\ keys' = [keys EXCEPT !["shreds"] = @ + 1]
      BY <1>6, <3>1, Zenon DEF RecordFrame, FramePipe, Miss, Applied, Incr
    <3> QED
      BY <3>2 DEF TypeOK, CounterType
  <2>3. way = (IF c = "shreds" THEN 1 ELSE 0) /\ wayAfter = 0
    BY <1>v, <1>w, <2>1
  <2> HIDE DEF way, wayAfter
  <2>4. Agree(c)
    BY <1>a, <2>1, <2>2 DEF Listening
  <2> QED
    BY <1>g, <1>n, <2>1, <2>2, <2>3, <2>4
<1>7. CASE NoBatch
  <2>1. /\ pc = "parse" /\ pc' = "recv"
        /\ UNCHANGED <<redisConn, missed, keys, stats, estimate>>
    BY <1>7 DEF NoBatch, redis, batch
  <2>2. way = 0 /\ wayAfter = 0
    BY <1>v, <1>w, <2>1
  <2> HIDE DEF way, wayAfter
  <2> QED
    BY <1>a, <1>g, <2>1, <2>2 DEF Listening
<1>8. CASE CutBatch
  <2>1. /\ pc = "parse" /\ pc' = "deshred"
        /\ UNCHANGED <<redisConn, missed, keys>>
        /\ stats'[c] = IF c = "txs" THEN stats[c] + estimate' ELSE stats[c]
    BY <1>8 DEF CutBatch, redis, TypeOK, CounterType
  <2>2. way = 0 /\ wayAfter = IF c = "txs" THEN estimate' ELSE 0
    BY <1>v, <1>w, <2>1
  <2> HIDE DEF way, wayAfter
  <2>3. keys'[c] + wayAfter - stats'[c] = keys[c] + way - stats[c]
    BY <1>n, <2>1, <2>2
  <2> QED
    BY <1>a, <1>g, <2>1, <2>3 DEF Listening
<1>9. CASE RecordDeshred
  <2>1. pc = "deshred" /\ pc' = "hits" /\ UNCHANGED <<redisConn, stats, estimate>>
    BY <1>9 DEF RecordDeshred, batch
  <2>2. \/ "txs" \in missed' /\ missed \subseteq missed' /\ keys' = keys
        \/ missed' = missed /\ keys'[c] = IF c = "txs" THEN keys[c] + estimate ELSE keys[c]
    BY <1>9, <2>1 DEF RecordDeshred, DeshredPipe, Miss, Applied, Incr, TypeOK, CounterType
  <2>3. way = (IF c = "txs" THEN estimate ELSE 0) /\ wayAfter = 0
    BY <1>v, <1>w, <2>1
  <2> HIDE DEF way, wayAfter
  <2>4. Agree(c)
    BY <1>a, <2>1, <2>2 DEF Listening
  <2> QED
    BY <1>g, <1>n, <2>1, <2>2, <2>3, <2>4
<1>10. CASE CountHit
  <2>1. /\ pc = "hits" /\ pc' = "publish"
        /\ UNCHANGED <<redisConn, missed, keys, estimate>>
        /\ stats'[c] = IF c = "hits" THEN stats[c] + 1 ELSE stats[c]
    BY <1>10 DEF CountHit, redis, TypeOK, CounterType
  <2>2. way = 0 /\ wayAfter = IF c = "hits" THEN 1 ELSE 0
    BY <1>v, <1>w, <2>1
  <2> HIDE DEF way, wayAfter
  <2>3. keys'[c] + wayAfter - stats'[c] = keys[c] + way - stats[c]
    BY <1>n, <2>1, <2>2
  <2> QED
    BY <1>a, <1>g, <2>1, <2>3 DEF Listening
<1>11. CASE PublishHit
  <2>1. pc = "publish" /\ pc' = "hits" /\ UNCHANGED <<redisConn, stats, estimate>>
    BY <1>11 DEF PublishHit, batch
  <2>2. \/ "hits" \in missed' /\ missed \subseteq missed' /\ keys' = keys
        \/ missed' = missed /\ keys'[c] = IF c = "hits" THEN keys[c] + 1 ELSE keys[c]
    BY <1>11, <2>1 DEF PublishHit, HitPipe, Miss, Applied, Incr, TypeOK, CounterType
  <2>3. way = (IF c = "hits" THEN 1 ELSE 0) /\ wayAfter = 0
    BY <1>v, <1>w, <2>1
  <2> HIDE DEF way, wayAfter
  <2>4. Agree(c)
    BY <1>a, <2>1, <2>2 DEF Listening
  <2> QED
    BY <1>g, <1>n, <2>1, <2>2, <2>3, <2>4
<1>12. CASE BatchDone
  <2>1. /\ pc = "hits" /\ pc' = "recv"
        /\ UNCHANGED <<redisConn, missed, keys, stats>>
    BY <1>12 DEF BatchDone, redis
  <2>2. way = 0 /\ wayAfter = 0
    BY <1>v, <1>w, <2>1
  <2> HIDE DEF way, wayAfter
  <2> QED
    BY <1>a, <1>g, <2>1, <2>2 DEF Listening
<1> QED
  BY <1>1, <1>2, <1>3, <1>4, <1>5, <1>6, <1>7, <1>8, <1>9, <1>10, <1>11, <1>12 DEF Next

THEOREM Inductive == Spec => []IInv
<1>1. Init => IInv
  BY TypeInit DEF Init, IInv, NothingCounted, CountersFollowHealth, GhostsNeedLostWrites, Listening
<1>2. IInv /\ [Next]_vars => IInv'
  BY TypeNext, NothingNext, AgreeNext, GhostsNext DEF IInv
<1> QED
  BY <1>1, <1>2, PTL DEF Spec

\* For every datagram, batch and number of hits: the counters other processes
\* read never run ahead of GET /health, and fall behind only by lost writes.
THEOREM CountersAgree == Spec => []CountersFollowHealth
<1>1. IInv => CountersFollowHealth
  BY DEF IInv
<1> QED
  BY <1>1, Inductive, PTL
-----------------------------------------------------------------------------
(* The listener with its buffer *)

\* What the listener makes of a shred is one of the choices ShredListener leaves
\* to the buffer: every step of the two is a step of the listener, so what is
\* proved of it above holds with the real buffer in place.
THEOREM FeedIsListener == FeedSpec => Spec
<1>1. FeedInit => Init
  BY DEF FeedInit
<1>2. [FeedNext]_feedVars => [Next]_vars
  <2> SUFFICES ASSUME [FeedNext]_feedVars PROVE [Next]_vars
    OBVIOUS
  <2>1. CASE UNCHANGED feedVars
    BY <2>1 DEF feedVars
  <2>2. CASE ListenerAlone
    BY <2>2 DEF ListenerAlone, Next
  <2>3. CASE Ignores
    BY <2>3 DEF Ignores, Next
  <2>4. CASE Restarts
    BY <2>4 DEF Restarts, Next
  <2>5. ASSUME NEW k \in Keys, NEW i \in Indices, Pushes(k, i) PROVE [Next]_vars
    BY <2>5 DEF Pushes, Next
  <2> QED
    BY <2>1, <2>2, <2>3, <2>4, <2>5 DEF FeedNext
<1> QED
  BY <1>1, <1>2, PTL DEF FeedSpec, Spec

\* And every step is one of the buffer, leaves it alone, or empties it.
LEMMA FeedBuffer ==
  FeedNext => \/ \E k \in Keys, i \in Indices : Push(k, i)
              \/ UNCHANGED bufferVars
              \/ BufferInit'
  BY DEF FeedNext, ListenerAlone, Ignores, Restarts, Pushes, reassembler, bufferVars, BufferInit

LEMMA EmptyBuffer == BufferInit => BufferIInv /\ BufferTypeOK
<1> SUFFICES ASSUME BufferInit PROVE BufferIInv /\ BufferTypeOK
  OBVIOUS
<1>1. BufferIInv
  BY BufferInitially
<1>2. HeldKeys(held) = {}
  BY DEF BufferInit, HeldKeys
<1>3. Cardinality(HeldKeys(held)) <= MaxSets
  BY <1>2, FS_EmptySet, MaxSetsAssumption
<1> QED
  BY <1>1, <1>3 DEF BufferIInv, BufferTypeOK

\* Through every datagram and every restart of the process: the buffer stays
\* within max_sets, and a batch has only shreds that arrived since the process
\* started and the set was last cut - all of them, unless the set was dropped.
THEOREM FeedKeepsBuffer == FeedSpec => [](BufferIInv /\ BufferTypeOK)
<1>1. FeedInit => BufferIInv /\ BufferTypeOK
  BY EmptyBuffer DEF FeedInit
<1>2. BufferIInv /\ BufferTypeOK /\ [FeedNext]_feedVars => (BufferIInv /\ BufferTypeOK)'
  <2> SUFFICES ASSUME BufferIInv, BufferTypeOK, [FeedNext]_feedVars PROVE (BufferIInv /\ BufferTypeOK)'
    OBVIOUS
  <2>1. CASE UNCHANGED bufferVars
    BY <2>1 DEF bufferVars, BufferIInv, BufferTypeOK, ShapeOK, HeldArrived, BatchIsWhatArrived, HeldKeys
  <2>2. ASSUME NEW k \in Keys, NEW i \in Indices, Push(k, i) PROVE (BufferIInv /\ BufferTypeOK)'
    <3>1. BufferIInv'
      BY <2>2, ShapeStays, HeldNext, BatchNext DEF BufferIInv
    <3>2. held' = Trim(AfterCut(k, i)) /\ AfterCut(k, i) \in [Keys -> SUBSET Indices]
      BY <2>2, AfterCutShape DEF Push, BufferIInv
    <3>3. Cardinality(HeldKeys(Trim(AfterCut(k, i)))) <= MaxSets
      BY <3>2, TrimFits
    <3> QED
      BY <3>1, <3>2, <3>3 DEF BufferIInv, BufferTypeOK
  <2>3. CASE BufferInit'
    <3>1. BufferInit => BufferIInv /\ BufferTypeOK
      BY EmptyBuffer
    <3>2. (BufferInit => BufferIInv /\ BufferTypeOK)'
      BY EmptyBuffer, PTL
    <3> QED
      BY <2>3, <3>2
  <2>4. CASE UNCHANGED feedVars
    BY <2>1, <2>4 DEF feedVars, reassembler
  <2> QED
    BY <2>1, <2>2, <2>3, <2>4, FeedBuffer
<1> QED
  BY <1>1, <1>2, PTL DEF FeedSpec

-----------------------------------------------------------------------------
LEMMA ShredsFinite == IsFiniteSet(Indices) /\ IsFiniteSet(Keys \X Indices)
<1>1. IsFiniteSet(0..LastIndex)
  <2>1. 0 \in Int /\ LastIndex \in Int
    BY LastIndexAssumption
  <2> QED
    BY <2>1, FS_Interval
<1>2. IsFiniteSet(Keys)
  BY KeysAssumption
<1> QED
  BY <1>1, <1>2, FS_Product DEF Indices

\* A push leaves at most one shred more than there was, what it cut out included.
LEMMA PushCount ==
  ASSUME ShapeOK, NEW k \in Keys, NEW i \in Indices, Push(k, i),
         NEW cut, cut = IF Completes(k, i) THEN Inserted(k, i)[k] ELSE {}
  PROVE  /\ Cardinality(HeldShreds) \in Nat /\ Cardinality(HeldShreds') \in Nat /\ Cardinality(cut) \in Nat
         /\ Cardinality(HeldShreds') + Cardinality(cut) <= Cardinality(HeldShreds) + 1
<1> DEFINE all == HeldShreds \union {<<k, i>>}
           out == {k} \X cut
<1>1. IsFiniteSet(Keys \X Indices) /\ IsFiniteSet(Indices)
  BY ShredsFinite
<1>2. Inserted(k, i) \in [Keys -> SUBSET Indices] /\ AfterCut(k, i) \in [Keys -> SUBSET Indices]
  BY AfterCutShape
<1>3. \A j \in Keys : held'[j] \subseteq AfterCut(k, i)[j]
  BY <1>2, TrimKeepsOrEmpties DEF Push
<1>4. IsFiniteSet(HeldShreds) /\ IsFiniteSet(HeldShreds')
  BY <1>1, FS_Subset DEF HeldShreds
<1>5. cut \subseteq Indices /\ IsFiniteSet(cut)
  BY <1>1, <1>2, FS_Subset, FS_EmptySet
<1>6. IsFiniteSet(out) /\ Cardinality(out) = Cardinality(cut) /\ Cardinality(cut) \in Nat
  <2>1. IsFiniteSet({k}) /\ Cardinality({k}) = 1
    BY FS_Singleton
  <2>2. IsFiniteSet(out) /\ Cardinality(out) = 1 * Cardinality(cut)
    BY <1>5, <2>1, FS_Product
  <2> QED
    BY <1>5, <2>2, FS_CardinalityType
<1>7. HeldShreds' \union out \subseteq all
  <2>1. ASSUME NEW shred \in HeldShreds' PROVE shred \in all
    <3>1. shred \in Keys \X Indices /\ shred[2] \in held'[shred[1]]
      BY <2>1 DEF HeldShreds
    <3>2. shred[2] \in AfterCut(k, i)[shred[1]]
      BY <1>3, <3>1
    <3>3. shred[2] \in held[shred[1]] \/ (shred[1] = k /\ shred[2] = i)
      BY <3>1, <3>2 DEF AfterCut, Inserted, ShapeOK
    <3> QED
      BY <3>1, <3>3 DEF HeldShreds
  <2>2. ASSUME NEW shred \in out PROVE shred \in all
    <3>1. shred = <<k, shred[2]>> /\ shred[2] \in cut /\ shred[2] \in Indices
      BY <1>5
    <3>2. shred[2] \in held[k] \/ shred[2] = i
      BY <3>1 DEF Inserted, ShapeOK
    <3> QED
      BY <3>1, <3>2 DEF HeldShreds
  <2> QED
    BY <2>1, <2>2
<1>8. HeldShreds' \cap out = {}
  <2> SUFFICES ASSUME NEW shred \in HeldShreds' \cap out PROVE FALSE
    OBVIOUS
  <2>1. shred[1] = k /\ Completes(k, i) /\ shred[2] \in held'[k]
    BY DEF HeldShreds
  <2>2. AfterCut(k, i)[k] = {}
    BY <2>1 DEF AfterCut, ShapeOK
  <2> QED
    BY <1>3, <2>1, <2>2
<1>9. /\ IsFiniteSet(HeldShreds' \union out)
      /\ Cardinality(HeldShreds' \union out) = Cardinality(HeldShreds') + Cardinality(out)
  <2>1. /\ IsFiniteSet(HeldShreds' \union out)
        /\ Cardinality(HeldShreds' \union out)
             = Cardinality(HeldShreds') + Cardinality(out) - Cardinality(HeldShreds' \cap out)
    BY <1>4, <1>6, FS_Union
  <2>2. Cardinality(HeldShreds' \cap out) = 0
    BY <1>8, FS_EmptySet
  <2>3. Cardinality(HeldShreds') \in Nat /\ Cardinality(out) \in Nat
    BY <1>4, <1>6, FS_CardinalityType
  <2> QED
    BY <2>1, <2>2, <2>3
<1>10. IsFiniteSet(all) /\ Cardinality(all) <= Cardinality(HeldShreds) + 1 /\ Cardinality(HeldShreds) \in Nat
  <2>1. IsFiniteSet(all) /\ Cardinality(all) \in {Cardinality(HeldShreds), Cardinality(HeldShreds) + 1}
    BY <1>4, FS_AddElement
  <2> QED
    BY <1>4, <2>1, FS_CardinalityType
<1>11. Cardinality(HeldShreds' \union out) <= Cardinality(all)
  BY <1>7, <1>10, FS_Subset
<1>12. Cardinality(HeldShreds') \in Nat /\ Cardinality(all) \in Nat
  BY <1>4, <1>10, FS_CardinalityType
<1> HIDE DEF all, out
<1> QED
  BY <1>6, <1>9, <1>10, <1>11, <1>12

LEMMA ReceivedInit == FeedInit => handed \in Nat /\ ShredsAreReceived
<1> SUFFICES ASSUME FeedInit PROVE handed \in Nat /\ ShredsAreReceived
  OBVIOUS
<1>1. HeldShreds = {} /\ Cardinality(HeldShreds) = 0
  <2>1. HeldShreds = {}
    BY DEF FeedInit, BufferInit, HeldShreds
  <2> QED
    BY <2>1, FS_EmptySet
<1>2. handed = 0 /\ InHand = 0 /\ stats["shreds"] = 0
  BY DEF FeedInit, Init, InHand, Counters
<1> QED
  BY <1>1, <1>2 DEF ShredsAreReceived

LEMMA ReceivedNext ==
  ASSUME CounterType, ShapeOK, handed \in Nat, ShredsAreReceived, [FeedNext]_feedVars
  PROVE  (handed \in Nat /\ ShredsAreReceived)'
<1> DEFINE count == Cardinality(HeldShreds)
           got == stats["shreds"]
<1>1. count \in Nat /\ got \in Nat /\ InHand \in Nat /\ InHand' \in Nat
  <2>1. IsFiniteSet(Keys \X Indices)
    BY ShredsFinite
  <2>2. IsFiniteSet(HeldShreds)
    BY <2>1, FS_Subset DEF HeldShreds
  <2> QED
    BY <2>2, FS_CardinalityType DEF CounterType, Counters, InHand
<1>2. handed + count + InHand <= got
  BY DEF ShredsAreReceived
\* The buffer and what was handed on stay: only a received shred is in hand anew.
<1>a. ASSUME UNCHANGED <<held, handed>>, InHand' + got <= got' + InHand, got' \in Nat
      PROVE  (handed \in Nat /\ ShredsAreReceived)'
  <2>1. HeldShreds' = HeldShreds
    BY <1>a DEF HeldShreds
  <2>2. count' = count /\ handed' = handed
    BY <1>a, <2>1
  <2> HIDE DEF count, got
  <2>3. InHand' + got <= got' + InHand /\ got' \in Nat
    BY <1>a
  <2>4. handed + count + InHand' <= got'
    <3>1. ASSUME NEW h \in Nat, NEW c \in Nat, NEW n \in Nat, NEW m \in Nat, NEW g \in Nat, NEW e \in Nat,
                 h + c + n <= g, m + g <= e + n
          PROVE  h + c + m <= e
      BY <3>1
    <3> QED
      BY <1>1, <1>2, <2>3, <3>1
  <2>5. handed' \in Nat /\ handed' + count' + InHand' <= got'
    BY <2>2, <2>4
  <2> QED
    BY <2>5 DEF ShredsAreReceived, count, got
<1>3. CASE UNCHANGED feedVars
  <2>1. UNCHANGED <<held, handed, pc, stats>>
    BY <1>3 DEF feedVars, reassembler, bufferVars, vars
  <2> QED
    BY <1>1, <1>a, <2>1 DEF InHand
<1>4. CASE ListenerAlone
  <2>1. UNCHANGED <<held, handed>>
    BY <1>4 DEF ListenerAlone, reassembler, bufferVars
  <2>2. CASE Receive
    <3>1. pc = "recv" /\ pc' = "frame" /\ got' = got + 1
      BY <2>2 DEF Receive, CounterType, Counters
    <3>2. InHand = 0 /\ InHand' = 1
      BY <3>1 DEF InHand
    <3> QED
      BY <1>1, <1>a, <2>1, <3>1, <3>2
  <2>3. CASE CountHit
    <3>1. pc = "hits" /\ pc' = "publish" /\ got' = got
      BY <2>3 DEF CountHit, CounterType, Counters
    <3> QED
      BY <1>1, <1>a, <2>1, <3>1 DEF InHand
  <2>4. CASE ~Receive /\ ~CountHit
    <3>1. stats' = stats /\ InHand' = InHand
      BY <1>4, <2>4
      DEF ListenerAlone, Boot, Expire, BindFails, BindSucceeds, ResetKeys, RaiseUp, RecordFrame,
          RecordDeshred, PublishHit, BatchDone, InHand
    <3> QED
      BY <1>1, <1>a, <2>1, <3>1
  <2> QED
    BY <2>2, <2>3, <2>4
<1>5. CASE Ignores
  <2>1. UNCHANGED <<held, handed>> /\ stats' = stats /\ pc = "parse" /\ pc' = "recv"
    BY <1>5 DEF Ignores, NoBatch, reassembler, bufferVars
  <2> QED
    BY <1>1, <1>a, <2>1 DEF InHand
<1>6. CASE Restarts
  <2>1. HeldShreds' = {}
    BY <1>6 DEF Restarts, HeldShreds
  <2>2. count' = 0
    BY <2>1, FS_EmptySet
  <2>3. handed' = 0 /\ InHand' = 0 /\ got' = 0
    BY <1>6 DEF Restarts, Crash, InHand, Counters
  <2> QED
    BY <2>2, <2>3 DEF ShredsAreReceived
<1>7. ASSUME NEW k \in Keys, NEW i \in Indices, Pushes(k, i)
      PROVE  (handed \in Nat /\ ShredsAreReceived)'
  <2> DEFINE cut == IF Completes(k, i) THEN Inserted(k, i)[k] ELSE {}
  <2>1. pc = "parse" /\ pc' \in {"recv", "deshred"} /\ got' = got
    BY <1>7 DEF Pushes, NoBatch, CutBatch, CounterType, Counters
  <2>2. InHand = 1 /\ InHand' = 0
    BY <2>1 DEF InHand
  <2>3. count' \in Nat /\ Cardinality(cut) \in Nat /\ count' + Cardinality(cut) <= count + 1
    BY <1>7, PushCount DEF Pushes
  <2>4. handed' = handed \/ handed' = handed + Cardinality(cut)
    <3>1. CASE returned' = None
      BY <1>7, <3>1 DEF Pushes
    <3>2. CASE returned' # None
      <4>1. Completes(k, i) /\ returned'.shreds = cut
        BY <1>7, <3>2 DEF Pushes, Push, Deshred
      <4> QED
        BY <1>7, <3>2, <4>1 DEF Pushes
    <3> QED
      BY <3>1, <3>2
  <2> HIDE DEF count, got, cut
  <2>5. handed' \in Nat /\ handed' + count' + InHand' <= got'
    BY <1>1, <1>2, <2>1, <2>2, <2>3, <2>4
  <2> QED
    BY <2>5 DEF ShredsAreReceived, count, got
<1> QED
  BY <1>3, <1>4, <1>5, <1>6, <1>7 DEF FeedNext

\* For any datagrams, sets and capacity: the shreds handed on in batches, those
\* held and the one in hand never exceed what GET /health counts as received.
THEOREM NoDatagramTwice == FeedSpec => []ShredsAreReceived
<1>1. CounterType /\ ShapeOK /\ (handed \in Nat /\ ShredsAreReceived) /\ [FeedNext]_feedVars
        => (handed \in Nat /\ ShredsAreReceived)'
  BY ReceivedNext
<1>2. TypeOK => CounterType
  BY DEF TypeOK
<1>3. BufferIInv => ShapeOK
  BY DEF BufferIInv
<1> QED
  BY <1>1, <1>2, <1>3, ReceivedInit, FeedIsListener, TypeCorrect, FeedKeepsBuffer, PTL DEF FeedSpec

=============================================================================
