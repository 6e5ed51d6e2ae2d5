------------------------ MODULE ShredReassembler ------------------------
(***************************************************************************)
(* The buffer of src/src/shred/reassembly.rs: data shreds are collected by *)
(* slot and FEC set; the shred that carries the data_complete flag cuts    *)
(* its set out of the buffer and hands it on; when too many sets are held, *)
(* the oldest go.                                                          *)
(*                                                                         *)
(* The shreds come by UDP, so Push may be called with any shred of any     *)
(* set, in any order, again, or never.  A key <<slot, fec_set_index>> is a *)
(* number, in the order of the BTreeMap.  A payload is never empty         *)
(* (ShredParse), so a cut always yields a batch.  The names of the         *)
(* behaviour begin with Buffer: the proofs take this module together with  *)
(* ShredListener.                                                          *)
(***************************************************************************)
EXTENDS Naturals, FiniteSets

CONSTANTS
    Keys,       \* the FEC sets
    LastIndex,  \* the sender puts the shreds 0..LastIndex into every set
    Ends,       \* the shreds <<key, index>> flagged data_complete
    MaxSets     \* ShredReassembler.max_sets, at least 16 in the code

ASSUME KeysAssumption == Keys \subseteq Nat /\ IsFiniteSet(Keys)
ASSUME LastIndexAssumption == LastIndex \in Nat
ASSUME EndsAssumption == Ends \subseteq Keys \X (0..LastIndex)
ASSUME MaxSetsAssumption == MaxSets \in Nat \ {0}

Indices == 0..LastIndex

VARIABLES
    held,       \* ShredReassembler.sets; {} for a key without an entry
    returned,   \* what the last push returned
    \* history:
    arrived,    \* the shreds of a set that arrived since its last cut
    dropped     \* sets that lost shreds to trim_old_sets since their last cut

bufferVars == <<held, returned, arrived, dropped>>

None == [key |-> "none"]

-----------------------------------------------------------------------------
HeldKeys(buffer) == {k \in Keys : buffer[k] # {}}
NewerThan(k, buffer) == {j \in HeldKeys(buffer) : j > k}

\* Mutants: the newest sets are removed; nothing is.
Trim_Newest(buffer) ==
    [k \in Keys |-> IF Cardinality({j \in HeldKeys(buffer) : j < k}) < MaxSets THEN buffer[k] ELSE {}]
Trim_Never(buffer) == buffer

\* trim_old_sets: the lowest key goes until at most MaxSets are left, which
\* leaves the MaxSets highest.
Trim(buffer) ==
    [k \in Keys |-> IF Cardinality(NewerThan(k, buffer)) < MaxSets THEN buffer[k] ELSE {}]

\* The FEC set is complete once this shred is in, or so the code takes it.
Completes(k, i) == <<k, i>> \in Ends

Inserted(k, i) == [held EXCEPT ![k] = @ \union {i}]

\* Mutant: the set stays in the buffer after the cut.
AfterCut_Kept(k, i) == Inserted(k, i)
AfterCut(k, i) == IF Completes(k, i) THEN [held EXCEPT ![k] = {}] ELSE Inserted(k, i)

\* deshred: whatever is there of the set, in the order of the indices.
Deshred(k, i) ==
    [key |-> k, shreds |-> Inserted(k, i)[k],
     arrived |-> arrived[k] \union {i}, trimmed |-> k \in dropped]

\* push(shred)
Push(k, i) ==
    /\ held' = Trim(AfterCut(k, i))
    /\ returned' = IF Completes(k, i) THEN Deshred(k, i) ELSE None
    /\ arrived' = [arrived EXCEPT ![k] = IF Completes(k, i) THEN {} ELSE @ \union {i}]
    /\ dropped' = (IF Completes(k, i) THEN dropped \ {k} ELSE dropped)
                    \union (HeldKeys(AfterCut(k, i)) \ HeldKeys(held'))

BufferInit ==
    /\ held = [k \in Keys |-> {}]
    /\ returned = None
    /\ arrived = [k \in Keys |-> {}]
    /\ dropped = {}

BufferNext == \E k \in Keys, i \in Indices : Push(k, i)

BufferSpec == BufferInit /\ [][BufferNext]_bufferVars

-----------------------------------------------------------------------------
Batches == [key : Keys, shreds : SUBSET Indices, arrived : SUBSET Indices, trimmed : BOOLEAN]

ShapeOK ==
    /\ held \in [Keys -> SUBSET Indices]
    /\ returned \in {None} \union Batches
    /\ arrived \in [Keys -> SUBSET Indices]
    /\ dropped \subseteq Keys

\* Whatever arrives, the buffer holds at most MaxSets sets between two calls.
BufferTypeOK == ShapeOK /\ Cardinality(HeldKeys(held)) <= MaxSets

\* A batch is made of shreds that arrived since the set was last cut - none is
\* handed on twice for arriving once - and of all of them, unless the buffer
\* was too full to keep the set.
BatchIsWhatArrived ==
    returned # None => /\ returned.shreds \subseteq returned.arrived
                       /\ ~returned.trimmed => returned.shreds = returned.arrived

\* The buffer gives up a set, be it the one just pushed, only for MaxSets newer
\* ones that it holds on to.
OnlyOldestDropped ==
    [][\A k \in dropped' \ dropped : Cardinality(NewerThan(k, held')) = MaxSets]_bufferVars

-----------------------------------------------------------------------------
(* The strengthening of BatchIsWhatArrived (Shred_proofs).                  *)
HeldArrived ==
    \A k \in Keys : /\ held[k] \subseteq arrived[k]
                    /\ k \notin dropped => held[k] = arrived[k]

BufferIInv == ShapeOK /\ HeldArrived /\ BatchIsWhatArrived

-----------------------------------------------------------------------------
\* "returns concatenated entry bytes when the FEC set completes"
\* (src/src/shred/reassembly.rs:24): a batch has every shred of its set.
BatchIsComplete == returned # None => returned.shreds = Indices
=============================================================================
