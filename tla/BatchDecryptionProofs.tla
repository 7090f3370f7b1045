------------------------ MODULE BatchDecryptionProofs ------------------------
(***************************************************************************)
(* Proofs about the end-to-end scheme, for every committee, threshold, log *)
(* and choice of the chunk and solver parameters.                          *)
(***************************************************************************)
EXTENDS BatchDecryption, FoldLemmas

LEMMA ChunkValue == \A key \in KeySpace, s \in slots : chunk(key, s) \in 0 .. max_chunk_value
<1> TAKE key \in KeySpace, s \in slots
<1>1. key \in Nat /\ Weight[s] \in Nat \ {0} /\ ChunkRadix \in Nat \ {0}
  BY SizeAssumption, ChunkAssumption DEF slots
<1> DEFINE q == key \div Weight[s]
<1>2. q \in Int
  BY <1>1
<1> HIDE DEF q
<1>3. q % ChunkRadix \in 0 .. ChunkRadix - 1
  BY <1>1, <1>2
<1> QED BY <1>3 DEF chunk, max_chunk_value, q

LEMMA ChunkNat == max_chunk_value \in Nat
  BY ChunkAssumption DEF max_chunk_value

(* The bound of max_homomorphic_batch_size does what it is for: as many     *)
(* chunks as it allows sum up to an exponent of the range.                  *)
LEMMA BatchBound ==
  \A m \in Nat : m <= max_homomorphic_batch_size => m * max_chunk_value <= max_dlog_exponent
<1> SUFFICES ASSUME NEW m \in Nat, m <= max_homomorphic_batch_size
             PROVE  m * max_chunk_value <= max_dlog_exponent
  OBVIOUS
<1> DEFINE v == max_chunk_value
           cap == max_dlog_exponent
<1>1. v \in Nat /\ cap \in Nat /\ Word \in Nat \ {0}
  BY ChunkNat, SizeAssumption
<1>2. CASE v = 0
  BY <1>1, <1>2
<1>3. CASE v # 0
  <2> DEFINE q == cap \div v
             r == cap % v
  <2>1. m <= q % Word
    BY <1>3 DEF max_homomorphic_batch_size
  <2> HIDE DEF v, cap
  <2>2. q \in Nat /\ r \in 0 .. v - 1 /\ cap = q * v + r
    BY <1>1, <1>3
  <2> HIDE DEF q, r
  <2>3. q % Word <= q
    BY <1>1, <2>2
  <2>4. m <= q
    BY <1>1, <2>1, <2>2, <2>3
  <2>5. PICK d \in Nat : q = m + d
    <3>1. q - m \in Nat /\ q = m + (q - m)
      BY <2>2, <2>4
    <3> QED BY <3>1
  <2>6. q * v = m * v + d * v /\ d * v \in Nat /\ m * v \in Nat
    BY <1>1, <2>5
  <2>7. m * v <= cap
    BY <1>1, <2>2, <2>6
  <2> QED BY <2>7 DEF v, cap
<1> QED BY <1>2, <1>3

LEMMA OneMore == \A m \in Nat : (m + 1) * max_chunk_value = m * max_chunk_value + max_chunk_value
  BY ChunkNat

LEMMA TimesNat == \A m \in Nat : m * max_chunk_value \in Nat
  BY ChunkNat

(***************************************************************************)
(* The inductive invariant.  While the batch is folded, a slot holds at    *)
(* most one largest chunk per ciphertext folded; behind agg_dec, the       *)
(* selected parties are enough, and the slots either hold the checked sums *)
(* and every share is for this batch, or hold nothing the solver finds, so *)
(* that the loop behind the first logarithm is entered by valid calls only.*)
(***************************************************************************)
valid == \A p \in selector : shares[p] = b

FreshInv == pc \in {"idle", "safe"} => j = 0 /\ c = 0 /\ acc = zero

FoldInv ==
  pc = "fold" =>
    /\ b <= max_homomorphic_batch_size
    /\ \A s \in slots : acc[s] \in 0 .. j * max_chunk_value

SumInv == pc = "agg_dec" => \A s \in slots : acc[s] \in 0 .. max_dlog_exponent

EarlyInv == pc \in {"idle", "safe", "fold", "agg_dec"} => c = 0

AggInv ==
  pc = "dlog" =>
    \/ valid /\ \A s \in slots : acc[s] \in 0 .. max_dlog_exponent
    \/ ~valid /\ c = 0 /\ \A s \in slots : acc[s] = unknown

ValidInv == pc \in {"recombine", "masks", "done"} => valid

QuorumInv ==
  pc \in {"dlog", "recombine", "masks", "done"} => Cardinality(selector) >= Threshold

SharesSent == \A p \in selector : shares[p] = 0 \/ <<p, shares[p]>> \in sent

IInv ==
  /\ TypeOK
  /\ FreshInv
  /\ FoldInv
  /\ SumInv
  /\ EarlyInv
  /\ AggInv
  /\ ValidInv
  /\ QuorumInv
  /\ SharesSent

LEMMA SelectorFinite ==
  ASSUME TypeOK PROVE IsFiniteSet(selector) /\ Cardinality(selector) \in Nat /\ crs_n \in Nat
<1>1. IsFiniteSet(selector)
  BY CommitteeAssumption, FS_Subset DEF TypeOK
<1> QED BY <1>1, CommitteeAssumption, FS_CardinalityType DEF crs_n

LEMMA InvInit == Init => IInv
<1> SUFFICES ASSUME Init PROVE IInv
  OBVIOUS
<1>1. TypeOK
  <2>1. 0 .. 0 - 1 = {} /\ 0 \in 0 .. MaxCts /\ 0 \in 0 .. l
    BY SizeAssumption, ChunkAssumption
  <2>2. zero \in [slots -> Int]
    BY DEF zero
  <2>3. [p \in {} |-> 0] \in [{} -> Nat] /\ DOMAIN [k \in {} |-> 0] = {}
    OBVIOUS
  <2>4. count \in 0 .. MaxCts /\ c \in 0 .. l /\ b \in 0 .. count /\ j \in 0 .. b
    BY <2>1 DEF Init
  <2>5. DOMAIN cts = 0 .. count - 1 /\ 0 .. count - 1 = {}
    BY <2>1, <2>3 DEF Init
  <2>6. fft \in BOOLEAN /\ pc \in {"idle", "done"} \cup running \cup panics
    BY DEF Init
  <2>7. /\ sent \subseteq Party \X (0 .. count) /\ released \subseteq 0 .. count
        /\ selector \subseteq Party /\ k_agg \in Nat /\ offset \in Nat
    BY DEF Init
  <2>8. shares \in [selector -> Nat] /\ acc \in [slots -> Int]
    BY <2>2, <2>3 DEF Init
  <2> QED BY <2>4, <2>5, <2>6, <2>7, <2>8 DEF TypeOK
<1> QED BY <1>1 DEF Init, IInv, FreshInv, FoldInv, SumInv, EarlyInv, AggInv, ValidInv,
                    QuorumInv, SharesSent

(* The environment's steps change neither the call's state nor what it was  *)
(* given: the log and the messages only grow.                               *)
LEMMA EncryptStep ==
  ASSUME NEW position \in 0 .. batch_size - 1, NEW key \in KeySpace, NEW t \in CtThresholds,
         IInv, encrypt(position, key, t)
  PROVE  IInv'
<1>1. /\ count' = count + 1 /\ count \in Nat /\ count < MaxCts /\ MaxCts \in Nat
      /\ UNCHANGED <<sent, pc, b, fft, selector, shares, j, acc, c, k_agg, offset, released>>
  BY SizeAssumption DEF IInv, TypeOK, encrypt, argVars, runVars
<1>2. [s \in slots |-> chunk(key, s)] \in [slots -> 0 .. max_chunk_value]
  BY ChunkValue
<1>3. /\ DOMAIN cts' = 0 .. count' - 1
      /\ \A k \in 0 .. count' - 1 :
           /\ cts'[k].point \in 0 .. batch_size - 1
           /\ cts'[k].key \in KeySpace
           /\ cts'[k].t \in CtThresholds
           /\ cts'[k].ct \in [slots -> 0 .. max_chunk_value]
  <2>1. DOMAIN cts' = 0 .. count
    BY DEF encrypt
  <2>2. ASSUME NEW k \in 0 .. count
        PROVE  /\ cts'[k].point \in 0 .. batch_size - 1
               /\ cts'[k].key \in KeySpace
               /\ cts'[k].t \in CtThresholds
               /\ cts'[k].ct \in [slots -> 0 .. max_chunk_value]
    <3>1. CASE k = count
      BY <3>1, <1>2 DEF encrypt
    <3>2. CASE k # count
      <4>1. k \in 0 .. count - 1 /\ cts'[k] = cts[k]
        BY <3>2, <1>1 DEF encrypt
      <4> QED BY <4>1 DEF IInv, TypeOK
    <3> QED BY <3>1, <3>2
  <2> QED BY <1>1, <2>1, <2>2
<1>4. /\ sent \subseteq Party \X (0 .. count + 1) /\ b \in 0 .. count + 1
      /\ released \subseteq 0 .. count + 1
  BY <1>1 DEF IInv, TypeOK
<1>5. TypeOK'
  BY <1>1, <1>3, <1>4 DEF IInv, TypeOK
<1> QED BY <1>1, <1>5 DEF IInv, FreshInv, FoldInv, SumInv, EarlyInv, AggInv, valid, ValidInv,
                          QuorumInv, SharesSent

LEMMA AnswerStep ==
  ASSUME NEW p \in Party, IInv, batch_partial_decryption(p) PROVE IInv'
<1>1. /\ sent' = sent \cup {<<p, count>>} /\ count \in 0 .. count
      /\ UNCHANGED <<count, cts, pc, b, fft, selector, shares, j, acc, c, k_agg, offset, released>>
  BY SizeAssumption DEF IInv, TypeOK, batch_partial_decryption, argVars, runVars
<1>2. TypeOK'
  BY <1>1 DEF IInv, TypeOK
<1> QED BY <1>1, <1>2 DEF IInv, FreshInv, FoldInv, SumInv, EarlyInv, AggInv, valid, ValidInv,
                          QuorumInv, SharesSent

LEMMA DecryptStep ==
  ASSUME NEW m \in 0 .. count, NEW with_fft \in BOOLEAN, NEW S \in SUBSET Party,
         NEW pd \in [S -> 0 .. MaxCts],
         IInv, decrypt(m, with_fft, S, pd)
  PROVE  IInv'
<1>1. /\ pc = "idle" /\ pc' = "safe" /\ b' = m /\ fft' = with_fft /\ selector' = S
      /\ shares' = pd
      /\ UNCHANGED <<count, cts, sent, j, acc, c, k_agg, offset, released>>
      /\ \A p \in S : pd[p] = 0 \/ <<p, pd[p]>> \in sent
  BY DEF decrypt, logVars, runVars
<1>2. j = 0 /\ c = 0 /\ acc = zero
  BY <1>1 DEF IInv, FreshInv
<1>3. pd \in [S -> Nat]
  BY SizeAssumption
<1>4. TypeOK'
  BY <1>1, <1>2, <1>3, SizeAssumption DEF IInv, TypeOK, running
<1> QED BY <1>1, <1>2, <1>4 DEF IInv, FreshInv, FoldInv, SumInv, EarlyInv, AggInv, ValidInv,
                                QuorumInv, SharesSent

LEMMA EndStep == IInv /\ end_call => IInv'
<1> SUFFICES ASSUME IInv, end_call PROVE IInv'
  OBVIOUS
<1>1. /\ pc' = "idle" /\ b' = 0 /\ fft' = FALSE /\ selector' = {} /\ shares' = [p \in {} |-> 0]
      /\ j' = 0 /\ acc' = zero /\ c' = 0 /\ k_agg' = 0 /\ offset' = 1
      /\ UNCHANGED <<count, cts, sent, released>>
  BY DEF end_call, logVars
<1>2. count \in Nat /\ 0 \in 0 .. count /\ 0 \in 0 .. l /\ 0 \in 0 .. 0
  BY SizeAssumption, ChunkAssumption DEF IInv, TypeOK
<1>3. zero \in [slots -> Int] /\ [p \in {} |-> 0] \in [{} -> Nat]
  BY DEF zero
<1>4. shares' \in [selector' -> Nat] /\ acc' \in [slots -> Int] /\ fft' \in BOOLEAN
  BY <1>1, <1>3
<1>5. TypeOK'
  BY <1>1, <1>2, <1>4 DEF IInv, TypeOK
<1> QED BY <1>1, <1>5 DEF IInv, FreshInv, FoldInv, SumInv, EarlyInv, AggInv, ValidInv,
                          QuorumInv, SharesSent

(* What every step of a call leaves alone.                                  *)
Kept == UNCHANGED <<count, cts, sent, b, fft, selector, shares>>

LEMMA SafeStep == IInv /\ assert_homomorphic_batch_safe => IInv'
<1> SUFFICES ASSUME IInv, assert_homomorphic_batch_safe PROVE IInv'
  OBVIOUS
<1>1. /\ Kept /\ UNCHANGED <<j, acc, c, k_agg, offset, released>> /\ pc = "safe"
      /\ \/ pc' = "fold" /\ b <= max_homomorphic_batch_size
         \/ pc' = "panic_batch"
  BY DEF assert_homomorphic_batch_safe, logVars, argVars, runVars, Kept
<1>2. j = 0 /\ c = 0 /\ acc = zero
  BY <1>1 DEF IInv, FreshInv
<1>3. TypeOK'
  BY <1>1 DEF IInv, TypeOK, Kept, running, panics
<1>4. \A s \in slots : acc[s] \in 0 .. j * max_chunk_value
  <2>1. 0 * max_chunk_value = 0
    BY ChunkNat
  <2> QED BY <1>2, <2>1 DEF zero
<1>5. FoldInv'
  BY <1>1, <1>4 DEF FoldInv, Kept
<1> QED BY <1>1, <1>2, <1>3, <1>5
        DEF IInv, Kept, FreshInv, SumInv, EarlyInv, AggInv, ValidInv, QuorumInv, SharesSent

LEMMA AddStep == IInv /\ add => IInv'
<1> SUFFICES ASSUME IInv, add PROVE IInv'
  OBVIOUS
<1>1. /\ Kept /\ UNCHANGED <<c, k_agg, offset, released>> /\ pc = "fold" /\ j < b
      /\ b \in 0 .. count /\ count \in Nat /\ j \in Nat
  BY SizeAssumption DEF add, logVars, argVars, Kept, IInv, TypeOK
<1>2. CASE cts[j].t = Threshold
  <2>1. /\ acc' = [s \in slots |-> acc[s] + cts[j].ct[s]] /\ j' = j + 1 /\ pc' = "fold"
    BY <1>1, <1>2 DEF add
  <2>2. cts[j].ct \in [slots -> 0 .. max_chunk_value]
    BY <1>1 DEF IInv, TypeOK
  <2>3. ASSUME NEW s \in slots
        PROVE  acc'[s] \in 0 .. (j + 1) * max_chunk_value
    <3>1. acc'[s] = acc[s] + cts[j].ct[s]
      BY <2>1
    <3>2. cts[j].ct[s] \in 0 .. max_chunk_value
      BY <2>2
    <3>3. acc[s] \in 0 .. j * max_chunk_value
      BY <1>1 DEF IInv, FoldInv
    <3>4. /\ (j + 1) * max_chunk_value = j * max_chunk_value + max_chunk_value
          /\ j * max_chunk_value \in Nat /\ max_chunk_value \in Nat
      BY <1>1, OneMore, TimesNat, ChunkNat
    <3> QED BY <3>1, <3>2, <3>3, <3>4
  <2>4. FoldInv'
    BY <1>1, <2>1, <2>3 DEF IInv, FoldInv, Kept
  <2>5. acc' \in [slots -> Int]
    <3>1. \A s \in slots : acc[s] + cts[j].ct[s] \in Int
      BY <2>2, ChunkNat DEF IInv, TypeOK
    <3> QED BY <2>1, <3>1
  <2>6. TypeOK'
    BY <1>1, <2>1, <2>5 DEF IInv, TypeOK, Kept
  <2> QED BY <1>1, <2>1, <2>4, <2>6
          DEF IInv, Kept, FreshInv, SumInv, EarlyInv, AggInv, ValidInv, QuorumInv, SharesSent
<1>3. CASE cts[j].t # Threshold
  <2>1. pc' = "panic_threshold" /\ UNCHANGED <<acc, j>>
    BY <1>3 DEF add
  <2>2. TypeOK'
    BY <1>1, <2>1 DEF IInv, TypeOK, Kept, panics
  <2> QED BY <1>1, <2>1, <2>2
          DEF IInv, Kept, FreshInv, FoldInv, SumInv, EarlyInv, AggInv, ValidInv, QuorumInv,
              SharesSent
<1> QED BY <1>2, <1>3

LEMMA FoldedStep == IInv /\ folded => IInv'
<1> SUFFICES ASSUME IInv, folded PROVE IInv'
  OBVIOUS
<1>1. /\ Kept /\ UNCHANGED <<j, acc, c, k_agg, offset, released>> /\ pc = "fold"
      /\ pc' = "agg_dec" /\ j = b /\ b \in Nat
  BY SizeAssumption DEF folded, logVars, argVars, runVars, Kept, IInv, TypeOK
<1>2. b <= max_homomorphic_batch_size /\ \A s \in slots : acc[s] \in 0 .. b * max_chunk_value
  BY <1>1 DEF IInv, FoldInv
<1>3. b * max_chunk_value <= max_dlog_exponent /\ b * max_chunk_value \in Nat
  BY <1>1, <1>2, BatchBound, TimesNat
<1>4. \A s \in slots : acc[s] \in 0 .. max_dlog_exponent
  BY <1>2, <1>3, SizeAssumption
<1>5. TypeOK'
  BY <1>1 DEF IInv, TypeOK, Kept, running
<1> QED BY <1>1, <1>4, <1>5
        DEF IInv, Kept, FreshInv, FoldInv, SumInv, EarlyInv, AggInv, ValidInv, QuorumInv,
            SharesSent

LEMMA AggStep == IInv /\ agg_dec => IInv'
<1> SUFFICES ASSUME IInv, agg_dec PROVE IInv'
  OBVIOUS
<1>1. /\ Kept /\ UNCHANGED <<j, c, k_agg, offset, released>> /\ pc = "agg_dec" /\ c = 0
  BY DEF agg_dec, logVars, argVars, Kept, IInv, EarlyInv
<1>2. CASE pc' \in {"panic_degree", "panic_commit"} /\ acc' = acc
  <2>1. TypeOK'
    BY <1>1, <1>2 DEF IInv, TypeOK, Kept, panics
  <2> QED BY <1>1, <1>2, <2>1
          DEF IInv, Kept, FreshInv, FoldInv, SumInv, EarlyInv, AggInv, ValidInv, QuorumInv,
              SharesSent
<1>3. CASE /\ bhat_degree <= crs_n /\ pc' = "dlog"
           /\ acc' = IF \A p \in selector : shares[p] = b THEN acc
                                                          ELSE [s \in slots |-> unknown]
  <2>1. Cardinality(selector) >= Threshold
    BY <1>3, SelectorFinite, CommitteeAssumption DEF IInv, bhat_degree
  <2>2. acc' \in [slots -> Int]
    BY <1>3 DEF IInv, TypeOK, unknown
  <2>3. TypeOK'
    BY <1>1, <1>3, <2>2 DEF IInv, TypeOK, Kept, running
  <2>4. AggInv'
    <3>1. CASE valid
      BY <1>1, <1>3, <3>1 DEF IInv, SumInv, AggInv, valid, Kept
    <3>2. CASE ~valid
      <4>1. \A s \in slots : acc'[s] = unknown
        BY <1>3, <3>2 DEF valid
      <4>2. ~valid'
        BY <1>1, <3>2 DEF valid, Kept
      <4> QED BY <1>1, <4>1, <4>2 DEF AggInv
    <3> QED BY <3>1, <3>2
  <2> QED BY <1>1, <1>3, <2>1, <2>3, <2>4
          DEF IInv, Kept, FreshInv, FoldInv, SumInv, EarlyInv, ValidInv, QuorumInv, SharesSent
<1>4. crs_n \in Nat /\ bhat_degree \in Int
  BY SelectorFinite, CommitteeAssumption DEF IInv, bhat_degree
<1> QED BY <1>2, <1>3, <1>4 DEF agg_dec

LEMMA SlotZero == 0 \in slots /\ l \in Nat
  BY ChunkAssumption DEF slots

LEMMA DlogStep == IInv /\ compute_dlog => IInv'
<1> SUFFICES ASSUME IInv, compute_dlog PROVE IInv'
  OBVIOUS
<1>1. /\ Kept /\ UNCHANGED <<j, acc, k_agg, offset, released>> /\ pc = "dlog" /\ c < l
      /\ c \in 0 .. l
  BY DEF compute_dlog, logVars, argVars, Kept, IInv, TypeOK
<1>2. CASE acc[c] \in 0 .. MarkersRange - 1
  <2>1. c' = c + 1 /\ pc' = "dlog"
    BY <1>1, <1>2 DEF compute_dlog
  <2>2. c \in slots
    BY <1>1, ChunkAssumption DEF slots
  <2>3. valid /\ \A s \in slots : acc[s] \in 0 .. max_dlog_exponent
    BY <1>1, <1>2, <2>2 DEF IInv, AggInv, unknown
  <2>4. TypeOK'
    BY <1>1, <2>1, ChunkAssumption DEF IInv, TypeOK, Kept
  <2> QED BY <1>1, <2>1, <2>3, <2>4
          DEF IInv, Kept, FreshInv, FoldInv, SumInv, EarlyInv, AggInv, valid, ValidInv, QuorumInv,
              SharesSent
<1>3. CASE acc[c] \notin 0 .. MarkersRange - 1
  <2>1. pc' = "panic_dlog" /\ c' = c
    BY <1>3 DEF compute_dlog
  <2>2. TypeOK'
    BY <1>1, <2>1 DEF IInv, TypeOK, Kept, panics
  <2> QED BY <1>1, <2>1, <2>2
          DEF IInv, Kept, FreshInv, FoldInv, SumInv, EarlyInv, AggInv, ValidInv, QuorumInv,
              SharesSent
<1> QED BY <1>2, <1>3

LEMMA SolvedStep == IInv /\ solved => IInv'
<1> SUFFICES ASSUME IInv, solved PROVE IInv'
  OBVIOUS
<1>1. /\ Kept /\ UNCHANGED <<j, acc, k_agg, offset, released>> /\ pc = "dlog" /\ c = l
      /\ pc' = "recombine" /\ c' = 0
  BY DEF solved, logVars, argVars, Kept
<1>2. valid
  BY <1>1, ChunkAssumption DEF IInv, AggInv
<1>3. TypeOK'
  BY <1>1, ChunkAssumption DEF IInv, TypeOK, Kept, running
<1> QED BY <1>1, <1>2, <1>3
        DEF IInv, Kept, FreshInv, FoldInv, SumInv, EarlyInv, AggInv, valid, ValidInv, QuorumInv,
            SharesSent

LEMMA RecombineStep == IInv /\ recombine => IInv'
<1> SUFFICES ASSUME IInv, recombine PROVE IInv'
  OBVIOUS
<1>1. /\ Kept /\ UNCHANGED <<pc, j, acc, released>> /\ pc = "recombine" /\ c < l /\ c' = c + 1
      /\ c \in 0 .. l /\ k_agg \in Nat /\ offset \in Nat /\ acc \in [slots -> Int]
  BY DEF recombine, logVars, argVars, Kept, IInv, TypeOK
<1>2. k_agg' \in Nat /\ offset' \in Nat
  <2>1. c \in slots /\ acc[c] \in Int
    BY <1>1, ChunkAssumption DEF slots
  <2> DEFINE v == k_agg + offset * acc[c]
             w == offset * ChunkRadix
  <2>2. v \in Int /\ w \in Int
    BY <1>1, <2>1, ChunkAssumption
  <2>3. k_agg' = v % FieldOrder /\ offset' = w % FieldOrder
    BY DEF recombine
  <2> HIDE DEF v, w
  <2> QED BY <2>2, <2>3, SizeAssumption
<1>3. TypeOK'
  BY <1>1, <1>2, ChunkAssumption DEF IInv, TypeOK, Kept
<1> QED BY <1>1, <1>3
        DEF IInv, Kept, FreshInv, FoldInv, SumInv, EarlyInv, AggInv, valid, ValidInv, QuorumInv,
            SharesSent

LEMMA RecombinedStep == IInv /\ recombined => IInv'
<1> SUFFICES ASSUME IInv, recombined PROVE IInv'
  OBVIOUS
<1>1. /\ Kept /\ UNCHANGED <<j, acc, c, k_agg, offset, released>> /\ pc = "recombine"
      /\ pc' = "masks"
  BY DEF recombined, logVars, argVars, runVars, Kept
<1>2. TypeOK'
  BY <1>1 DEF IInv, TypeOK, Kept, running
<1> QED BY <1>1, <1>2
        DEF IInv, Kept, FreshInv, FoldInv, SumInv, EarlyInv, AggInv, valid, ValidInv, QuorumInv,
            SharesSent

LEMMA MasksStep == IInv /\ masks => IInv'
<1> SUFFICES ASSUME IInv, masks PROVE IInv'
  OBVIOUS
<1>1. /\ Kept /\ UNCHANGED <<j, acc, c, k_agg, offset>> /\ pc = "masks"
      /\ pc' \in {"done", "panic_len", "panic_mask"}
      /\ released' \in {released, released \cup {b}}
  BY DEF masks, logVars, argVars, runVars, Kept
<1>2. released' \subseteq 0 .. count
  BY <1>1 DEF IInv, TypeOK
<1>3. TypeOK'
  BY <1>1, <1>2 DEF IInv, TypeOK, Kept, panics
<1> QED BY <1>1, <1>3
        DEF IInv, Kept, FreshInv, FoldInv, SumInv, EarlyInv, AggInv, valid, ValidInv, QuorumInv,
            SharesSent

LEMMA StutterStep == IInv /\ UNCHANGED vars => IInv'
  BY DEF IInv, vars, logVars, argVars, runVars, TypeOK, FreshInv, FoldInv, SumInv, EarlyInv,
         AggInv, valid, ValidInv, QuorumInv, SharesSent

LEMMA BatchInvariance == Spec => []IInv
<1>1. IInv /\ [Next]_vars => IInv'
  BY EncryptStep, AnswerStep, DecryptStep, EndStep, SafeStep, AddStep, FoldedStep, AggStep,
     DlogStep, SolvedStep, RecombineStep, RecombinedStep, MasksStep, StutterStep
     DEF Next, decrypt_step
<1> QED BY InvInit, <1>1, PTL DEF Spec

-----------------------------------------------------------------------------

(* Typing of the log, the messages and the running call.                    *)
THEOREM BatchTypeCorrect == Spec => []TypeOK
  BY BatchInvariance, PTL DEF IInv

(* No slot of a batch that passed assert_homomorphic_batch_safe leaves the  *)
(* range of the solver, for every chunk width and every range.              *)
THEOREM SlotSumsBounded == Spec => []SlotSumsInRange
<1>1. IInv => SlotSumsInRange
  <2> SUFFICES ASSUME IInv, pc \in {"fold", "agg_dec"}, NEW s \in slots
               PROVE  acc[s] \in 0 .. max_dlog_exponent
    BY DEF SlotSumsInRange
  <2>1. CASE pc = "agg_dec"
    BY <2>1 DEF IInv, SumInv
  <2>2. CASE pc = "fold"
    <3>1. b <= max_homomorphic_batch_size /\ acc[s] \in 0 .. j * max_chunk_value
      BY <2>2 DEF IInv, FoldInv
    <3>2. j \in Nat /\ b \in Nat /\ j <= b
      BY SizeAssumption DEF IInv, TypeOK
    <3>3. max_homomorphic_batch_size \in Int
      BY SizeAssumption, ChunkNat DEF max_homomorphic_batch_size
    <3>4. j * max_chunk_value <= max_dlog_exponent /\ j * max_chunk_value \in Nat
      BY <3>1, <3>2, <3>3, BatchBound, TimesNat
    <3> QED BY <3>1, <3>4, SizeAssumption
  <2> QED BY <2>1, <2>2
<1> QED BY BatchInvariance, <1>1, PTL

(* A call that has panicked is left alone by everything but end_call.       *)
LEMMA PanicSource ==
  ASSUME IInv, [Next]_vars, pc' = "panic_dlog"
  PROVE  compute_dlog \/ (pc = "panic_dlog" /\ UNCHANGED <<b, selector, shares>>)
<1>1. CASE UNCHANGED vars
  BY <1>1 DEF vars, argVars
<1>2. CASE \E position \in 0 .. batch_size - 1, key \in KeySpace, t \in CtThresholds :
             encrypt(position, key, t)
  BY <1>2 DEF encrypt, argVars
<1>3. CASE \E p \in Party : batch_partial_decryption(p)
  BY <1>3 DEF batch_partial_decryption, argVars
<1>4. CASE \E m \in 0 .. count, with_fft \in BOOLEAN, S \in SUBSET Party :
             \E pd \in [S -> 0 .. MaxCts] : decrypt(m, with_fft, S, pd)
  BY <1>4 DEF decrypt
<1>5. CASE end_call
  BY <1>5 DEF end_call
<1>6. CASE decrypt_step
  BY <1>6 DEF decrypt_step, assert_homomorphic_batch_safe, add, folded, agg_dec, solved,
              recombine, recombined, masks, argVars
<1> QED BY <1>1, <1>2, <1>3, <1>4, <1>5, <1>6 DEF Next

(* With markers that cover the range the check is made for, the solver      *)
(* fails only on shares that do not belong to the batch.                    *)
THEOREM CheckedSumSolved ==
  ASSUME max_dlog_exponent < MarkersRange
  PROVE  Spec => []CheckedSumIsSolved
<1>1. Init => CheckedSumIsSolved
  BY DEF Init, CheckedSumIsSolved
<1>2. IInv /\ CheckedSumIsSolved /\ [Next]_vars => CheckedSumIsSolved'
  <2> SUFFICES ASSUME IInv, CheckedSumIsSolved, [Next]_vars, pc' = "panic_dlog"
               PROVE  \E p \in selector' : shares'[p] # b'
    BY DEF CheckedSumIsSolved
  <2>1. CASE compute_dlog
    <3>1. Kept /\ pc = "dlog" /\ c \in slots /\ acc[c] \notin 0 .. MarkersRange - 1
      BY <2>1, ChunkAssumption
      DEF compute_dlog, logVars, argVars, Kept, IInv, TypeOK, slots
    <3>2. acc[c] \notin 0 .. max_dlog_exponent
      BY <3>1, SizeAssumption
    <3>3. ~valid
      BY <3>1, <3>2 DEF IInv, AggInv
    <3> QED BY <3>1, <3>3 DEF valid, Kept
  <2>2. CASE pc = "panic_dlog" /\ UNCHANGED <<b, selector, shares>>
    BY <2>2 DEF CheckedSumIsSolved
  <2> QED BY <2>1, <2>2, PanicSource
<1> QED BY <1>1, <1>2, BatchInvariance, PTL DEF Spec

-----------------------------------------------------------------------------

(* BatchRelease brings its own copy of FiniteSets.                          *)
LEMMA SameCardinality == \A S : Abstract!Cardinality(S) = Cardinality(S)
  BY DEF Cardinality, Abstract!Cardinality

(* A call that reaches the comparison of the masks holds a quorum of shares *)
(* for its batch, and each of them was sent by its party.                   *)
LEMMA QuorumApproved ==
  ASSUME IInv, pc = "masks"
  PROVE  b = 0 \/ Cardinality(Abstract!Approvers(b)) >= Threshold
<1>1. Cardinality(selector) >= Threshold /\ \A p \in selector : shares[p] = b
  BY DEF IInv, QuorumInv, ValidInv, valid
<1>2. CASE b # 0
  <2>1. selector \subseteq Abstract!Approvers(b)
    BY <1>1, <1>2 DEF IInv, TypeOK, SharesSent, Abstract!Approvers
  <2>2. IsFiniteSet(Abstract!Approvers(b))
    BY CommitteeAssumption, FS_Subset DEF Abstract!Approvers
  <2>3. /\ Cardinality(selector) <= Cardinality(Abstract!Approvers(b))
        /\ Cardinality(selector) \in Nat /\ Cardinality(Abstract!Approvers(b)) \in Nat
    BY <2>1, <2>2, FS_Subset, FS_CardinalityType
  <2> QED BY <1>1, <2>3, CommitteeAssumption
<1> QED BY <1>2

(* The system implements BatchRelease: an answer of a party approves the    *)
(* batch of the ciphertexts it has received, the successful end of a call   *)
(* opens its batch, and every other step is invisible.                      *)
THEOREM ImplementsRelease == Spec => ReleaseSpec
<1>1. Init => Abstract!Init
  BY DEF Init, Abstract!Init
<1>2. IInv /\ [Next]_vars => [Abstract!Next]_<<sent, released>>
  <2> SUFFICES ASSUME IInv, [Next]_vars
               PROVE  Abstract!Next \/ UNCHANGED <<sent, released>>
    OBVIOUS
  <2>1. CASE UNCHANGED vars
    BY <2>1 DEF vars, logVars
  <2>2. CASE \E position \in 0 .. batch_size - 1, key \in KeySpace, t \in CtThresholds :
               encrypt(position, key, t)
    BY <2>2 DEF encrypt
  <2>3. ASSUME NEW p \in Party, batch_partial_decryption(p)
        PROVE  Abstract!Next
    <3>1. count \in 0 .. MaxCts
      BY DEF IInv, TypeOK
    <3>2. Abstract!Approve(p, count)
      BY <2>3 DEF batch_partial_decryption, Abstract!Approve
    <3> QED BY <3>1, <3>2 DEF Abstract!Next
  <2>4. CASE \E m \in 0 .. count, with_fft \in BOOLEAN, S \in SUBSET Party :
               \E pd \in [S -> 0 .. MaxCts] : decrypt(m, with_fft, S, pd)
    BY <2>4 DEF decrypt, logVars
  <2>5. CASE end_call
    BY <2>5 DEF end_call, logVars
  <2>6. CASE masks
    <3>1. pc = "masks" /\ sent' = sent /\ released' \in {released, released \cup {b}}
      BY <2>6 DEF masks, logVars
    <3>2. CASE released' = released \cup {b}
      <4>1. b \in 0 .. MaxCts
        BY SizeAssumption DEF IInv, TypeOK
      <4>2. Abstract!Release(b)
        BY <3>1, <3>2, QuorumApproved, SameCardinality DEF Abstract!Release
      <4> QED BY <4>1, <4>2 DEF Abstract!Next
    <3> QED BY <3>1, <3>2
  <2>7. CASE decrypt_step /\ ~masks
    BY <2>7 DEF decrypt_step, assert_homomorphic_batch_safe, add, folded, agg_dec, compute_dlog,
                solved, recombine, recombined, logVars
  <2> QED BY <2>1, <2>2, <2>3, <2>4, <2>5, <2>6, <2>7 DEF Next
<1> QED BY <1>1, <1>2, BatchInvariance, PTL DEF Spec, ReleaseSpec, Abstract!Spec

(***************************************************************************)
(* From the fold to the masks, the ciphertexts of the batch looked at so   *)
(* far are all under the caller's threshold.  The log only grows behind    *)
(* them, so that this also stays true of the batches released.             *)
(***************************************************************************)
UniformInv ==
  /\ pc = "fold" => \A k \in 0 .. j - 1 : cts[k].t = Threshold
  /\ pc \in {"agg_dec", "dlog", "recombine", "masks"} =>
       \A k \in 0 .. b - 1 : cts[k].t = Threshold
  /\ ReleasedBatchIsUniform

LEMMA EncryptUniform ==
  ASSUME IInv, UniformInv,
         NEW position \in 0 .. batch_size - 1, NEW key \in KeySpace, NEW t \in CtThresholds,
         encrypt(position, key, t)
  PROVE  UniformInv'
<1>1. /\ UNCHANGED <<pc, b, j, released>>
      /\ \A k \in 0 .. count - 1 : cts'[k] = cts[k]
  BY SizeAssumption DEF IInv, TypeOK, encrypt, argVars, runVars
<1>2. /\ count \in Nat /\ b \in 0 .. count /\ j \in 0 .. b
      /\ \A m \in released : m \in 0 .. count
  BY SizeAssumption DEF IInv, TypeOK
<1>3. ASSUME NEW m \in 0 .. count, NEW k \in 0 .. m - 1
      PROVE  cts'[k] = cts[k]
  BY <1>1, <1>2
<1>4. ReleasedBatchIsUniform'
  BY <1>1, <1>2, <1>3 DEF UniformInv, ReleasedBatchIsUniform
<1>5. j \in 0 .. count /\ b \in 0 .. count
  BY <1>2
<1> QED BY <1>1, <1>3, <1>4, <1>5 DEF UniformInv

LEMMA AddUniform == IInv /\ UniformInv /\ add => UniformInv'
<1> SUFFICES ASSUME IInv, UniformInv, add PROVE UniformInv'
  OBVIOUS
<1>1. UNCHANGED <<cts, b, released>> /\ pc = "fold" /\ j \in Nat
  BY SizeAssumption DEF add, logVars, argVars, IInv, TypeOK
<1>2. CASE cts[j].t = Threshold
  BY <1>1, <1>2 DEF add, UniformInv, ReleasedBatchIsUniform
<1>3. CASE cts[j].t # Threshold
  BY <1>1, <1>3 DEF add, UniformInv, ReleasedBatchIsUniform
<1> QED BY <1>2, <1>3

(* One ciphertext of another threshold keeps every prefix of the log that   *)
(* contains it from being released, whatever is retried and whoever         *)
(* answers: for every committee, log and choice of thresholds.              *)
THEOREM ReleaseIsUniform == Spec => []ReleasedBatchIsUniform
<1>1. Init => UniformInv
  BY DEF Init, UniformInv, ReleasedBatchIsUniform
<1>2. IInv /\ UniformInv /\ [Next]_vars => UniformInv'
  <2> SUFFICES ASSUME IInv, UniformInv, [Next]_vars PROVE UniformInv'
    OBVIOUS
  <2> USE DEF UniformInv, ReleasedBatchIsUniform
  <2>1. CASE UNCHANGED vars
    BY <2>1 DEF vars, logVars, argVars, runVars
  <2>2. CASE \E position \in 0 .. batch_size - 1, key \in KeySpace, t \in CtThresholds :
               encrypt(position, key, t)
    BY <2>2, EncryptUniform
  <2>3. ASSUME NEW p \in Party, batch_partial_decryption(p) PROVE UniformInv'
    BY <2>3 DEF batch_partial_decryption, argVars, runVars
  <2>4. CASE \E m \in 0 .. count, with_fft \in BOOLEAN, S \in SUBSET Party :
               \E pd \in [S -> 0 .. MaxCts] : decrypt(m, with_fft, S, pd)
    <3>1. pc' = "safe" /\ UNCHANGED <<cts, released>>
      BY <2>4 DEF decrypt, logVars
    <3> QED BY <3>1
  <2>5. CASE end_call
    BY <2>5 DEF end_call, logVars
  <2>6. CASE assert_homomorphic_batch_safe
    <3>1. j = 0 /\ j' = j /\ UNCHANGED <<cts, released>> /\ pc' \in {"fold", "panic_batch"}
      BY <2>6 DEF assert_homomorphic_batch_safe, logVars, runVars, IInv, FreshInv
    <3> QED BY <3>1
  <2>7. CASE add
    BY <2>7, AddUniform
  <2>8. CASE folded
    BY <2>8 DEF folded, logVars, argVars, runVars
  <2>9. CASE agg_dec \/ compute_dlog \/ solved \/ recombine \/ recombined
    BY <2>9 DEF agg_dec, compute_dlog, solved, recombine, recombined, logVars, argVars, runVars
  <2>10. CASE masks
    BY <2>10 DEF masks, logVars, argVars, runVars
  <2> QED BY <2>1, <2>2, <2>3, <2>4, <2>5, <2>6, <2>7, <2>8, <2>9, <2>10 DEF Next, decrypt_step
<1> QED BY BatchInvariance, <1>1, <1>2, PTL DEF Spec, UniformInv

-----------------------------------------------------------------------------
(* The arithmetic of the recombination                                      *)

LEMMA ModSame ==
  ASSUME NEW m \in Nat \ {0}, NEW x \in Int, NEW q \in Int
  PROVE  (x + m * q) % m = x % m
<1> DEFINE r == x % m
           p == x \div m
<1>1. r \in 0 .. m - 1 /\ p \in Int /\ x = m * p + r
  BY DivMod
<1> HIDE DEF r, p
<1>2. m * q \in Int /\ m * p \in Int /\ x + m * q = m * (p + q) + r /\ p + q \in Int
  BY <1>1
<1>3. x + m * q \in Int
  BY <1>2
<1>4. (x + m * q) % m = r
  BY <1>1, <1>2, <1>3, DivModUnique
<1> QED BY <1>4 DEF r

LEMMA ModApart ==
  ASSUME NEW m \in Nat \ {0}, NEW x \in Int, NEW y \in Int, x % m = y % m
  PROVE  \E q \in Int : x = y + m * q
<1> DEFINE r == x % m
           p == x \div m
           s == y \div m
<1>1. p \in Int /\ s \in Int /\ r \in Int /\ x = m * p + r /\ y = m * s + r
  BY DivMod
<1> HIDE DEF r, p, s
<1>2. x = y + m * (p - s) /\ p - s \in Int
  BY <1>1
<1> QED BY <1>2

(* One step of the recombination, modulo m.                                 *)
Congruent(m, k, v, o, w, a) ==
  (k + o * a) % m = (v + w * a) % m /\ (o * a) % m = (w * a) % m

LEMMA ModStep ==
  ASSUME NEW m \in Nat \ {0}, NEW k \in Int, NEW v \in Int, NEW o \in Int, NEW w \in Int,
         NEW a \in Int, k % m = v % m, o % m = w % m
  PROVE  Congruent(m, k, v, o, w, a)
<1>1. PICK q \in Int : k = v + m * q
  BY ModApart
<1>2. PICK p \in Int : o = w + m * p
  BY ModApart
<1>3. p * a \in Int /\ w * a \in Int /\ o * a = w * a + m * (p * a)
  <2>1. (w + m * p) * a = w * a + m * (p * a)
    OBVIOUS
  <2> QED BY <1>2, <2>1
<1> DEFINE pa == p * a
           wa == w * a
           oa == o * a
<1>4. pa \in Int /\ wa \in Int /\ oa = wa + m * pa /\ m * pa \in Int /\ m * q \in Int
  BY <1>3
<1> HIDE DEF pa, wa, oa
<1>5. k + oa = (v + wa) + m * (q + pa) /\ v + wa \in Int /\ q + pa \in Int
  BY <1>1, <1>4
<1>6. (k + oa) % m = (v + wa) % m
  <2> DEFINE y == v + wa
             e == q + pa
  <2>1. y \in Int /\ e \in Int /\ k + oa = y + m * e
    BY <1>5
  <2> HIDE DEF y, e
  <2>2. (y + m * e) % m = y % m
    BY <2>1, ModSame
  <2> QED BY <2>1, <2>2 DEF y
<1>7. oa % m = wa % m
  BY <1>4, ModSame
<1> QED BY <1>6, <1>7 DEF oa, wa, Congruent

LEMMA ModTwice ==
  ASSUME NEW m \in Nat \ {0}, NEW x \in Int
  PROVE  (x % m) % m = x % m
<1> DEFINE r == x % m
<1>1. r \in 0 .. m - 1
  BY DivMod
<1> HIDE DEF r
<1>2. r = m * 0 + r /\ r \in Int
  BY <1>1
<1>3. r % m = r
  BY <1>1, <1>2, DivModUnique
<1> QED BY <1>3 DEF r

(* Splitting off one more digit.                                            *)
LEMMA NextDigit ==
  ASSUME NEW x \in Int, NEW w \in Nat \ {0}, NEW d \in Nat \ {0}
  PROVE  x % (d * w) = (x % w) + w * ((x \div w) % d)
<1> DEFINE r == x % w
           q == x \div w
           s == q % d
           p == q \div d
<1>1. r \in 0 .. w - 1 /\ q \in Int /\ x = w * q + r
  BY DivMod
<1>2. s \in 0 .. d - 1 /\ p \in Int /\ q = d * p + s
  <2> HIDE DEF q
  <2> QED BY <1>1, DivMod
<1> HIDE DEF r, q, s, p
<1>3. w * q = (d * w) * p + w * s
  BY <1>1, <1>2
<1>4. d * w \in Nat \ {0}
  <2>1. d * w >= 1
    <3>1. (d - 1) * w >= 0 /\ (d - 1) * w = d * w - w
      OBVIOUS
    <3> QED BY <3>1
  <2> QED BY <2>1
<1>5. w * s + r \in 0 .. d * w - 1
  <2>1. w * s >= 0 /\ w * (d - 1 - s) >= 0
    BY <1>2
  <2>2. w * (d - 1 - s) = d * w - w - w * s
    BY <1>2
  <2>3. w * s \in Int /\ d * w \in Int
    BY <1>2
  <2> QED BY <1>1, <2>1, <2>2, <2>3
<1> DEFINE m == d * w
           t == w * s + r
<1>6. m \in Nat \ {0} /\ t \in 0 .. m - 1 /\ x = m * p + t
  <2>1. w * s \in Int /\ m * p \in Int
    BY <1>2, <1>4
  <2> QED BY <1>1, <1>3, <1>4, <1>5, <2>1
<1> HIDE DEF m, t
<1>7. x % m = t
  BY <1>2, <1>6, DivModUnique
<1>8. t = r + w * s
  <2>1. w * s \in Int
    BY <1>2
  <2> QED BY <1>1, <2>1 DEF t
<1> QED BY <1>7, <1>8 DEF m, r, q, s

(* Running sums: the first m values of u, added up.                         *)
RunsUp(f, u, m) == f[0] = 0 /\ \A k \in 0 .. m - 1 : f[k + 1] = f[k] + u[k]

AllSums(g, u) == g \in [Nat -> Int] /\ g[0] = 0 /\ \A k \in Nat : g[k + 1] = g[k] + u[k]

sums(u) == CHOOSE g : AllSums(g, u)

LEMMA SumsExist ==
  ASSUME NEW u \in [Nat -> Int]
  PROVE  AllSums(sums(u), u)
<1> DEFINE step == [k \in Nat |-> [v \in Int |-> v + u[k]]]
<1>1. step \in [Nat -> [Int -> Int]] /\ 0 \in Int
  OBVIOUS
<1>2. PICK g \in [Nat -> Int] : NatRecursive(g, 0, step)
  <2> HIDE DEF step
  <2> QED BY <1>1, NatRecursion
<1>3. AllSums(g, u)
  BY <1>2 DEF NatRecursive, AllSums
<1> QED BY <1>3 DEF sums

LEMMA SumsUnique ==
  ASSUME NEW u \in [Nat -> Int], NEW m \in Nat, NEW f, RunsUp(f, u, m)
  PROVE  \A k \in 0 .. m : f[k] = sums(u)[k]
<1> DEFINE g == sums(u)
           T == { k \in Nat : k <= m => f[k] = g[k] }
<1>1. AllSums(g, u)
  BY SumsExist
<1> HIDE DEF g
<1>2. 0 \in T
  BY <1>1 DEF AllSums, RunsUp
<1>3. \A k \in Nat : k \in T => k + 1 \in T
  BY <1>1 DEF AllSums, RunsUp
<1>4. \A k \in Nat : k \in T
  <2> HIDE DEF T
  <2> QED BY <1>2, <1>3, Induction
<1> QED BY <1>4 DEF g

Agree(u, v, m) == \A k \in 0 .. m - 1 : u[k] = v[k]

LEMMA SumsAgree ==
  ASSUME NEW u \in [Nat -> Int], NEW v \in [Nat -> Int], NEW m \in Nat, Agree(u, v, m)
  PROVE  sums(u)[m] = sums(v)[m]
<1> DEFINE g == sums(v)
<1>1. AllSums(g, v)
  BY SumsExist
<1> HIDE DEF g
<1>2. RunsUp(g, u, m)
  BY <1>1 DEF AllSums, RunsUp, Agree
<1>3. m \in 0 .. m
  OBVIOUS
<1> QED BY <1>2, <1>3, SumsUnique DEF g

Adds(w, u, v, m) == \A k \in 0 .. m - 1 : w[k] = u[k] + v[k]

LEMMA SumsAdd ==
  ASSUME NEW u \in [Nat -> Int], NEW v \in [Nat -> Int], NEW w \in [Nat -> Int],
         NEW m \in Nat, Adds(w, u, v, m)
  PROVE  sums(w)[m] = sums(u)[m] + sums(v)[m]
<1> DEFINE g == sums(u)
           h == sums(v)
           f == [k \in Nat |-> g[k] + h[k]]
<1>1. AllSums(g, u) /\ AllSums(h, v)
  BY SumsExist
<1> HIDE DEF g, h
<1>2. \A k \in Nat : f[k] = g[k] + h[k] /\ g[k] \in Int /\ h[k] \in Int
  BY <1>1 DEF AllSums
<1> HIDE DEF f
<1>3. f[0] = 0
  BY <1>1, <1>2 DEF AllSums
<1>4. \A k \in 0 .. m - 1 : f[k + 1] = f[k] + w[k]
  <2> TAKE k \in 0 .. m - 1
  <2>1. k \in Nat /\ k + 1 \in Nat /\ w[k] = u[k] + v[k] /\ u[k] \in Int /\ v[k] \in Int
    BY DEF Adds
  <2>2. g[k + 1] = g[k] + u[k] /\ h[k + 1] = h[k] + v[k]
    BY <1>1, <2>1 DEF AllSums
  <2>3. f[k + 1] = g[k + 1] + h[k + 1] /\ f[k] = g[k] + h[k] /\ g[k] \in Int /\ h[k] \in Int
    BY <1>2, <2>1
  <2> QED BY <2>1, <2>2, <2>3
<1>5. RunsUp(f, w, m) /\ m \in 0 .. m
  BY <1>3, <1>4 DEF RunsUp
<1>6. f[m] = sums(w)[m]
  BY <1>5, SumsUnique
<1> QED BY <1>2, <1>6 DEF g, h

(* What the slots u hold, read as digits from slot 0 up to slot m - 1.      *)
digits(u) == [k \in Nat |-> IF k < l THEN Weight[k] * u[k] ELSE 0]
held(u, m) == sums(digits(u))[m]

LEMMA WeightType == \A k \in 0 .. l : Weight[k] \in Nat \ {0}
BY ChunkAssumption

LEMMA DigitsType ==
  ASSUME NEW u \in [slots -> Int]
  PROVE  digits(u) \in [Nat -> Int]
<1>1. \A k \in Nat : k < l => Weight[k] * u[k] \in Int
  <2> TAKE k \in Nat
  <2> HAVE k < l
  <2>1. k \in slots /\ k \in 0 .. l /\ u[k] \in Int
    BY ChunkAssumption DEF slots
  <2>2. Weight[k] \in Int
    BY <2>1, WeightType
  <2> QED BY <2>1, <2>2
<1> QED BY <1>1 DEF digits

LEMMA HeldStep ==
  ASSUME NEW u \in [slots -> Int], NEW m \in slots
  PROVE  /\ held(u, 0) = 0 /\ held(u, m) \in Int
         /\ held(u, m + 1) = held(u, m) + Weight[m] * u[m]
<1> DEFINE g == sums(digits(u))
<1>1. AllSums(g, digits(u))
  BY DigitsType, SumsExist
<1>2. m \in Nat /\ m < l
  BY ChunkAssumption DEF slots
<1>3. digits(u)[m] = Weight[m] * u[m]
  BY <1>2 DEF digits
<1> HIDE DEF g
<1> QED BY <1>1, <1>2, <1>3 DEF AllSums, held, g

LEMMA HeldZero == \A m \in 0 .. l : held(zero, m) = 0
<1> DEFINE f == [k \in Nat |-> 0]
           u == digits(zero)
<1>1. zero \in [slots -> Int]
  BY DEF zero
<1>2. u \in [Nat -> Int]
  <2> HIDE DEF u
  <2> QED BY <1>1, DigitsType DEF u
<1>3. \A k \in Nat : u[k] = 0
  <2> TAKE k \in Nat
  <2>1. k < l => Weight[k] * zero[k] = 0
    <3> HAVE k < l
    <3>1. k \in slots /\ k \in 0 .. l
      BY ChunkAssumption DEF slots
    <3>2. Weight[k] \in Nat /\ zero[k] = 0
      BY <3>1, WeightType DEF zero
    <3> QED BY <3>2
  <2> QED BY <2>1 DEF digits
<1> HIDE DEF u
<1> TAKE m \in 0 .. l
<1>4. m \in Nat /\ m \in 0 .. m
  BY ChunkAssumption
<1>5. RunsUp(f, u, m)
  BY <1>3, <1>4 DEF RunsUp
<1>6. f[m] = sums(u)[m]
  <2>1. \A k \in 0 .. m : f[k] = sums(u)[k]
    <3> HIDE DEF f
    <3> QED BY <1>2, <1>4, <1>5, SumsUnique
  <2> QED BY <1>4, <2>1
<1> QED BY <1>4, <1>6 DEF held, u

LEMMA HeldAdd ==
  ASSUME NEW u \in [slots -> Int], NEW v \in [slots -> Int], NEW w \in [slots -> Int],
         \A s \in slots : w[s] = u[s] + v[s]
  PROVE  held(w, l) = held(u, l) + held(v, l)
<1> DEFINE du == digits(u)
           dv == digits(v)
           dw == digits(w)
<1>1. du \in [Nat -> Int] /\ dv \in [Nat -> Int] /\ dw \in [Nat -> Int] /\ l \in Nat
  BY DigitsType, ChunkAssumption
<1>2. \A k \in 0 .. l - 1 : dw[k] = du[k] + dv[k]
  <2> TAKE k \in 0 .. l - 1
  <2>1. k \in Nat /\ k < l /\ k \in slots /\ k \in 0 .. l
    BY ChunkAssumption DEF slots
  <2>2. Weight[k] \in Int /\ u[k] \in Int /\ v[k] \in Int /\ w[k] = u[k] + v[k]
    BY <2>1, WeightType
  <2>3. dw[k] = Weight[k] * w[k] /\ du[k] = Weight[k] * u[k] /\ dv[k] = Weight[k] * v[k]
    BY <2>1 DEF digits
  <2>4. Weight[k] * (u[k] + v[k]) = Weight[k] * u[k] + Weight[k] * v[k]
    BY <2>2
  <2> QED BY <2>2, <2>3, <2>4
<1> HIDE DEF du, dv, dw
<1>3. Adds(dw, du, dv, l)
  BY <1>2 DEF Adds
<1>4. sums(dw)[l] = sums(du)[l] + sums(dv)[l]
  BY <1>1, <1>3, SumsAdd
<1> QED BY <1>4 DEF held, du, dv, dw

(* The slots of a fresh ciphertext hold the low part of its key.            *)
Split(key) == [s \in slots |-> chunk(key, s)]

LEMMA HeldSplit ==
  ASSUME NEW key \in KeySpace
  PROVE  /\ \A m \in 0 .. l : held(Split(key), m) = key % Weight[m]
         /\ Split(key) \in [slots -> Int]
<1> DEFINE u == digits(Split(key))
           f == [k \in Nat |-> key % Weight[k]]
<1>1. Split(key) \in [slots -> Int]
  <2>1. \A s \in slots : chunk(key, s) \in Int
    BY ChunkValue, ChunkNat
  <2> QED BY <2>1 DEF Split
<1>2. u \in [Nat -> Int] /\ l \in Nat /\ key \in Int
  <2>1. u \in [Nat -> Int]
    BY <1>1, DigitsType
  <2> QED BY <2>1, ChunkAssumption, SizeAssumption
<1>3. f[0] = 0
  BY <1>2, ChunkAssumption
<1>4. \A k \in 0 .. l - 1 : f[k + 1] = f[k] + u[k]
  <2> TAKE k \in 0 .. l - 1
  <2>1. k \in Nat /\ k < l /\ k \in slots /\ k \in 0 .. l /\ k + 1 \in Nat
    BY ChunkAssumption DEF slots
  <2>2. Weight[k] \in Nat \ {0} /\ ChunkRadix \in Nat \ {0} /\ Weight[k + 1] = ChunkRadix * Weight[k]
    BY <2>1, WeightType, ChunkAssumption
  <2>3. u[k] = Weight[k] * ((key \div Weight[k]) % ChunkRadix)
    BY <2>1 DEF digits, Split, chunk
  <2> DEFINE w == Weight[k]
  <2>4. key % (ChunkRadix * w) = (key % w) + w * ((key \div w) % ChunkRadix)
    <3> HIDE DEF w
    <3>1. w \in Nat \ {0}
      BY <2>2 DEF w
    <3> QED BY <1>2, <2>2, <3>1, NextDigit
  <2>5. f[k + 1] = key % Weight[k + 1] /\ f[k] = key % Weight[k]
    BY <2>1
  <2> QED BY <2>2, <2>3, <2>4, <2>5
<1> HIDE DEF u, f
<1>5. \A k \in 0 .. l : f[k] = sums(u)[k]
  <2>1. RunsUp(f, u, l)
    BY <1>3, <1>4 DEF RunsUp
  <2> QED BY <1>2, <2>1, SumsUnique
<1>6. \A m \in 0 .. l : f[m] = key % Weight[m]
  BY <1>2 DEF f
<1> QED BY <1>1, <1>5, <1>6 DEF held, u

(* What the log's keys, and their low parts, add up to.                     *)
lows == [k \in Nat |-> IF k < count THEN cts[k].key % Weight[l] ELSE 0]
fulls == [k \in Nat |-> IF k < count THEN cts[k].key ELSE 0]

LEMMA LowPart == \A key \in KeySpace : key \in Nat /\ key % Weight[l] \in Int
<1> TAKE key \in KeySpace
<1>1. key \in Nat /\ Weight[l] \in Nat \ {0}
  BY SizeAssumption, WeightType, ChunkAssumption
<1> QED BY <1>1, DivMod

LEMMA LogSums ==
  ASSUME TypeOK
  PROVE  /\ lows \in [Nat -> Int] /\ fulls \in [Nat -> Int]
         /\ \A k \in 0 .. count - 1 : lows[k] = cts[k].key % Weight[l] /\ fulls[k] = cts[k].key
<1>1. count \in Nat /\ Weight[l] \in Nat \ {0}
  BY SizeAssumption, WeightType, ChunkAssumption DEF TypeOK
<1>2. \A k \in 0 .. count - 1 : cts[k].key \in Nat /\ cts[k].key % Weight[l] \in Int
  <2> TAKE k \in 0 .. count - 1
  <2>1. cts[k].key \in KeySpace
    BY DEF TypeOK
  <2> QED BY <2>1, LowPart
<1>3. \A k \in Nat : k < count <=> k \in 0 .. count - 1
  BY <1>1
<1> QED BY <1>1, <1>2, <1>3 DEF lows, fulls

LEMMA CarriedIs ==
  ASSUME TypeOK, NEW m \in 0 .. count
  PROVE  carried_sum(m) = sums(lows)[m]
<1> DEFINE Rec(f) == f = [k \in 0 .. m |-> IF k = 0 THEN 0 ELSE f[k - 1] + (cts[k - 1].key % Weight[l])]
           f0 == CHOOSE f : Rec(f)
           h == sums(lows)
           g == [k \in 0 .. m |-> h[k]]
<1>1. carried_sum(m) = f0[m]
  BY DEF carried_sum
<1>2. AllSums(h, lows) /\ m \in Nat /\ count \in Nat /\ m <= count
      /\ \A k \in 0 .. count - 1 : lows[k] = cts[k].key % Weight[l]
  BY LogSums, SumsExist, SizeAssumption DEF TypeOK
<1>3. Rec(g)
  <2> HIDE DEF h
  <2>1. ASSUME NEW k \in 0 .. m, k # 0
        PROVE  g[k] = g[k - 1] + (cts[k - 1].key % Weight[l])
    <3>1. k - 1 \in 0 .. m /\ k - 1 \in Nat /\ (k - 1) + 1 = k /\ k - 1 \in 0 .. count - 1
      BY <1>2, <2>1
    <3>2. h[k] = h[k - 1] + lows[k - 1]
      BY <1>2, <3>1 DEF AllSums
    <3> QED BY <1>2, <3>1, <3>2
  <2>2. g[0] = 0
    BY <1>2 DEF AllSums
  <2>3. g = [k \in 0 .. m |-> g[k]]
    OBVIOUS
  <2> HIDE DEF g
  <2> QED BY <2>1, <2>2, <2>3
<1>4. Rec(f0)
  <2> HIDE DEF Rec, g
  <2> QED BY <1>3
<1>5. RunsUp(f0, lows, m)
  <2> HIDE DEF f0, h
  <2>1. f0[0] = 0
    BY <1>2, <1>4
  <2>2. \A k \in 0 .. m - 1 : f0[k + 1] = f0[k] + lows[k]
    <3> TAKE k \in 0 .. m - 1
    <3>1. k + 1 \in 0 .. m /\ k + 1 # 0 /\ (k + 1) - 1 = k /\ k \in 0 .. count - 1
      BY <1>2
    <3> QED BY <1>2, <1>4, <3>1
  <2> QED BY <2>1, <2>2 DEF RunsUp
<1> HIDE DEF f0, Rec, g, h
<1>6. f0[m] = sums(lows)[m]
  <2>1. \A k \in 0 .. m : f0[k] = sums(lows)[k]
    BY <1>2, <1>5, LogSums, SumsUnique
  <2> QED BY <1>2, <2>1
<1> QED BY <1>1, <1>6

LEMMA FullIs ==
  ASSUME TypeOK, NEW m \in 0 .. count
  PROVE  key_sum(m) = sums(fulls)[m]
<1> DEFINE Rec(f) == f = [k \in 0 .. m |-> IF k = 0 THEN 0 ELSE f[k - 1] + cts[k - 1].key]
           f0 == CHOOSE f : Rec(f)
           h == sums(fulls)
           g == [k \in 0 .. m |-> h[k]]
<1>1. key_sum(m) = f0[m]
  BY DEF key_sum
<1>2. AllSums(h, fulls) /\ m \in Nat /\ count \in Nat /\ m <= count
      /\ \A k \in 0 .. count - 1 : fulls[k] = cts[k].key
  BY LogSums, SumsExist, SizeAssumption DEF TypeOK
<1>3. Rec(g)
  <2> HIDE DEF h
  <2>1. ASSUME NEW k \in 0 .. m, k # 0
        PROVE  g[k] = g[k - 1] + cts[k - 1].key
    <3>1. k - 1 \in 0 .. m /\ k - 1 \in Nat /\ (k - 1) + 1 = k /\ k - 1 \in 0 .. count - 1
      BY <1>2, <2>1
    <3>2. h[k] = h[k - 1] + fulls[k - 1]
      BY <1>2, <3>1 DEF AllSums
    <3> QED BY <1>2, <3>1, <3>2
  <2>2. g[0] = 0
    BY <1>2 DEF AllSums
  <2>3. g = [k \in 0 .. m |-> g[k]]
    OBVIOUS
  <2> HIDE DEF g
  <2> QED BY <2>1, <2>2, <2>3
<1>4. Rec(f0)
  <2> HIDE DEF Rec, g
  <2> QED BY <1>3
<1>5. RunsUp(f0, fulls, m)
  <2> HIDE DEF f0, h
  <2>1. f0[0] = 0
    BY <1>2, <1>4
  <2>2. \A k \in 0 .. m - 1 : f0[k + 1] = f0[k] + fulls[k]
    <3> TAKE k \in 0 .. m - 1
    <3>1. k + 1 \in 0 .. m /\ k + 1 # 0 /\ (k + 1) - 1 = k /\ k \in 0 .. count - 1
      BY <1>2
    <3> QED BY <1>2, <1>4, <3>1
  <2> QED BY <2>1, <2>2 DEF RunsUp
<1> HIDE DEF f0, Rec, g, h
<1>6. f0[m] = sums(fulls)[m]
  <2>1. \A k \in 0 .. m : f0[k] = sums(fulls)[k]
    BY <1>2, <1>5, LogSums, SumsUnique
  <2> QED BY <1>2, <2>1
<1> QED BY <1>1, <1>6
(***************************************************************************)
(* The invariant behind KeyRecovered.  The log holds the chunks of its     *)
(* keys; while the batch is folded the slots hold, read as digits of one   *)
(* number, the low parts of the keys folded so far; and what has been      *)
(* recombined is, in the field, the number the slots before c hold.        *)
(***************************************************************************)
low_sum(m) == sums(lows)[m]

LogInv == \A k \in 0 .. count - 1 : cts[k].ct = Split(cts[k].key)

ClearInv == pc \in {"idle", "safe", "fold", "agg_dec", "dlog"} => k_agg = 0 /\ offset = 1

FoldedInv ==
  /\ pc \in {"fold", "agg_dec"} => held(acc, l) = low_sum(j)
  /\ pc = "agg_dec" => j = b

SlotsInv == pc \in {"dlog", "recombine"} /\ valid => held(acc, l) = low_sum(b)

DigitInv ==
  pc = "recombine" => /\ k_agg = held(acc, c) % FieldOrder
                      /\ offset % FieldOrder = Weight[c] % FieldOrder

MaskInv == pc = "masks" => k_agg = low_sum(b) % FieldOrder

CarryInv == LogInv /\ ClearInv /\ FoldedInv /\ SlotsInv /\ DigitInv /\ MaskInv

LEMMA LowSums ==
  ASSUME TypeOK
  PROVE  /\ low_sum(0) = 0
         /\ \A k \in 0 .. count - 1 : low_sum(k + 1) = low_sum(k) + (cts[k].key % Weight[l])
         /\ \A k \in 0 .. count : low_sum(k) \in Int
<1>1. AllSums(sums(lows), lows) /\ count \in Nat
  BY LogSums, SumsExist, SizeAssumption DEF TypeOK
<1>2. \A k \in 0 .. count - 1 : lows[k] = cts[k].key % Weight[l]
  BY LogSums
<1> QED BY <1>1, <1>2 DEF AllSums, low_sum

LEMMA LowsKept ==
  ASSUME Kept
  PROVE  /\ \A m \in Nat : low_sum(m)' = low_sum(m)
         /\ LogInv => LogInv'
<1>1. lows' = lows
  BY DEF Kept, lows
<1>2. sums(lows') = sums(lows)
  BY <1>1
<1> QED BY <1>2 DEF low_sum, Kept, LogInv

LEMMA EncryptLows ==
  ASSUME IInv, LogInv, NEW position \in 0 .. batch_size - 1, NEW key \in KeySpace,
         NEW t \in CtThresholds, encrypt(position, key, t)
  PROVE  /\ \A m \in 0 .. count : low_sum(m)' = low_sum(m)
         /\ LogInv'
<1>1. TypeOK /\ TypeOK' /\ count \in Nat
  <2>1. IInv'
    BY EncryptStep
  <2>2. TypeOK /\ TypeOK'
    BY <2>1 DEF IInv
  <2>3. count \in Nat
    BY <2>2, SizeAssumption DEF TypeOK
  <2> QED BY <2>2, <2>3
<1>2. count' = count + 1 /\ \A k \in 0 .. count - 1 : cts'[k] = cts[k]
  BY <1>1 DEF encrypt
<1>3. lows \in [Nat -> Int] /\ lows' \in [Nat -> Int]
  <2>1. ASSUME NEW k \in Nat, k < count'
        PROVE  cts'[k].key \in KeySpace
    <3>1. k \in 0 .. count' - 1
      BY <1>1, <1>2, <2>1
    <3> QED BY <1>1, <3>1 DEF TypeOK
  <2>2. lows' \in [Nat -> Int]
    BY <2>1, LowPart DEF lows
  <2> QED BY <1>1, <2>2, LogSums
<1>4. \A k \in 0 .. count - 1 : lows'[k] = lows[k]
  BY <1>1, <1>2 DEF lows
<1>5. \A m \in 0 .. count : sums(lows')[m] = sums(lows)[m]
  <2> TAKE m \in 0 .. count
  <2> DEFINE u == lows'
             v == lows
  <2>1. m \in Nat /\ \A k \in 0 .. m - 1 : u[k] = v[k]
    BY <1>1, <1>4
  <2>2. u \in [Nat -> Int] /\ v \in [Nat -> Int]
    BY <1>3
  <2> HIDE DEF u, v
  <2>3. Agree(u, v, m)
    BY <2>1 DEF Agree
  <2>4. sums(u)[m] = sums(v)[m]
    BY <2>1, <2>2, <2>3, SumsAgree
  <2> QED BY <2>4 DEF u, v
<1>6. LogInv'
  <2> SUFFICES ASSUME NEW k \in 0 .. count' - 1
               PROVE  cts'[k].ct = Split(cts'[k].key)
    BY DEF LogInv
  <2>1. CASE k = count
    <3>1. cts'[k] = [point |-> position, key |-> key, t |-> t,
                     ct |-> [s \in slots |-> chunk(key, s)]]
      BY <1>1, <2>1 DEF encrypt
    <3> QED BY <3>1 DEF Split
  <2>2. CASE k # count
    <3>1. k \in 0 .. count - 1
      BY <1>1, <1>2, <2>2
    <3> QED BY <1>2, <3>1 DEF LogInv
  <2> QED BY <2>1, <2>2
<1> QED BY <1>5, <1>6 DEF low_sum

LEMMA CarryInit == Init => CarryInv
<1> SUFFICES ASSUME Init PROVE CarryInv
  OBVIOUS
<1>1. LogInv
  BY DEF Init, LogInv
<1> QED BY <1>1 DEF Init, CarryInv, ClearInv, FoldedInv, SlotsInv, DigitInv, MaskInv

LEMMA EncryptCarry ==
  ASSUME IInv, CarryInv, NEW position \in 0 .. batch_size - 1, NEW key \in KeySpace,
         NEW t \in CtThresholds, encrypt(position, key, t)
  PROVE  CarryInv'
<1>1. LogInv' /\ \A m \in 0 .. count : low_sum(m)' = low_sum(m)
  BY EncryptLows DEF CarryInv
<1>2. UNCHANGED <<pc, b, fft, selector, shares, j, acc, c, k_agg, offset>>
  BY DEF encrypt, argVars, runVars
<1>3. b \in 0 .. count /\ j \in 0 .. count
  BY SizeAssumption DEF IInv, TypeOK
<1>4. low_sum(b)' = low_sum(b) /\ low_sum(j)' = low_sum(j)
  <2>1. /\ low_sum(b)' = sums(lows')[b'] /\ low_sum(b) = sums(lows)[b]
        /\ low_sum(j)' = sums(lows')[j'] /\ low_sum(j) = sums(lows)[j]
    BY DEF low_sum
  <2>2. \A m \in 0 .. count : sums(lows')[m] = sums(lows)[m]
    BY <1>1 DEF low_sum
  <2> QED BY <1>2, <1>3, <2>1, <2>2
<1> QED BY <1>1, <1>2, <1>4
        DEF CarryInv, ClearInv, FoldedInv, SlotsInv, DigitInv, MaskInv, valid, held

(* The log and the arguments stay, and so does the sum of the batch.        *)
LEMMA BatchKept ==
  ASSUME IInv, Kept
  PROVE  /\ low_sum(b)' = low_sum(b) /\ (j' = j => low_sum(j)' = low_sum(j))
         /\ (LogInv => LogInv')
<1>1. lows' = lows /\ b' = b
  BY DEF Kept, lows
<1> QED BY <1>1, LowsKept DEF low_sum

LEMMA QuietCarry ==
  ASSUME IInv, CarryInv,
         UNCHANGED <<count, cts, pc, b, selector, shares, j, acc, c, k_agg, offset>>
  PROVE  CarryInv'
<1>1. lows' = lows
  BY DEF lows
<1>2. low_sum(b)' = low_sum(b) /\ low_sum(j)' = low_sum(j)
  BY <1>1 DEF low_sum
<1> QED BY <1>2
        DEF CarryInv, LogInv, ClearInv, FoldedInv, SlotsInv, DigitInv, MaskInv, valid, held

LEMMA DecryptCarry ==
  ASSUME IInv, CarryInv, UNCHANGED <<count, cts>>,
         pc' \in {"idle", "safe"}, k_agg' = 0, offset' = 1
  PROVE  CarryInv'
BY DEF CarryInv, LogInv, ClearInv, FoldedInv, SlotsInv, DigitInv, MaskInv

(* A call that panics or ends in done has nothing left to keep.             *)
LEMMA PanicCarry ==
  ASSUME IInv, CarryInv, Kept, pc' \in panics \cup {"done"}
  PROVE  CarryInv'
BY LowsKept
   DEF CarryInv, ClearInv, FoldedInv, SlotsInv, DigitInv, MaskInv, panics

LEMMA SafeCarry == IInv /\ CarryInv /\ assert_homomorphic_batch_safe => CarryInv'
<1> SUFFICES ASSUME IInv, CarryInv, assert_homomorphic_batch_safe PROVE CarryInv'
  OBVIOUS
<1>1. /\ Kept /\ UNCHANGED <<j, acc, c, k_agg, offset>> /\ pc = "safe"
      /\ \/ pc' = "fold"
         \/ pc' = "panic_batch"
  BY DEF assert_homomorphic_batch_safe, logVars, argVars, runVars, Kept
<1>2. CASE pc' = "panic_batch"
  BY <1>1, <1>2, PanicCarry DEF panics
<1>3. CASE pc' = "fold"
  <2>1. j = 0 /\ acc = zero
    BY <1>1 DEF IInv, FreshInv
  <2>2. held(acc, l) = 0
    BY <2>1, HeldZero, ChunkAssumption
  <2>3. low_sum(j) = 0
    BY <2>1, LowSums DEF IInv
  <2>4. low_sum(j)' = low_sum(j) /\ LogInv'
    BY <1>1, BatchKept DEF CarryInv
  <2>5. held(acc, l)' = held(acc, l)
    BY <1>1 DEF held
  <2> QED BY <1>1, <1>3, <2>2, <2>3, <2>4, <2>5
          DEF CarryInv, ClearInv, FoldedInv, SlotsInv, DigitInv, MaskInv
<1> QED BY <1>1, <1>2, <1>3

LEMMA AddCarry == IInv /\ CarryInv /\ add => CarryInv'
<1> SUFFICES ASSUME IInv, CarryInv, add PROVE CarryInv'
  OBVIOUS
<1>1. /\ Kept /\ UNCHANGED <<c, k_agg, offset>> /\ pc = "fold" /\ j \in 0 .. count - 1
  BY SizeAssumption DEF add, logVars, argVars, Kept, IInv, TypeOK
<1>2. CASE cts[j].t # Threshold
  <2>1. pc' = "panic_threshold"
    BY <1>2 DEF add
  <2> QED BY <1>1, <2>1, PanicCarry DEF panics
<1>3. CASE cts[j].t = Threshold
  <2>1. acc' = [s \in slots |-> acc[s] + cts[j].ct[s]] /\ j' = j + 1 /\ pc' = "fold"
    BY <1>1, <1>3 DEF add
  <2> DEFINE key == cts[j].key
             u == acc
             v == Split(key)
             w == acc'
  <2>2. key \in KeySpace /\ cts[j].ct = v
    BY <1>1 DEF IInv, TypeOK, CarryInv, LogInv
  <2>3. u \in [slots -> Int]
    BY DEF IInv, TypeOK
  <2>4. v \in [slots -> Int] /\ held(v, l) = key % Weight[l]
    <3> HIDE DEF key
    <3> QED BY <2>2, HeldSplit, ChunkAssumption
  <2>5. w = [s \in slots |-> u[s] + v[s]]
    BY <2>1, <2>2
  <2>6. low_sum(j + 1) = low_sum(j) + (key % Weight[l]) /\ low_sum(j) = held(u, l)
    BY <1>1, LowSums DEF IInv, CarryInv, FoldedInv
  <2>7. low_sum(j)' = low_sum(j + 1)
    BY <1>1, <2>1 DEF low_sum, lows, Kept
  <2> HIDE DEF key, u, v, w
  <2>8. w \in [slots -> Int] /\ \A s \in slots : w[s] = u[s] + v[s]
    BY <2>3, <2>4, <2>5
  <2>9. held(w, l) = held(u, l) + held(v, l)
    BY <2>3, <2>4, <2>8, HeldAdd
  <2>10. held(acc, l)' = held(w, l)
    BY DEF held, w
  <2>11. LogInv'
    BY <1>1, LowsKept DEF CarryInv
  <2> QED BY <1>1, <2>1, <2>4, <2>6, <2>7, <2>9, <2>10, <2>11
          DEF CarryInv, ClearInv, FoldedInv, SlotsInv, DigitInv, MaskInv
<1> QED BY <1>2, <1>3

LEMMA FoldedCarry == IInv /\ CarryInv /\ folded => CarryInv'
<1> SUFFICES ASSUME IInv, CarryInv, folded PROVE CarryInv'
  OBVIOUS
<1>1. /\ Kept /\ UNCHANGED <<j, acc, c, k_agg, offset>> /\ pc = "fold" /\ pc' = "agg_dec"
      /\ j = b
  BY DEF folded, logVars, argVars, runVars, Kept
<1>2. low_sum(j)' = low_sum(j) /\ LogInv' /\ b' = b
  BY <1>1, BatchKept DEF CarryInv, Kept
<1>3. held(acc, l)' = held(acc, l)
  BY <1>1 DEF held
<1> QED BY <1>1, <1>2, <1>3
        DEF CarryInv, ClearInv, FoldedInv, SlotsInv, DigitInv, MaskInv

LEMMA AggCarry == IInv /\ CarryInv /\ agg_dec => CarryInv'
<1> SUFFICES ASSUME IInv, CarryInv, agg_dec PROVE CarryInv'
  OBVIOUS
<1>1. /\ Kept /\ UNCHANGED <<j, c, k_agg, offset>> /\ pc = "agg_dec"
      /\ \/ pc' \in {"panic_degree", "panic_commit"}
         \/ pc' = "dlog" /\ (valid => acc' = acc)
  BY DEF agg_dec, logVars, argVars, Kept, valid
<1>2. CASE pc' \in {"panic_degree", "panic_commit"}
  BY <1>1, <1>2, PanicCarry DEF panics
<1>3. CASE pc' = "dlog" /\ (valid => acc' = acc)
  <2>1. low_sum(b)' = low_sum(b) /\ LogInv'
    BY <1>1, BatchKept DEF CarryInv
  <2>2. valid' = valid
    BY <1>1 DEF valid, Kept
  <2>3. valid => held(acc, l)' = held(acc, l)
    BY <1>3 DEF held
  <2>4. held(acc, l) = low_sum(b)
    BY <1>1 DEF CarryInv, FoldedInv
  <2> QED BY <1>1, <1>3, <2>1, <2>2, <2>3, <2>4
          DEF CarryInv, ClearInv, FoldedInv, SlotsInv, DigitInv, MaskInv
<1> QED BY <1>1, <1>2, <1>3

LEMMA DlogCarry == IInv /\ CarryInv /\ compute_dlog => CarryInv'
<1> SUFFICES ASSUME IInv, CarryInv, compute_dlog PROVE CarryInv'
  OBVIOUS
<1>1. /\ Kept /\ UNCHANGED <<j, acc, k_agg, offset>> /\ pc = "dlog"
      /\ pc' \in {"dlog", "panic_dlog"}
  BY DEF compute_dlog, logVars, argVars, Kept
<1>2. CASE pc' = "panic_dlog"
  BY <1>1, <1>2, PanicCarry DEF panics
<1>3. CASE pc' = "dlog"
  <2>1. low_sum(b)' = low_sum(b) /\ LogInv' /\ valid' = valid
    BY <1>1, BatchKept DEF CarryInv, valid, Kept
  <2>2. held(acc, l)' = held(acc, l)
    BY <1>1 DEF held
  <2> QED BY <1>1, <1>3, <2>1, <2>2
          DEF CarryInv, ClearInv, FoldedInv, SlotsInv, DigitInv, MaskInv
<1> QED BY <1>1, <1>2, <1>3

LEMMA SolvedCarry == IInv /\ CarryInv /\ solved => CarryInv'
<1> SUFFICES ASSUME IInv, CarryInv, solved PROVE CarryInv'
  OBVIOUS
<1>1. /\ Kept /\ UNCHANGED <<j, acc, k_agg, offset>> /\ pc = "dlog" /\ pc' = "recombine"
      /\ c' = 0
  BY DEF solved, logVars, argVars, Kept
<1>2. low_sum(b)' = low_sum(b) /\ LogInv' /\ valid' = valid
  BY <1>1, BatchKept DEF CarryInv, valid, Kept
<1>3. held(acc, l)' = held(acc, l)
  BY <1>1 DEF held
<1>4. DigitInv'
  <2>1. acc \in [slots -> Int]
    BY DEF IInv, TypeOK
  <2>2. held(acc, 0) = 0
    BY <2>1, SlotZero, HeldStep
  <2>3. held(acc, c)' = 0
    BY <1>1, <2>2 DEF held
  <2>4. k_agg' = 0 /\ offset' = 1 /\ Weight[c'] = 1
    BY <1>1, ChunkAssumption DEF CarryInv, ClearInv
  <2>5. 0 % FieldOrder = 0
    BY SizeAssumption
  <2> QED BY <2>3, <2>4, <2>5 DEF DigitInv
<1> QED BY <1>1, <1>2, <1>3, <1>4
        DEF CarryInv, ClearInv, FoldedInv, SlotsInv, MaskInv

LEMMA RecombineCarry == IInv /\ CarryInv /\ recombine => CarryInv'
<1> SUFFICES ASSUME IInv, CarryInv, recombine PROVE CarryInv'
  OBVIOUS
<1>1. /\ Kept /\ UNCHANGED <<pc, j, acc>> /\ pc = "recombine" /\ c \in slots /\ c' = c + 1
      /\ k_agg' = (k_agg + offset * acc[c]) % FieldOrder
      /\ offset' = (offset * ChunkRadix) % FieldOrder
  BY ChunkAssumption DEF recombine, logVars, argVars, Kept, IInv, TypeOK, slots
<1>2. low_sum(b)' = low_sum(b) /\ LogInv' /\ valid' = valid
  BY <1>1, BatchKept DEF CarryInv, valid, Kept
<1>3. held(acc, l)' = held(acc, l)
  BY <1>1 DEF held
<1> DEFINE F == FieldOrder
           k == k_agg
           v == held(acc, c)
           o == offset
           w == Weight[c]
           a == acc[c]
           R == ChunkRadix
<1>4. F \in Nat \ {0} /\ k \in Int /\ o \in Int /\ w \in Int /\ R \in Int
  <2>1. c \in 0 .. l
    BY DEF IInv, TypeOK
  <2> QED BY <2>1, SizeAssumption, ChunkAssumption, WeightType DEF IInv, TypeOK
<1>5. a \in Int /\ v \in Int /\ held(acc, c + 1) = v + w * a
  <2>1. acc \in [slots -> Int]
    BY DEF IInv, TypeOK
  <2> QED BY <1>1, <2>1, HeldStep
<1>6. k = v % F /\ o % F = w % F
  BY <1>1 DEF CarryInv, DigitInv
<1>7. Weight[c + 1] = R * w
  BY <1>1, ChunkAssumption DEF slots
<1>8. held(acc, c)' = held(acc, c + 1) /\ k_agg' = (k + o * a) % F /\ offset' = (o * R) % F
  BY <1>1 DEF held
<1> HIDE DEF F, k, v, o, w, a, R
<1>9. k % F = v % F
  BY <1>4, <1>5, <1>6, ModTwice
<1>10. (k + o * a) % F = (v + w * a) % F
  <2>1. /\ F \in Nat \ {0} /\ k \in Int /\ v \in Int /\ o \in Int /\ w \in Int /\ a \in Int
        /\ k % F = v % F /\ o % F = w % F
    BY <1>4, <1>5, <1>6, <1>9
  <2>2. Congruent(F, k, v, o, w, a)
    BY <2>1, ModStep
  <2> QED BY <2>2 DEF Congruent
<1>11. (o * R) % F = (w * R) % F
  <2>1. /\ F \in Nat \ {0} /\ k \in Int /\ v \in Int /\ o \in Int /\ w \in Int /\ R \in Int
        /\ k % F = v % F /\ o % F = w % F
    BY <1>4, <1>5, <1>6, <1>9
  <2>2. Congruent(F, k, v, o, w, R)
    BY <2>1, ModStep
  <2> QED BY <2>2 DEF Congruent
<1>12. ((o * R) % F) % F = (o * R) % F
  <2> DEFINE x == o * R
  <2>1. x \in Int
    BY <1>4
  <2> HIDE DEF x
  <2>2. (x % F) % F = x % F
    BY <1>4, <2>1, ModTwice
  <2> QED BY <2>2 DEF x
<1>13. R * w = w * R
  BY <1>4
<1>14. k_agg' = held(acc, c)' % F
  BY <1>5, <1>8, <1>10
<1>15. offset' % F = Weight[c'] % F
  BY <1>1, <1>7, <1>8, <1>11, <1>12, <1>13
<1>16. DigitInv'
  BY <1>14, <1>15 DEF DigitInv, F
<1> QED BY <1>1, <1>2, <1>3, <1>16
        DEF CarryInv, ClearInv, FoldedInv, SlotsInv, MaskInv

LEMMA RecombinedCarry == IInv /\ CarryInv /\ recombined => CarryInv'
<1> SUFFICES ASSUME IInv, CarryInv, recombined PROVE CarryInv'
  OBVIOUS
<1>1. /\ Kept /\ UNCHANGED <<j, acc, c, k_agg, offset>> /\ pc = "recombine" /\ pc' = "masks"
      /\ c = l
  BY DEF recombined, logVars, argVars, runVars, Kept
<1>2. low_sum(b)' = low_sum(b) /\ LogInv'
  BY <1>1, BatchKept DEF CarryInv
<1>3. valid
  BY <1>1 DEF IInv, ValidInv
<1>4. k_agg = low_sum(b) % FieldOrder
  BY <1>1, <1>3 DEF CarryInv, SlotsInv, DigitInv
<1>5. MaskInv'
  BY <1>1, <1>2, <1>4 DEF MaskInv
<1> QED BY <1>1, <1>2, <1>5
        DEF CarryInv, ClearInv, FoldedInv, SlotsInv, DigitInv

LEMMA MasksCarry == IInv /\ CarryInv /\ masks => CarryInv'
<1> SUFFICES ASSUME IInv, CarryInv, masks PROVE CarryInv'
  OBVIOUS
<1>1. Kept /\ pc' \in panics \cup {"done"}
  BY DEF masks, logVars, argVars, Kept, panics
<1> QED BY <1>1, PanicCarry

LEMMA CarryInvariance == Spec => [](IInv /\ CarryInv)
<1>1. IInv /\ CarryInv /\ [Next]_vars => CarryInv'
  <2> SUFFICES ASSUME IInv, CarryInv, [Next]_vars PROVE CarryInv'
    OBVIOUS
  <2>1. CASE UNCHANGED vars
    BY <2>1, QuietCarry DEF vars, logVars, argVars, runVars
  <2>2. CASE \E position \in 0 .. batch_size - 1, key \in KeySpace, t \in CtThresholds :
               encrypt(position, key, t)
    BY <2>2, EncryptCarry
  <2>3. ASSUME NEW p \in Party, batch_partial_decryption(p)
        PROVE  CarryInv'
    BY <2>3, QuietCarry DEF batch_partial_decryption, argVars, runVars
  <2>4. ASSUME NEW m \in 0 .. count, NEW with_fft \in BOOLEAN, NEW S \in SUBSET Party,
               NEW pd \in [S -> 0 .. MaxCts], decrypt(m, with_fft, S, pd)
        PROVE  CarryInv'
    <3>1. UNCHANGED <<count, cts, k_agg, offset>> /\ pc = "idle" /\ pc' = "safe"
      BY <2>4 DEF decrypt, logVars, runVars
    <3>2. k_agg' = 0 /\ offset' = 1
      BY <3>1 DEF CarryInv, ClearInv
    <3> QED BY <3>1, <3>2, DecryptCarry
  <2>5. CASE end_call
    <3>1. UNCHANGED <<count, cts>> /\ pc' = "idle" /\ k_agg' = 0 /\ offset' = 1
      BY <2>5 DEF end_call, logVars
    <3> QED BY <3>1, DecryptCarry
  <2>6. CASE decrypt_step
    BY <2>6, SafeCarry, AddCarry, FoldedCarry, AggCarry, DlogCarry, SolvedCarry,
       RecombineCarry, RecombinedCarry, MasksCarry DEF decrypt_step
  <2> QED BY <2>1, <2>2, <2>3, <2>4, <2>5, <2>6 DEF Next
<1> QED BY CarryInit, BatchInvariance, <1>1, PTL DEF Spec

(* What a valid call recombines from the slots is, in the field, the sum of *)
(* what the first l chunks carry of the batch's keys: for every chunk       *)
(* width, every field order and every log, however far the slots carry into *)
(* one another (encryption.rs:37-45, decryption.rs:46-52).                  *)
THEOREM KeyIsRecovered == Spec => []KeyRecovered
<1>1. IInv /\ CarryInv => KeyRecovered
  <2> SUFFICES ASSUME IInv, CarryInv, pc = "masks"
               PROVE  k_agg = carried_sum(b) % FieldOrder
    BY DEF KeyRecovered
  <2>1. carried_sum(b) = low_sum(b)
    BY CarriedIs DEF IInv, TypeOK, low_sum
  <2> QED BY <2>1 DEF CarryInv, MaskInv
<1> QED BY CarryInvariance, <1>1, PTL

(* Keys that l chunks can carry are their own low parts.                    *)
LEMMA WholeKeys ==
  ASSUME TypeOK, \A k \in 0 .. b - 1 : cts[k].key < Weight[l]
  PROVE  key_sum(b) = low_sum(b)
<1> DEFINE u == lows
           v == fulls
<1>1. b \in 0 .. count /\ b \in Nat /\ count \in Nat
  BY SizeAssumption DEF TypeOK
<1>2. u \in [Nat -> Int] /\ v \in [Nat -> Int]
  BY LogSums
<1>3. \A k \in 0 .. b - 1 : u[k] = v[k]
  <2> TAKE k \in 0 .. b - 1
  <2>1. k \in 0 .. count - 1
    BY <1>1
  <2>2. lows[k] = cts[k].key % Weight[l] /\ fulls[k] = cts[k].key
    BY <2>1, LogSums
  <2> DEFINE key == cts[k].key
             w == Weight[l]
  <2>3. key \in Nat /\ key < w /\ w \in Nat \ {0}
    <3>1. key \in KeySpace
      BY <2>1 DEF TypeOK
    <3> QED BY <3>1, LowPart, WeightType, ChunkAssumption
  <2> HIDE DEF key, w
  <2>4. key = w * 0 + key /\ key \in 0 .. w - 1
    BY <2>3
  <2>5. key % w = key
    BY <2>3, <2>4, DivModUnique
  <2> QED BY <2>2, <2>5 DEF key, w
<1>4. sums(u)[b] = sums(v)[b]
  <2> HIDE DEF u, v
  <2>1. Agree(u, v, b)
    BY <1>3 DEF Agree
  <2> QED BY <1>1, <1>2, <2>1, SumsAgree
<1> QED BY <1>1, <1>4, FullIs DEF low_sum

(* Whatever is kept of the log and the call keeps the call honest.          *)
LEMMA HonestKept == Kept /\ honest_call' => honest_call
  BY DEF Kept, honest_call, in_order

LEMMA EncryptHonest ==
  ASSUME IInv, NEW position \in 0 .. batch_size - 1, NEW key \in KeySpace,
         NEW t \in CtThresholds, encrypt(position, key, t), honest_call'
  PROVE  honest_call
<1>1. count \in Nat /\ b \in 0 .. count
  BY SizeAssumption DEF IInv, TypeOK
<1>2. UNCHANGED <<b, fft, selector, shares>>
  BY DEF encrypt, argVars
<1>3. \A k \in 0 .. b - 1 : cts'[k] = cts[k]
  BY <1>1 DEF encrypt
<1>4. \A k \in 0 .. b - 1 : /\ cts[k].t = Threshold /\ cts[k].key < Weight[l]
                            /\ cts[k].point = k
  BY <1>2, <1>3 DEF honest_call, in_order
<1> QED BY <1>2, <1>4 DEF honest_call, in_order

(* The steps of a call, one panic after another.                            *)
LEMMA SafeHonest ==
  ASSUME assert_homomorphic_batch_safe, honest_call PROVE pc' \notin panics
BY DEF assert_homomorphic_batch_safe, honest_call, panics

LEMMA AddHonest ==
  ASSUME TypeOK, add, honest_call PROVE pc' \notin panics
<1>1. j \in 0 .. b - 1 /\ pc = "fold"
  BY SizeAssumption DEF TypeOK, add
<1>2. cts[j].t = Threshold
  BY <1>1 DEF honest_call
<1> QED BY <1>1, <1>2 DEF add, panics

LEMMA AggHonest ==
  ASSUME TypeOK, agg_dec, honest_call PROVE pc' \notin panics
<1>1. bhat_degree = crs_n /\ crs_n \in Nat
  BY SelectorFinite, CommitteeAssumption DEF honest_call, bhat_degree
<1>2. pc' = "dlog"
  BY <1>1 DEF agg_dec
<1> QED BY <1>2 DEF panics

LEMMA DlogHonest ==
  ASSUME IInv, max_dlog_exponent < MarkersRange, compute_dlog, honest_call
  PROVE  pc' \notin panics
<1>1. pc = "dlog" /\ c \in slots /\ valid
  BY ChunkAssumption DEF compute_dlog, IInv, TypeOK, slots, honest_call, valid
<1>2. acc[c] \in 0 .. max_dlog_exponent
  BY <1>1 DEF IInv, AggInv
<1>3. acc[c] \in 0 .. MarkersRange - 1
  BY <1>2, SizeAssumption
<1>4. pc' = "dlog"
  BY <1>1, <1>3 DEF compute_dlog
<1> QED BY <1>4 DEF panics

LEMMA MasksHonest ==
  ASSUME IInv, CarryInv, masks, honest_call PROVE pc' \notin panics
<1>1. pc = "masks" /\ in_order(b) /\ (fft => b = batch_size)
  BY DEF masks, honest_call
<1>2. k_agg = low_sum(b) % FieldOrder
  BY <1>1 DEF CarryInv, MaskInv
<1>3. key_sum(b) = low_sum(b)
  BY WholeKeys DEF IInv, honest_call
<1>4. pc' = "done"
  BY <1>1, <1>2, <1>3 DEF masks
<1> QED BY <1>4 DEF panics

(* A call that was given what it may ask for never panics, in the default   *)
(* configuration of the markers: none of the seven panics of                *)
(* decryption.rs:10-73 and 77-134 is reached, for every committee, every    *)
(* log and every way the shares were made.                                  *)
THEOREM HonestCallNeverPanics ==
  ASSUME max_dlog_exponent < MarkersRange
  PROVE  Spec => []HonestCallDecrypts
<1>1. Init => HonestCallDecrypts
  BY DEF Init, HonestCallDecrypts, panics
<1>2. IInv /\ CarryInv /\ HonestCallDecrypts /\ [Next]_vars => HonestCallDecrypts'
  <2> SUFFICES ASSUME IInv, CarryInv, HonestCallDecrypts, [Next]_vars, honest_call'
               PROVE  pc' \notin panics
    BY DEF HonestCallDecrypts, panics
  <2>1. CASE UNCHANGED vars
    <3>1. Kept /\ pc' = pc
      BY <2>1 DEF vars, logVars, argVars, Kept
    <3> QED BY <3>1, HonestKept DEF HonestCallDecrypts
  <2>2. ASSUME NEW position \in 0 .. batch_size - 1, NEW key \in KeySpace,
               NEW t \in CtThresholds, encrypt(position, key, t)
        PROVE  pc' \notin panics
    <3>1. honest_call
      BY <2>2, EncryptHonest
    <3> QED BY <2>2, <3>1 DEF HonestCallDecrypts, encrypt
  <2>3. ASSUME NEW p \in Party, batch_partial_decryption(p)
        PROVE  pc' \notin panics
    <3>1. honest_call
      BY <2>3 DEF batch_partial_decryption, argVars, honest_call, in_order
    <3> QED BY <2>3, <3>1 DEF HonestCallDecrypts, batch_partial_decryption
  <2>4. CASE \E m \in 0 .. count, with_fft \in BOOLEAN, S \in SUBSET Party :
               \E pd \in [S -> 0 .. MaxCts] : decrypt(m, with_fft, S, pd)
    <3>1. pc' = "safe"
      BY <2>4 DEF decrypt
    <3> QED BY <3>1 DEF panics
  <2>5. CASE end_call
    <3>1. pc' = "idle"
      BY <2>5 DEF end_call
    <3> QED BY <3>1 DEF panics
  <2>6. CASE decrypt_step
    <3>1. honest_call
      <4>1. Kept
        BY <2>6 DEF decrypt_step, assert_homomorphic_batch_safe, add, folded, agg_dec,
                    compute_dlog, solved, recombine, recombined, masks, logVars, argVars, Kept
      <4> QED BY <4>1, HonestKept
    <3>2. TypeOK
      BY DEF IInv
    <3>3. CASE folded \/ solved \/ recombine \/ recombined
      BY <3>3 DEF folded, solved, recombine, recombined, panics
    <3> QED BY <2>6, <3>1, <3>2, <3>3, SafeHonest, AddHonest, AggHonest, DlogHonest, MasksHonest
            DEF decrypt_step
  <2> QED BY <2>1, <2>2, <2>3, <2>4, <2>5, <2>6 DEF Next
<1> QED BY CarryInvariance, <1>1, <1>2, PTL DEF Spec
=============================================================================
