--------------------------- MODULE BatchDecryption ---------------------------
(***************************************************************************)
(* The batched threshold scheme end to end: clients call bte::encrypt,     *)
(* parties call batch_partial_decryption, and a decryptor calls decrypt or *)
(* decrypt_fft (src/src/bte/decryption.rs) with the partial decryptions    *)
(* that reached it.  Machines run concurrently and messages are delayed,   *)
(* lost, repeated and reordered; each call of decrypt works on the         *)
(* arguments it was given.                                                 *)
(*                                                                         *)
(* The ciphertexts lie in one log and a batch is a prefix of it.  What     *)
(* SilentThreshold shows of the threshold encryption is taken from there:  *)
(* answers of enough parties for a sum open it, too few selected parties   *)
(* panic, and a wrong answer spoils the sum.  The nonces of different      *)
(* prefixes have different sums, so an answer is right for one prefix, and *)
(* a spoilt element has a discrete logarithm no table contains.            *)
(***************************************************************************)
EXTENDS Integers, FiniteSets

CONSTANTS
  Party,            \* the committee; crs.n is its size
  Threshold,        \* the t of decrypt
  CtThresholds,     \* the t's clients encrypt with
  batch_size,
  MaxCts,           \* bounds the log
  KeySpace,         \* the PRF keys clients draw
  FieldOrder,       \* r
  ChunkRadix,       \* 2^CHUNK_BITS
  NumChunks,        \* NUM_CHUNKS
  Weight,           \* Weight[c] = ChunkRadix^c
  l,                \* ste_crs.l
  max_dlog_exponent,\* 2^DLOG_RANGE_BITS - 1
  MarkersRange,     \* 2^log_max_input of the markers that decrypt is handed
  Word,             \* 2^64, the width of usize
  DebugAssertions   \* whether debug_assert! is compiled in

crs_n == Cardinality(Party)

(* For t = 0 agg_dec accepts an empty selection and opens nothing with it.  *)
ASSUME CommitteeAssumption ==
  IsFiniteSet(Party) /\ Threshold \in Nat \ {0} /\ CtThresholds \subseteq Nat

ASSUME SizeAssumption ==
  /\ batch_size \in Nat \ {0} /\ MaxCts \in Nat
  /\ FieldOrder \in Nat \ {0} /\ KeySpace \subseteq 0 .. FieldOrder - 1
  /\ max_dlog_exponent \in Nat /\ MarkersRange \in Nat
  /\ Word \in Nat \ {0}
  /\ DebugAssertions \in BOOLEAN

(* encrypt indexes NumChunks messages with 0..l: more slots would panic.    *)
ASSUME ChunkAssumption ==
  /\ ChunkRadix \in Nat \ {0}
  /\ NumChunks \in Nat /\ l \in 1 .. NumChunks
  /\ Weight \in [0 .. NumChunks -> Nat \ {0}]
  /\ Weight[0] = 1
  /\ \A k \in 0 .. NumChunks - 1 : Weight[k + 1] = ChunkRadix * Weight[k]

max_chunk_value == ChunkRadix - 1

(* Mutants: one ciphertext more than the range holds, and the range not   *)
(* divided among the chunks.                                                *)
max_homomorphic_batch_size_plus_one ==
  IF max_chunk_value = 0 THEN Word - 1 ELSE (max_dlog_exponent \div max_chunk_value + 1) % Word

max_homomorphic_batch_size_unwrapped ==
  IF max_chunk_value = 0 THEN Word - 1 ELSE max_dlog_exponent

(* max_homomorphic_batch_size, with its conversion to usize.                *)
max_homomorphic_batch_size ==
  IF max_chunk_value = 0 THEN Word - 1 ELSE (max_dlog_exponent \div max_chunk_value) % Word

(* Mutant: the bits above the chunk are not cleared.                        *)
chunk_unmasked(key, c) == key \div Weight[c]

(* The c-th of the chunks that the loop of encrypt splits off a key.        *)
chunk(key, c) == (key \div Weight[c]) % ChunkRadix

VARIABLES
  count,     \* ciphertexts in the log
  cts,       \* the log, a function on 0..count-1
  sent,      \* <<p, m>>: party p has made a partial decryption of the prefix of length m
  pc,        \* where decrypt is: "idle", "safe", "fold", ..., "done" or "panic_*"
  b,         \* ct.len(): the batch is the prefix of length b
  fft,       \* decrypt_fft rather than decrypt
  selector,  \* the parties selected
  shares,    \* shares[p]: the prefix that partial_decryptions[p] is for; 0 is PartialDecryption::zero()
  j,         \* the ciphertext added next
  acc,       \* the slots of the homomorphic sum, and then of what agg_dec returned
  c,         \* the slot whose logarithm is taken, or that is recombined, next
  k_agg,
  offset,
  released   \* the batches decrypted so far, by their length

logVars == <<count, cts, sent>>
argVars == <<b, fft, selector, shares>>
runVars == <<j, acc, c, k_agg, offset>>
vars == <<logVars, pc, argVars, runVars, released>>

slots == 0 .. l - 1

panics == {"panic_batch", "panic_threshold", "panic_degree", "panic_commit",
           "panic_dlog", "panic_len", "panic_mask"}

running == {"safe", "fold", "agg_dec", "dlog", "recombine", "masks"}

zero == [s \in slots |-> 0]

(* The exponent of an element that agg_dec did not get right.               *)
unknown == -1

Init ==
  /\ count = 0
  /\ cts = [k \in {} |-> 0]
  /\ sent = {}
  /\ pc = "idle"
  /\ b = 0
  /\ fft = FALSE
  /\ selector = {}
  /\ shares = [p \in {} |-> 0]
  /\ j = 0
  /\ acc = zero
  /\ c = 0
  /\ k_agg = 0
  /\ offset = 1
  /\ released = {}

(* A client: a fresh key, its chunks encrypted to the committee under t.    *)
(* Of NumChunks chunks, the l slots of the threshold ciphertext take l.     *)
encrypt(position, key, t) ==
  /\ count < MaxCts
  /\ cts' = [k \in 0 .. count |->
               IF k = count
                 THEN [point |-> position, key |-> key, t |-> t,
                       ct |-> [s \in slots |-> chunk(key, s)]]
                 ELSE cts[k]]
  /\ count' = count + 1
  /\ UNCHANGED <<sent, pc, argVars, runVars, released>>

(* A party answers for the ciphertexts it has received so far.              *)
batch_partial_decryption(p) ==
  /\ sent' = sent \cup {<<p, count>>}
  /\ UNCHANGED <<count, cts, pc, argVars, runVars, released>>

(* The decryptor starts a call, the first one or a retry.  The partial      *)
(* decryptions of parties that are not selected are never read.             *)
decrypt(m, with_fft, S, pd) ==
  /\ pc = "idle"
  /\ \A p \in S : pd[p] = 0 \/ <<p, pd[p]>> \in sent
  /\ pc' = "safe"
  /\ b' = m
  /\ fft' = with_fft
  /\ selector' = S
  /\ shares' = pd
  /\ UNCHANGED <<logVars, runVars, released>>

assert_homomorphic_batch_safe ==
  /\ pc = "safe"
  /\ pc' = IF b <= max_homomorphic_batch_size THEN "fold" ELSE "panic_batch"
  /\ UNCHANGED <<logVars, argVars, runVars, released>>

(* Mutant: the thresholds are not compared.                                 *)
add_unchecked ==
  /\ pc = "fold"
  /\ j < b
  /\ acc' = [s \in slots |-> acc[s] + cts[j].ct[s]]
  /\ j' = j + 1
  /\ UNCHANGED <<logVars, pc, argVars, c, k_agg, offset, released>>

(* acc.add(&c.encrypted_key); the accumulator's t is the caller's.          *)
add ==
  /\ pc = "fold"
  /\ j < b
  /\ IF cts[j].t = Threshold
       THEN /\ acc' = [s \in slots |-> acc[s] + cts[j].ct[s]]
            /\ j' = j + 1
            /\ UNCHANGED pc
       ELSE pc' = "panic_threshold" /\ UNCHANGED <<acc, j>>
  /\ UNCHANGED <<logVars, argVars, c, k_agg, offset, released>>

folded ==
  /\ pc = "fold"
  /\ j = b
  /\ pc' = "agg_dec"
  /\ UNCHANGED <<logVars, argVars, runVars, released>>

(* Mutants: x^(t-1) * b, which opens with one party less than t, and        *)
(* x^(t+1) * b.                                                             *)
bhat_degree_less == Threshold + (crs_n - Cardinality(selector)) - 1
bhat_degree_more == Threshold + (crs_n - Cardinality(selector)) + 1

(* The polynomial b vanishes on the parties left out and bhat is x^t * b,   *)
(* of degree t + (n - |S|): debug builds assert that it is n, and commit_g1 *)
(* has powers up to n.                                                      *)
bhat_degree == Threshold + (crs_n - Cardinality(selector))

agg_dec ==
  /\ pc = "agg_dec"
  /\ IF DebugAssertions /\ bhat_degree # crs_n THEN pc' = "panic_degree" /\ UNCHANGED acc
     ELSE IF bhat_degree > crs_n THEN pc' = "panic_commit" /\ UNCHANGED acc
     ELSE /\ pc' = "dlog"
          /\ acc' = IF \A p \in selector : shares[p] = b THEN acc
                                                         ELSE [s \in slots |-> unknown]
  /\ UNCHANGED <<logVars, argVars, j, c, k_agg, offset, released>>

(* markers.compute_dlog(y).expect(..): what Dlog shows of the solver.       *)
compute_dlog ==
  /\ pc = "dlog"
  /\ c < l
  /\ IF acc[c] \in 0 .. MarkersRange - 1 THEN c' = c + 1 /\ UNCHANGED pc
                                         ELSE pc' = "panic_dlog" /\ UNCHANGED c
  /\ UNCHANGED <<logVars, argVars, j, acc, k_agg, offset, released>>

(* Mutant: the counter is not started again.                                *)
solved_keeps_counter ==
  /\ pc = "dlog"
  /\ c = l
  /\ pc' = "recombine"
  /\ UNCHANGED <<logVars, argVars, runVars, released>>

solved ==
  /\ pc = "dlog"
  /\ c = l
  /\ pc' = "recombine"
  /\ c' = 0
  /\ UNCHANGED <<logVars, argVars, j, acc, k_agg, offset, released>>

(* Mutant: the offset of the next slot is not multiplied.                   *)
recombine_same_offset ==
  /\ pc = "recombine"
  /\ c < l
  /\ k_agg' = (k_agg + offset * acc[c]) % FieldOrder
  /\ c' = c + 1
  /\ UNCHANGED <<logVars, pc, argVars, j, acc, offset, released>>

recombine ==
  /\ pc = "recombine"
  /\ c < l
  /\ k_agg' = (k_agg + offset * acc[c]) % FieldOrder
  /\ offset' = (offset * ChunkRadix) % FieldOrder
  /\ c' = c + 1
  /\ UNCHANGED <<logVars, pc, argVars, j, acc, released>>

recombined ==
  /\ pc = "recombine"
  /\ c = l
  /\ pc' = "masks"
  /\ UNCHANGED <<logVars, argVars, runVars, released>>

(* The sum of the keys of the first m ciphertexts.                          *)
key_sum(m) ==
  LET f[k \in 0 .. m] == IF k = 0 THEN 0 ELSE f[k - 1] + cts[k - 1].key
  IN  f[m]

in_order(m) == \A k \in 0 .. m - 1 : cts[k].point = k

(* The evaluation and comparison of the masks, which Bte and BteFft model   *)
(* step by step: they agree when the key is right and the batch in order.   *)
(* Otherwise they agree by coincidence of random keys, which is left out.   *)
masks ==
  /\ pc = "masks"
  /\ \/ fft /\ b # batch_size /\ pc' = "panic_len" /\ UNCHANGED released
     \/ /\ fft => b = batch_size
        /\ IF k_agg = key_sum(b) % FieldOrder /\ in_order(b)
             THEN pc' = "done" /\ released' = released \cup {b}
             ELSE pc' = "panic_mask" /\ UNCHANGED released
  /\ UNCHANGED <<logVars, argVars, runVars>>

(* The call is over, its arguments and locals are dropped, and the caller,  *)
(* which catches the panic or is started again, may call once more.         *)
end_call ==
  /\ pc \notin running \cup {"idle"}
  /\ pc' = "idle"
  /\ b' = 0 /\ fft' = FALSE /\ selector' = {} /\ shares' = [p \in {} |-> 0]
  /\ j' = 0 /\ acc' = zero /\ c' = 0 /\ k_agg' = 0 /\ offset' = 1
  /\ UNCHANGED <<logVars, released>>

decrypt_step ==
  \/ assert_homomorphic_batch_safe \/ add \/ folded \/ agg_dec
  \/ compute_dlog \/ solved \/ recombine \/ recombined \/ masks

Next ==
  \/ \E position \in 0 .. batch_size - 1, key \in KeySpace, t \in CtThresholds :
       encrypt(position, key, t)
  \/ \E p \in Party : batch_partial_decryption(p)
  \/ \E m \in 0 .. count, with_fft \in BOOLEAN, S \in SUBSET Party :
       \E pd \in [S -> 0 .. MaxCts] : decrypt(m, with_fft, S, pd)
  \/ decrypt_step
  \/ end_call

Spec == Init /\ [][Next]_vars

(* A call that was started runs on; nobody has to encrypt, answer or call.  *)
FairSpec == Spec /\ WF_vars(decrypt_step)

-----------------------------------------------------------------------------

TypeOK ==
  /\ count \in 0 .. MaxCts
  /\ DOMAIN cts = 0 .. count - 1
  /\ \A k \in 0 .. count - 1 :
       /\ cts[k].point \in 0 .. batch_size - 1
       /\ cts[k].key \in KeySpace
       /\ cts[k].t \in CtThresholds
       /\ cts[k].ct \in [slots -> 0 .. max_chunk_value]
  /\ sent \subseteq Party \X (0 .. count)
  /\ pc \in {"idle", "done"} \cup running \cup panics
  /\ b \in 0 .. count
  /\ fft \in BOOLEAN
  /\ selector \subseteq Party
  /\ shares \in [selector -> Nat]
  /\ j \in 0 .. b
  /\ acc \in [slots -> Int]
  /\ c \in 0 .. l
  /\ k_agg \in Nat /\ offset \in Nat
  /\ released \subseteq 0 .. count

(* While a batch is summed, every slot stays an exponent the solver's       *)
(* default range contains: the check before the fold is strong enough for   *)
(* whatever keys were encrypted (dlog/mod.rs:41-66, decryption.rs:20-30).   *)
SlotSumsInRange ==
  pc \in {"fold", "agg_dec"} => \A s \in slots : acc[s] \in 0 .. max_dlog_exponent

(* The expect on the solver (decryption.rs:40) fails only for a partial     *)
(* decryption that is not one of this batch: a sum checked by               *)
(* assert_homomorphic_batch_safe can be recovered (dlog/mod.rs:37-39).      *)
CheckedSumIsSolved ==
  pc = "panic_dlog" => \E p \in selector : shares[p] # b

(* One ciphertext under another threshold bars its batch and every longer   *)
(* one for good: no retry, with whatever shares, releases a prefix of the   *)
(* log that contains it (decryption.rs:27-30 with ste/encryption.rs:36).    *)
ReleasedBatchIsUniform ==
  \A m \in released : \A k \in 0 .. m - 1 : cts[k].t = Threshold

(* What the first l chunks tell of the keys of the first m ciphertexts.     *)
carried_sum(m) ==
  LET f[k \in 0 .. m] == IF k = 0 THEN 0 ELSE f[k - 1] + (cts[k - 1].key % Weight[l])
  IN  f[m]

(* What is recombined from the slots is the sum of the batch's keys in the  *)
(* field, or with l below NUM_CHUNKS of their low parts, although each slot *)
(* carries into the next one and the sum wraps around the field's order     *)
(* (encryption.rs:37-45, ste/encryption.rs:104-108, decryption.rs:46-52).   *)
KeyRecovered == pc = "masks" => k_agg = carried_sum(b) % FieldOrder

(* Everything a caller can be asked for: one share of this batch from each  *)
(* of exactly Threshold parties, ciphertexts of this threshold in the order *)
(* of their positions, no more than can be summed, a full batch for the     *)
(* FFT, and keys that l chunks can carry.                                   *)
honest_call ==
  /\ Cardinality(selector) = Threshold
  /\ \A p \in selector : shares[p] = b
  /\ \A k \in 0 .. b - 1 : cts[k].t = Threshold
  /\ \A k \in 0 .. b - 1 : cts[k].key < Weight[l]
  /\ in_order(b)
  /\ b <= max_homomorphic_batch_size
  /\ fft => b = batch_size

(* Such a call never panics, at whatever time its shares were made and      *)
(* whatever else was sent: decryption.rs:10-73 and 77-134.                  *)
HonestCallDecrypts == honest_call => pc \notin panics

(* It also comes to its end, and that is the release of its batch: neither  *)
(* a carry, nor a wrap of the sum, nor a ciphertext logged while it runs    *)
(* keeps it from the masks (decryption.rs:20-73, 88-134).                   *)
HonestCallReleases == (pc = "safe" /\ honest_call) ~> (pc = "done" /\ b \in released)

(* The system as a whole opens a batch only after Threshold parties have    *)
(* answered for exactly that batch.  No mix of shares for shorter or longer *)
(* prefixes, kept from earlier calls or repeated, adds up to a quorum.      *)
Abstract == INSTANCE BatchRelease WITH Batch <- 0 .. MaxCts, approvals <- sent

ReleaseSpec == Abstract!Spec

(* The assertion of agg_dec, ste/decryption.rs:64, for a selector with      *)
(* enough parties: debug_assert_eq!(bhat.degree(), crs.n).                  *)
BhatDegreeIsN ==
  pc = "agg_dec" /\ Cardinality(selector) >= Threshold => bhat_degree = crs_n
=============================================================================
