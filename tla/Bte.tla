--------------------------------- MODULE Bte ---------------------------------
(***************************************************************************)
(* Batched encryption and the evaluation loop of its decryption: PRF and   *)
(* PPRF of src/src/bte/mod.rs, encrypt of bte/encryption.rs and the loop   *)
(* of bte/decryption.rs, on top of the reference string of BteCrs.         *)
(*                                                                         *)
(* Clients encrypt, each under a key of its own punctured at a position    *)
(* of its choice, in any order.  The decryptor takes the ciphertexts that  *)
(* are there as its batch, adds up their keys, and for every index of the  *)
(* batch subtracts the sum of the punctured evaluations from the           *)
(* evaluation of the aggregated key.  How the sum of the keys is recovered *)
(* from the threshold ciphertexts is the subject of BatchDecryption; here  *)
(* it is the sum itself, so the field key is in the ciphertext.            *)
(***************************************************************************)
EXTENDS BteCrs

CONSTANTS
  MaxCts,     \* bounds the size of a batch
  KeySpace    \* the keys PRF::new may draw: Scalar in the code, a part of it in TLC's runs

ASSUME BatchAssumption == MaxCts \in Nat /\ KeySpace \subseteq Scalar

VARIABLES
  pc,        \* "collect", "fold", "eval", and how decrypt ended: "done", "panic_*"
  n,         \* ct.len()
  ct,        \* the ciphertexts, a function on 0..n-1
  acc,       \* the accumulators of the fold, 0..j of them; the last one is k_agg
  i,         \* the index of the batch under evaluation
  j,         \* the ciphertext folded or paired next
  mask1,     \* batch_eval so far
  recovered  \* recovered_masks, a function on the indices done

bteVars == <<pc, n, ct, acc, i, j, mask1, recovered>>

panics == {"panic_index", "panic_eval", "panic_mask"}

BteInit ==
  /\ pc = "collect"
  /\ n = 0
  /\ ct = [k \in {} |-> Zero]
  /\ acc = [k \in {0} |-> Zero]
  /\ i = 0
  /\ j = 0
  /\ mask1 = Zero
  /\ recovered = [k \in {} |-> Zero]

puncture(key, point) == Mul(powers_of_g[point], key)

eval(key, input) == Mul(gt_powers[input], key)

(* Mutant: the lag counted from batch_size.                                 *)
lag_short(point, input) == batch_size + input - point

(* The lag of a pairing, the index into powers_of_h.  It never falls below  *)
(* zero: a point is smaller than batch_size.                                *)
lag(point, input) == batch_size + 1 + input - point

(* The pairing PPRF::eval returns for the k-th key, unless it panics.       *)
PPRF_eval(k, input) == Pairing(ct[k].pprf, powers_of_h[lag(ct[k].point, input)])

(* Mutant: the point itself is not refused.                                 *)
PPRF_eval_panics_unguarded(k, input) ==
  input = batch_size + 1 \/ lag(ct[k].point, input) > 2 * batch_size

(* The input it refuses besides the point is the index of the missing power,*)
(* which is no input of its own; a lag may also run past the array.         *)
PPRF_eval_panics(k, input) ==
  input \in {batch_size + 1, ct[k].point} \/ lag(ct[k].point, input) > 2 * batch_size

(* A client samples a key and punctures it; puncture panics, and nothing is *)
(* sent, unless position < batch_size.                                      *)
Encrypt(position, key) ==
  /\ pc = "collect"
  /\ n < MaxCts
  /\ position < batch_size
  /\ ct' = [k \in 0 .. n |->
              IF k = n
                THEN [point |-> position, pprf |-> puncture(key, position),
                      key |-> key, mask |-> eval(key, position)]
                ELSE ct[k]]
  /\ n' = n + 1
  /\ UNCHANGED <<pc, acc, i, j, mask1, recovered>>

Decrypt ==
  /\ pc = "collect"
  /\ pc' = "fold"
  /\ UNCHANGED <<n, ct, acc, i, j, mask1, recovered>>

FoldKey ==
  /\ pc = "fold"
  /\ j < n
  /\ acc' = [k \in 0 .. j + 1 |-> IF k = j + 1 THEN Add(acc[j], ct[j].key) ELSE acc[k]]
  /\ j' = j + 1
  /\ UNCHANGED <<pc, n, ct, i, mask1, recovered>>

(* Mutant: the counter of the fold goes on being used.                      *)
Folded_keeps_counter ==
  /\ pc = "fold"
  /\ j = n
  /\ pc' = "eval"
  /\ j' = j + 1
  /\ UNCHANGED <<n, ct, acc, i, mask1, recovered>>

Folded ==
  /\ pc = "fold"
  /\ j = n
  /\ pc' = "eval"
  /\ j' = 0
  /\ UNCHANGED <<n, ct, acc, i, mask1, recovered>>

(* One pairing of batch_eval(&pprfs, i): every key, the one punctured at i  *)
(* included, in the order of the batch.                                     *)
PairNext ==
  /\ pc = "eval"
  /\ i < n /\ j < n
  /\ lag(ct[j].point, i) <= 2 * batch_size
  /\ mask1' = Add(mask1, Pairing(ct[j].pprf, powers_of_h[lag(ct[j].point, i)]))
  /\ j' = j + 1
  /\ UNCHANGED <<pc, n, ct, acc, i, recovered>>

(* Mutant: an array that ends one power earlier.                            *)
IndexPanic_early ==
  /\ pc = "eval"
  /\ i < n /\ j < n
  /\ lag(ct[j].point, i) >= 2 * batch_size
  /\ pc' = "panic_index"
  /\ UNCHANGED <<n, ct, acc, i, j, mask1, recovered>>

(* powers_of_h is indexed past its end.                                     *)
IndexPanic ==
  /\ pc = "eval"
  /\ i < n /\ j < n
  /\ lag(ct[j].point, i) > 2 * batch_size
  /\ pc' = "panic_index"
  /\ UNCHANGED <<n, ct, acc, i, j, mask1, recovered>>

(* PRF::eval asserts input < batch_size, after batch_eval of the same index.*)
EvalPanic ==
  /\ pc = "eval"
  /\ i < n /\ j = n
  /\ i >= batch_size
  /\ pc' = "panic_eval"
  /\ UNCHANGED <<n, ct, acc, i, j, mask1, recovered>>

(* mask2 - mask1 *)
unmasked == Sub(eval(acc[n], i), mask1)

(* Mutant: batch_eval goes on from the value of the previous index.         *)
Recover_keeps_mask1 ==
  /\ pc = "eval"
  /\ i < n /\ j = n
  /\ i < batch_size
  /\ recovered' = [k \in 0 .. i |-> IF k = i THEN unmasked ELSE recovered[k]]
  /\ IF unmasked = ct[i].mask
       THEN i' = i + 1 /\ j' = 0 /\ UNCHANGED <<pc, mask1>>
       ELSE pc' = "panic_mask" /\ UNCHANGED <<i, j, mask1>>
  /\ UNCHANGED <<n, ct, acc>>

Recover ==
  /\ pc = "eval"
  /\ i < n /\ j = n
  /\ i < batch_size
  /\ recovered' = [k \in 0 .. i |-> IF k = i THEN unmasked ELSE recovered[k]]
  /\ IF unmasked = ct[i].mask
       THEN i' = i + 1 /\ j' = 0 /\ mask1' = Zero /\ UNCHANGED pc
       ELSE pc' = "panic_mask" /\ UNCHANGED <<i, j, mask1>>
  /\ UNCHANGED <<n, ct, acc>>

Return ==
  /\ pc = "eval"
  /\ i = n
  /\ pc' = "done"
  /\ UNCHANGED <<n, ct, acc, i, j, mask1, recovered>>

BteNext ==
  \/ \E position \in 0 .. batch_size, key \in KeySpace : Encrypt(position, key)
  \/ Decrypt
  \/ FoldKey \/ Folded
  \/ PairNext \/ IndexPanic \/ EvalPanic \/ Recover \/ Return

(* Nobody encrypts before the reference string is there.                    *)
Init == CrsInit /\ BteInit

Next ==
  \/ CrsNext /\ UNCHANGED bteVars
  \/ crs_pc = "ready" /\ BteNext /\ UNCHANGED crsVars

vars == <<crsVars, bteVars>>

Spec == Init /\ [][Next]_vars

-----------------------------------------------------------------------------

Ciphertext == [point : 0 .. batch_size - 1, pprf : Scalar, key : Scalar, mask : Scalar]

TypeOK ==
  /\ CrsTypeOK
  /\ pc \in {"collect", "fold", "eval", "compare", "done", "panic_len"} \cup panics
  /\ n \in Nat
  /\ ct \in [0 .. n - 1 -> Ciphertext]
  /\ i \in 0 .. n
  /\ j \in 0 .. n
  /\ DOMAIN acc = 0 .. (IF pc \in {"collect", "fold"} THEN j ELSE n)
  /\ \A k \in DOMAIN acc : acc[k] \in Scalar
  /\ mask1 \in Scalar

DistinctPoints == \A k, m \in 0 .. n - 1 : ct[k].point = ct[m].point => k = m

InOrder == \A k \in 0 .. n - 1 : ct[k].point = k

(* A punctured key answers like its key, or PPRF::eval panics, and that     *)
(* only on its point (mod.rs:51-65).  batch_eval and naive_batch_eval pair  *)
(* the same elements without that guard (mod.rs:67-95), and there the key   *)
(* adds nothing at its own point, where the missing power is due.           *)
PuncturedKeyEvaluates ==
  crs_pc = "ready" =>
    \A k \in 0 .. n - 1 :
      /\ \A input \in 0 .. batch_size - 1 :
           IF PPRF_eval_panics(k, input) THEN input = ct[k].point
           ELSE PPRF_eval(k, input) = eval(ct[k].key, input)
      /\ PPRF_eval(k, ct[k].point) = Zero

(* In a batch without two ciphertexts at one position, what subtracting the *)
(* punctured evaluations leaves of the aggregated key is the mask of the    *)
(* one ciphertext at that position, whatever its place in the batch, and    *)
(* nothing at a position no ciphertext has (decryption.rs:61-65): the other *)
(* keys cancel and the punctured one does not.                              *)
OnlyPuncturedKeySurvives ==
  pc = "eval" /\ i < n /\ j = n /\ i < batch_size /\ DistinctPoints =>
    /\ \A k \in 0 .. n - 1 : ct[k].point = i => unmasked = ct[k].mask
    /\ (\A k \in 0 .. n - 1 : ct[k].point # i) => unmasked = Zero

(* decrypt takes an index of the batch for a position.  On a batch whose    *)
(* k-th ciphertext is punctured at k, partial or full, it never panics      *)
(* (decryption.rs:61-71 with mod.rs:29 and 76).                             *)
InOrderNeverPanics == InOrder => pc \notin panics

(* The array bounds and the assertion of PRF::eval are met only by more     *)
(* ciphertexts than positions, and such a batch is never accepted           *)
(* (mod.rs:29, 76).                                                         *)
OversizedBatchFails ==
  /\ pc \in {"panic_index", "panic_eval"} => n > batch_size
  /\ pc = "done" => n <= batch_size
=============================================================================
