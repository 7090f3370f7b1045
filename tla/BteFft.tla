------------------------------- MODULE BteFft --------------------------------
(***************************************************************************)
(* decrypt_fft of src/src/bte/decryption.rs and fft_batch_eval of          *)
(* bte/mod.rs: the same batch, fold and comparison as in Bte, but all      *)
(* masks at once, from a circular cross-correlation of the punctured keys  *)
(* with the vector fft_h that CRS::new precomputes (bte/crs.rs:79-100).    *)
(*                                                                         *)
(* The evaluation domain of arkworks is that of Radix2Domain.              *)
(***************************************************************************)
EXTENDS Bte

CONSTANTS
  fft_size,   \* (2 * batch_size).next_power_of_two()
  omega,      \* the domain's generator, of order fft_size
  SizeInv     \* 1 / fft_size in the field

Domain == INSTANCE Radix2Domain WITH size <- fft_size, group_gen <- omega, size_inv <- SizeInv

ASSUME DomainAssumption ==
  /\ IsField
  /\ fft_size \in 2 * batch_size .. 4 * batch_size - 1
  /\ omega \in Scalar /\ SizeInv \in Scalar
  /\ Domain!IsDomain

Slots == 0 .. fft_size - 1

(* Mutants: the negative lags with the wrong sign, and left out.            *)
b_vec_mirrored ==
  [k \in Slots |->
     IF k < batch_size THEN powers_of_h[batch_size + 1 + k]
     ELSE IF fft_size - k < batch_size THEN powers_of_h[batch_size + 1 + (fft_size - k)]
     ELSE Zero]

b_vec_positive ==
  [k \in Slots |-> IF k < batch_size THEN powers_of_h[batch_size + 1 + k] ELSE Zero]

(* The positive lags from the front, the negative ones from the back.       *)
b_vec ==
  [k \in Slots |->
     IF k < batch_size THEN powers_of_h[batch_size + 1 + k]
     ELSE IF fft_size - k < batch_size THEN powers_of_h[batch_size + 1 - (fft_size - k)]
     ELSE Zero]

fft_h == Domain!fft(b_vec)

(* The keys in the order of the batch; the points are not read.             *)
a_vec == [k \in Slots |-> IF k < n THEN ct[k].pprf ELSE Zero]

c_vec ==
  LET a_hat == Domain!fft(a_vec)
      b_hat == fft_h
  IN  Domain!ifft([k \in Slots |-> Pairing(a_hat[k], b_hat[k])])

FftLengthPanic ==
  /\ pc = "fold"
  /\ j = n
  /\ n # batch_size
  /\ pc' = "panic_len"
  /\ UNCHANGED <<n, ct, acc, i, j, mask1, recovered>>

FftBatchEval ==
  /\ pc = "fold"
  /\ j = n
  /\ n = batch_size
  /\ recovered' = LET c == c_vec
                  IN  [k \in 0 .. batch_size - 1 |-> Sub(eval(acc[n], k), c[k])]
  /\ pc' = "compare"
  /\ UNCHANGED <<n, ct, acc, i, j, mask1>>

FftCompare ==
  /\ pc = "compare"
  /\ i < n
  /\ IF recovered[i] = ct[i].mask THEN i' = i + 1 /\ UNCHANGED pc
                                  ELSE pc' = "panic_mask" /\ UNCHANGED i
  /\ UNCHANGED <<n, ct, acc, j, mask1, recovered>>

FftReturn ==
  /\ pc = "compare"
  /\ i = n
  /\ pc' = "done"
  /\ UNCHANGED <<n, ct, acc, i, j, mask1, recovered>>

(* Up to the end of the fold the two functions are the same.                *)
FftNext ==
  \/ Next
  \/ /\ crs_pc = "ready"
     /\ FftLengthPanic \/ FftBatchEval \/ FftCompare \/ FftReturn
     /\ UNCHANGED crsVars

FftSpec == Init /\ [][FftNext]_vars

-----------------------------------------------------------------------------

fftPanics == {"panic_len", "panic_mask"}

(* What the loop of Bte computes, and naive_batch_eval pairing by pairing.  *)
naive_batch_eval(input) ==
  Domain!Sum([k \in 0 .. n - 1 |-> Pairing(ct[k].pprf, powers_of_h[lag(ct[k].point, input)])])

(* On a full batch whose k-th key is punctured at k, the circular layout    *)
(* pairs every key with the power its lag needs and nothing wraps around:   *)
(* all masks are those of the loop (mod.rs:123-152, crs.rs:85-95).          *)
FftAgreesInOrder ==
  pc = "compare" /\ InOrder =>
    \A k \in 0 .. batch_size - 1 : recovered[k] = Sub(eval(acc[n], k), naive_batch_eval(k))

(* A full batch in order is decrypted; the only panic left to an ordered    *)
(* batch is the length assertion (mod.rs:118).                              *)
FftFullBatchDecrypts ==
  InOrder /\ pc \in fftPanics => pc = "panic_len" /\ n < batch_size
=============================================================================
