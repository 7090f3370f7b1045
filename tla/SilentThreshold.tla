--------------------------- MODULE SilentThreshold ---------------------------
(***************************************************************************)
(* One committee of the silent threshold encryption from its set-up to the *)
(* decryption of a homomorphic sum, with the exact algebra of Ste.         *)
(*                                                                         *)
(* Parties publish keys in one of two ways; the keys are aggregated;       *)
(* clients encrypt under one threshold and their ciphertexts are added up; *)
(* a party answers for the sum as it is at that moment, so that its answer *)
(* may be outdated when agg_dec is called, and the answer of a silent      *)
(* party is PartialDecryption::zero().  An answer carries the id of its    *)
(* party, which agg_dec does not read: it may lie at another position.     *)
(***************************************************************************)
EXTENDS Ste

CONSTANTS
  Taus, Generators, Gammas,  \* what CRS::new may draw: tau, the exponents r, gamma
  SecretKeys,                \* what a party may draw
  Thresholds,                \* arguments t of encrypt
  Nonces, Messages,          \* what encrypt may draw, and be given
  MaxCts,                    \* bounds the sum
  Misfiled                   \* bounds the positions at which answers of others come to lie

(* A generator or a gamma of zero has a chance of 2^-255.                   *)
ASSUME SpacesAssumption ==
  /\ Taus \subseteq Scalar /\ Gammas \subseteq Scalar \ {Zero}
  /\ Generators \subseteq [chunks -> Scalar \ {Zero}]
  /\ SecretKeys \subseteq Scalar
  /\ Thresholds \subseteq Nat
  /\ Nonces \subseteq [0 .. 4 -> Scalar] /\ Messages \subseteq [chunks -> Scalar]
  /\ MaxCts \in Nat /\ Misfiled \subseteq positions

VARIABLES
  pc,       \* "crs", "keys", "open", "done" or "panic_*"
  crs,
  sk,       \* the secret keys of positions 0..joined-1
  joined,
  lag_pks,  \* the public keys, at their positions
  agg,      \* agg_sk_li_lj_z
  ek,       \* the encryption key
  count,    \* ciphertexts in the sum
  ct,       \* the sum
  m_sum,    \* the messages in it, added up
  pd,       \* partial_decryptions
  selector,
  result

vars == <<pc, crs, sk, joined, lag_pks, agg, ek, count, ct, m_sum, pd, selector, result>>

Unset == [k \in {} |-> Zero]

Init ==
  /\ pc = "crs"
  /\ crs = Unset /\ sk = Unset /\ joined = 0 /\ lag_pks = Unset
  /\ agg = Unset /\ ek = Unset
  /\ count = 0 /\ ct = Unset /\ m_sum = [c \in chunks |-> Zero]
  /\ pd = [i \in positions |-> Zero]
  /\ selector = {} /\ result = Unset

CrsNew(tau, r, gamma) ==
  /\ pc = "crs"
  /\ IF tau_panics(tau) THEN pc' = "panic_inverse" /\ UNCHANGED crs
     ELSE pc' = "keys" /\ crs' = deterministic_new(tau, r, gamma)
  /\ UNCHANGED <<sk, joined, lag_pks, agg, ek, count, ct, m_sum, pd, selector, result>>

(* The next party publishes its key, with or without the help of its        *)
(* secret key.                                                              *)
Publish(key, via_hints) ==
  /\ pc = "keys"
  /\ joined < n
  /\ sk' = [i \in 0 .. joined |-> IF i = joined THEN key ELSE sk[i]]
  /\ lag_pks' = [i \in 0 .. joined |->
       IF i < joined THEN lag_pks[i]
       ELSE IF via_hints THEN get_lag_public_key(get_pk(crs, key), joined)
       ELSE get_lagrange_pk(crs, key, joined)]
  /\ joined' = joined + 1
  /\ UNCHANGED <<pc, crs, agg, ek, count, ct, m_sum, pd, selector, result>>

(* AggregateKey::new; the sum of ciphertexts starts with the caller's t.    *)
Aggregate(t) ==
  /\ pc = "keys"
  /\ joined > 0
  /\ agg' = agg_sk_li_lj_z(lag_pks, joined)
  /\ ek' = encryption_key(crs, lag_pks, joined)
  /\ ct' = zero(t)
  /\ pc' = "open"
  /\ UNCHANGED <<crs, sk, joined, lag_pks, count, m_sum, pd, selector, result>>

(* powers_of_g has no power t for a t above n.                              *)
EncryptAndAdd(s, m) ==
  /\ pc = "open"
  /\ count < MaxCts
  /\ IF ct.t > n THEN pc' = "panic_index" /\ UNCHANGED <<count, ct, m_sum>>
     ELSE /\ ct' = add(ct, encrypt(crs, ek, ct.t, s, m))
          /\ m_sum' = [c \in chunks |-> Add(m_sum[c], m[c])]
          /\ count' = count + 1
          /\ UNCHANGED pc
  /\ UNCHANGED <<crs, sk, joined, lag_pks, agg, ek, pd, selector, result>>

share(i) == Mul(ct.sa1[1], sk[i])

(* batch_partial_decryption of the ciphertexts that are there, which the    *)
(* caller files at a position.                                              *)
Answer(i, slot) ==
  /\ pc = "open"
  /\ i < joined
  /\ pd' = [pd EXCEPT ![slot] = share(i)]
  /\ UNCHANGED <<pc, crs, sk, joined, lag_pks, agg, ek, count, ct, m_sum, selector, result>>

(* The commitment to bhat comes before the keys are looked up.              *)
AggDec(S) ==
  /\ pc = "open"
  /\ selector' = S
  /\ IF too_many_coefficients(crs.powers_of_g[0], bhat(S, ct.t))
       THEN pc' = "panic_commit" /\ UNCHANGED result
     ELSE IF \E i \in S : i >= joined THEN pc' = "panic_index" /\ UNCHANGED result
     ELSE pc' = "done" /\ result' = agg_dec(crs, lag_pks, agg, ct, pd, S)
  /\ UNCHANGED <<crs, sk, joined, lag_pks, agg, ek, count, ct, m_sum, pd>>

Next ==
  \/ \E tau \in Taus, r \in Generators, gamma \in Gammas : CrsNew(tau, r, gamma)
  \/ \E key \in SecretKeys, via_hints \in BOOLEAN : Publish(key, via_hints)
  \/ \E t \in Thresholds : Aggregate(t)
  \/ \E s \in Nonces, m \in Messages : EncryptAndAdd(s, m)
  \/ \E i \in positions : \E slot \in {i} \cup Misfiled : Answer(i, slot)
  \/ \E S \in SUBSET positions : AggDec(S)

Spec == Init /\ [][Next]_vars

-----------------------------------------------------------------------------

TypeOK ==
  /\ pc \in {"crs", "keys", "open", "done", "panic_inverse", "panic_index", "panic_commit"}
  /\ joined \in 0 .. n
  /\ sk \in [0 .. joined - 1 -> SecretKeys]
  /\ DOMAIN lag_pks = 0 .. joined - 1
  /\ count \in 0 .. MaxCts
  /\ m_sum \in [chunks -> Scalar]
  /\ pd \in [positions -> Scalar]
  /\ selector \subseteq positions
  /\ pc \in {"open", "done"} =>
       /\ agg \in [chunks -> [positions -> Scalar]]
       /\ ct.sa1 \in [0 .. 1 -> Scalar] /\ ct.sa2 \in [0 .. 5 -> Scalar]
       /\ ct.ct \in [chunks -> Scalar] /\ ct.t \in Thresholds
  /\ pc = "done" => result \in [chunks -> Scalar]

(* The hints that anyone computes from a position-oblivious key, with       *)
(* Lagrange coefficients and a Toeplitz product by transforms, are those    *)
(* its owner computes from the values at tau (setup.rs:206-243, 263-343).   *)
HintsAgree ==
  pc = "keys" => \A i \in 0 .. joined - 1 : lag_pks[i] = get_lagrange_pk(crs, sk[i], i)

fresh(i) == pd[i] = share(i)

(* agg_dec returns exactly the sum of the messages, in every chunk, for     *)
(* every selection of at least t parties whose answers are for this sum,    *)
(* whoever they are and however many more than t (decryption.rs:17-180).    *)
(* Nobody at all, which passes for t = 0, is the exception: b then has      *)
(* degree n and is not determined by its values on the domain.              *)
QuorumOpens ==
  pc = "done" /\ joined = n /\ selector # {} /\ (\A i \in selector : fresh(i)) =>
    result = m_sum

(* It returns a result for no smaller selection, and for every large enough *)
(* one: the bound on the powers of g is the threshold (decryption.rs:58-68, *)
(* crs.rs:230-236).                                                         *)
ThresholdEnforced ==
  /\ pc = "done" => Cardinality(selector) >= ct.t
  /\ pc = "panic_commit" => Cardinality(selector) < ct.t

(* One selected position whose answer is missing, is for fewer ciphertexts, *)
(* or is that of another party, which so counts twice, spoils every chunk:  *)
(* no weight of a selected party is zero (decryption.rs:90-104).            *)
OneWrongShareSpoils ==
  pc = "done" /\ joined = n /\ Cardinality({ i \in selector : ~fresh(i) }) = 1 =>
    \A c \in chunks : result[c] # m_sum[c]

(* The n of the reference string is the "maximum number of parties in a     *)
(* committee" (crs.rs:15): a smaller committee, its keys at the first       *)
(* positions, can decrypt what is encrypted to it.                          *)
SmallCommitteeDecrypts ==
  pc = "done" /\ selector # {} /\ (\A i \in selector : fresh(i)) => result = m_sum
=============================================================================
