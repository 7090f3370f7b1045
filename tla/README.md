# Verification of batched silent threshold encryption

TLA+ models, TLC runs and TLAPS proofs for the Rust crate in `src/` (Batched
Threshold Encryption with Silent Setup, ePrint 2025/1419). The crate is a
library of sequential functions. What is concurrent is the system they are
written for: clients encrypt, the parties of a committee answer, and a decryptor
collects answers and retries; and processes that share the file in which the
solver's table is kept.

## 1. Inventory

| component | source | state | operations |
|---|---|---|---|
| logarithm solver | `dlog/mod.rs` | table of giant steps, two sizes | `with_params`, `compute_dlog`, save and load, `assert_homomorphic_batch_safe` |
| BTE reference string | `bte/crs.rs` | powers of x in G1 and G2, one of them zeroed; GT powers; transformed circular vector | `CRS::new` |
| PRF and PPRF | `bte/mod.rs` | a key, a point | `new`, `puncture`, `eval` of both, `batch_eval`, `naive_batch_eval`, `fft_batch_eval` |
| batched encryption | `bte/encryption.rs` | ciphertext: punctured key, encrypted key, mask | `encrypt` |
| batched decryption | `bte/decryption.rs` | locals of the call | `decrypt`, `decrypt_fft` |
| threshold encryption | `ste/encryption.rs`, `ste/decryption.rs` | linearly homomorphic ciphertext with its threshold t | `encrypt`, `add`, `zero`, `agg_dec` |
| committee keys | `ste/aggregate.rs` | keys of m parties at k random positions each | `SystemPublicKeys::new`, `get_aggregate_key`, `AggregateKey::new` |
| party keys | `ste/setup.rs` | secret key, hints, partial decryption | `get_pk`, `get_lagrange_pk`, `get_lag_public_key`, `(batch_)partial_decryption` |
| STE reference string | `ste/crs.rs`, `ste/utils.rs` | powers of tau, Lagrange hints | `new`, commitments, openings |
| example | `examples/endtoend.rs` | markers file, batch it is at | load or build the markers, then the whole flow, for four batch sizes |
| benches | `benches/` | none | timing |

**How they interact.** A client calls `encrypt(position, .., t)`: a fresh PRF key
is punctured at its position, cut into 16-bit chunks, each chunk put in the
exponent of GT and encrypted under the committee's key with threshold t. A party
calls `batch_partial_decryption` on the ciphertexts it has received; the share
does not name them. The decryptor calls `decrypt` with a batch, a selector, and one
share per party (zero for those who did not answer): the batch size is checked,
the encrypted keys are added, `agg_dec` opens the sum, the solver finds the
exponent of every slot, the slots are recombined to the sum of the keys, and for
each index the punctured evaluations are subtracted from the evaluation of the sum.

**What is hard.**

- *Indices.* One power of x is missing. The arrays, the GT powers and the circular
  vector of the FFT each treat it differently, and every lag is a difference of
  two indices.
- *Order.* An index of the batch is taken for a position, the order of the keys of
  a committee for their positions, and neither is checked.
- *Range.* Slots overflow into each other, the sum of keys exceeds the field, the
  solver has a range and its table keys do not distinguish a point from its conjugates.
- *Time.* Shares are made for whatever a party has received, arrive late, twice or
  never, and are kept over retries.
- *The file.* Whether it exists is looked up before it is created, it is written in
  pieces, the last of which goes out unchecked when the writer is dropped, and whoever
  finds it trusts it. Processes are killed and start at once.

**What makes each component correct.** Solver: right and complete in its range, and
bounded. Reference string: a punctured key evaluates like its key except on its own
point. Decryption: only the punctured key survives the subtraction; sums stay in
range and recombine to the key; an honest call never panics; a batch is opened only
after a quorum answered for it. Committee: one key at each position. Markers file: whoever
decrypts has the whole table.

`PROJECT.json` lists the hazards with their lines and the properties that cover them.

## 2. Modules

```
Dlog <- DlogProofs             ScalarField <- BteCrs <- Bte <- BteFft <- BteProofs
Committee <- CommitteeProofs        |
MarkersFile <- MarkersFileProofs    +-- Ste <- SilentThreshold <- SilentThresholdProofs
BatchRelease <- BatchDecryption <- BatchDecryptionProofs

FoldLemmas <- FieldLemmas           (lemmas for BteProofs, SilentThresholdProofs and,
                                     FoldLemmas only, BatchDecryptionProofs)
```

Ste and BteFft instantiate **Radix2Domain**. Each `MC` module extends the module it is
named after.

- **Dlog**: `Markers::with_params` and `compute_dlog`, one action per iteration. An
  element of the group is its logarithm. The key of a point is taken from one coefficient
  of an element of Fp12, which inversion and Frobenius leave alone: `PointKey` maps a
  point and its conjugates, up to twelve exponents ±z^k·m for the parameter z of the
  curve, to the same key. `WordExponent` is the wrapping arithmetic on `usize`.
- **ScalarField**: the field, and in the exponent the three groups and the pairing,
  as constants with the laws of a commutative ring. What divides or transforms (Ste,
  BteFft) assumes `IsField` besides.
- **Radix2Domain**: the evaluation domain of arkworks, which is external: the discrete
  Fourier transform by definition, over the powers of a root of unity.
- **BteCrs**: `CRS::new`. `PushPower` is an iteration of the loop, `BuildArrays` the
  code that overwrites the slot and exponentiates, `BuildGtPowers` the rest.
- **Bte**: clients (`Encrypt`) and the loop of `decrypt` (`PairNext`, `Recover`),
  with the panics on the array bound, on the assertion of `eval` and on the
  comparison as states. The key is in the ciphertext, for the fold to add.
- **BteFft**: `decrypt_fft`, on the clients and the fold of Bte; `b_vec` and `a_vec` are
  laid out as in the code. `FftNext` offers the caller both functions, so one run covers
  the reference string, the loop and the transform.
- **Ste**: the functions of the threshold encryption, each an operator on group elements
  in the exponent: `deterministic_new`, both ways to a party's hints (`get_lagrange_pk`
  from the secret key, `get_lag_public_key` from the published one by a Toeplitz product),
  the aggregate key, `encrypt`, `add`, `agg_dec`.
- **SilentThreshold**: one committee on top of Ste. `CrsNew`, `Publish` per party,
  `Aggregate`, then `EncryptAndAdd` and `Answer` in any order, so that an answer may be
  for fewer ciphertexts than the sum has, or lie where that of another party belongs (its
  `id` is never read), and `AggDec` with any selection.
- **BatchRelease**: the abstract promise. Parties approve batches; a batch is opened
  when Threshold parties have approved that batch.
- **BatchDecryption**: the system end to end. `encrypt` and `batch_partial_decryption`
  happen at any time, also between the steps of a call. `decrypt` takes any prefix of
  the log, any selector and, for each selected party, any share that was ever sent or
  the zero share, which covers loss, delay, reordering and repetition. Each stage of
  the call is an action that goes on or panics; `end_call` drops the locals and lets
  the caller retry.
- **MarkersFile**: processes that run `main` of the example again and again in one
  directory. `Found` and `NotFound` are the look for the file, `Create` empties it,
  `WriteBlock` and `DropWriter` are the writes of the BufWriter, `ReadBlock` and
  `ReadPastEnd` the deserialization, `Decrypt` the lookups of the batch and the step to the
  next batch. A block stands for the marker it holds; the first one also for the number of
  entries. A process is killed, or an unwrapped I/O error ends it, between any two steps
  (`Abort`), and is started again (`Start`).
- **Committee**: sampling of positions, the matching, the placement of the leftovers
  and the sorted keys. The matching library returns any maximum matching. Several
  machines aggregate the committee they agreed on, each with an argument vector of
  its own.

The `*Proofs` modules hold the theorems, the `MC*` modules the finite fields and
functions that a cfg cannot write down. A definition whose comment begins with
*Mutant* is a deliberately broken variant of the one below it: with it in place, the
property named in `PROJECT.json` fails, which shows that the property constrains the
code.

**Abstractions of BatchDecryption.** A partial decryption is the pair of its
party and of the length of the prefix it was made for. It opens that prefix and no
other, since the sums of the nonces of two prefixes differ but for a chance of about
2^-255; what `agg_dec` returns otherwise has a logarithm no table contains
(`unknown`). That a wrong or missing answer spoils the result, that right answers open it
and that too few selected parties panic is what SilentThreshold shows of the exact
equations. Likewise the final comparison of masks succeeds exactly when the key is
right and the batch in order. Both are cryptographic facts about random values; the
second is what Bte and BteFft establish in one direction. The empty batch needs no shares in
BatchRelease: its share and the zero share are the same element.

## 3. Runs

| run | shows | bounds |
|---|---|---|
| `dlog` | the solver is sound and complete in its range, wrong only where it meets a conjugate of a giant step or the identity, always returns | order 457 with twelve conjugations, 8 giants, 2 babies, all targets, repeated calls |
| `bte` | a punctured key evaluates like its key but on its own point, which gives zero; only the punctured key survives; ordered batches never panic; oversized ones fail; the FFT evaluation is the loop on ordered full batches | field of 17, `batch_size` 3, transform of size 8, up to 4 ciphertexts, all secrets, keys 0, 1 and 6 |
| `batch_quorum` | BatchDecryption implements BatchRelease; honest calls never panic | release build, 3 parties, threshold 2, log of 2, retries unbounded |
| `batch_arithmetic` | sums in range, solved and recombined; a batch with a ciphertext of another threshold is never released; an honest call ends with its batch released | debug build, 1 party, clients of two thresholds, keys of 3 chunks of 2 bits of which 2 are carried, field of 23, range 0..7, log of 3 |
| `markers_file` | unless two processes have both looked in vain, whoever decrypts has the whole table; a short file needs a kill or an error and then stays; the file settles | 2 processes, 3 blocks in every order, 2 batches, 2 faults |
| `silent_threshold` | both ways to the hints agree; a quorum of right answers opens the sum, fewer panic, one wrong answer spoils every chunk | 4 parties, 2 chunks, sum of 2, answers of others at position 0, field of 17 |
| `committee` | full committees are aligned; only what is too large panics; exactly the leftovers are recomputed; sampling and aggregation end | 4 parties, 3 positions, 2 keys each, vectors of up to 4 entries |

*Why the bounds are enough.* The table of 8 by 2 has interior giants, both ends and the extra
marker. The prime 457 is the smallest order with twelve conjugations (the powers of z = 18,
z^4 - z^2 + 1 = 0 as in BLS12-381) that take the numbers of the table out of its range
(`KeysAssumption`, which TLC evaluates); all 457 targets are tried, those in front of each
conjugate and below zero among them. `batch_size` 3 with four ciphertexts has duplicates, swaps, partial, full and oversized
batches, and in a transform of size 8 positive lags, negative lags and a dead zone of three
slots. In `batch_arithmetic` two keys of 15 carry between slots and wrap around 23, a key
of 20 has a third chunk that l = 2 slots drop, and the third ciphertext is the first that
the check refuses (7 div 3 = 2). Three blocks are a first one, one between and a last one;
two faults can hit both processes, or one process and the flush of the other, with a
restart in between; two batches are the first, which may build the table, and a later one,
which finds the file. With three parties and threshold 2 a selection can be too small, exact or too
large, and shares for batches 0, 1 and 2 can be mixed. In `silent_threshold` tau is zero,
a root of unity (both panic) or a proper value; the statements are identities between
polynomials in tau, the keys and the nonces, which do not hold by accident for all 16
vectors of keys and 6 sums of ciphertexts at once; there are thresholds 0, 2 and one above
n, and every selection and every mix of right, outdated and missing answers occurs; position 0
may hold the answer of any party, which then counts twice. Four
parties with two of three positions each give committees that a matching covers, falls
short of, and cannot place. What does not depend on the instance is proved (section 4).

*Fairness.* `Dlog`, `Committee` and `batch_arithmetic` assume weak fairness of the steps
inside a call (a called function is run by its thread), never of new calls.
`markers_file` assumes it of the steps of each process that runs, never of `Start` and
`Abort`: a process that has ended need not start again, one that runs may be killed.
`Committee` assumes besides that the random source draws every position again and
again. The other runs use no fairness.

*Deadlock* is checked except in BteFft and SilentThreshold, which end when the one
batch is decrypted or has panicked (SilentThreshold: with the one call of `agg_dec`), and
in Committee, where each machine makes one call.

### Disagreements with comments and assertions

Five runs are expected to fail. Each checks what a comment or assertion of the
source says.

| run | the source says | the run shows |
|---|---|---|
| `dlog_out_of_range` | `compute_dlog` returns `None` out of range (`dlog/mod.rs:149`) | `Some` just below zero, and just below each conjugate of a giant step: the target \|z\|·4096 − 1 gives 4095. Just above the range it is `None` |
| `markers_race` | a failed lookup means "exponent out of BSGS range" (`bte/decryption.rs:42`) | also a table that lacks markers, read from a file that two processes created at once (`endtoend.rs:75-80`) |
| `batch_over_quorum` | `bhat.degree()` is n (`ste/decryption.rs:64`) | not with more than t selected parties; only debug builds notice |
| `committee_order` | a "subset", its leftovers assigned "deterministically" (`ste/aggregate.rs:142, 158`) | the key depends on the order of the vector |
| `ste_small_committee` | n is a "maximum" (`ste/crs.rs:15`) | fewer keys than n: `z_g2` is tau^len - 1, the hints are divided by tau^n - 1, and the sum does not open |

Three more need no run. `decrypt_fft` is called "same as `decrypt`"
(`bte/decryption.rs:75`), and `FftLengthPanic` is the assertion (`bte/mod.rs:118`) that a
partial batch meets in it and not in `decrypt`. The check is said to make sums recoverable
(`dlog/mod.rs:38-39`), but reads a constant: with markers of a smaller range
(`MarkersRange` below `max_dlog_exponent + 1`) `CheckedSumIsSolved` fails, which is why the
theorem `CheckedSumSolved` assumes otherwise. And the markers file is never repaired: one
that a kill has cut short makes every later start panic in `read_from_file` until somebody
deletes it (`OrphanIsForGood`), and without any fault a process that starts while another
writes panics once in the same place.

In `markers_race` no process is killed. Both find no file; one writes it and loads it for
its next batch while the other has just emptied it or is halfway through with entries in
an order of its own. A process that runs alone, killed or not, never gets there
(`TableComplete`).

With `powers_of_h[0][crs.n]` in place of `powers_of_h[0][n]` in `ste/aggregate.rs:35` the
run `ste_small_committee` finds no violation. An edge worth knowing: with t = 0 an empty
selection passes `agg_dec`, which then returns something other than the message.

## 4. Proofs

All theorems hold for every value of the constants that the named assumptions allow.

- **DlogProofs** (`DlogAssumption`: the word and the table fit into the group;
  `ConjugationsAssumption`: the factors under which keys agree; `KeysAssumption`: no number
  of the size of the table is conjugate to another giant step). The invariant describes the
  table after i insertions as the exact set of keys of the first i giants, and says that
  while a search in the range runs, no point between the target and the dart has the key of
  a giant. An exponent of the range then meets the next giant above it and no conjugate.
  Where a key is found for any other target, the dart is a conjugate of the giant step of
  that number, and unless the factor is one and the number positive nothing more is claimed
  (`SpuriousByConjugates`). Gives besides `SolverSound`, `SolverComplete` and `TypeCorrect`.
- **FoldLemmas** and **FieldLemmas** carry the others. The code is full of sums, products
  and powers, and what they compute for every input needs induction over data. It is stated
  for sets here: a set of naturals that contains 0 and k + 1 with every k is everything
  (`Induction`), the same for finite sets (`SetInduction`), so that a function defined by
  recursion exists (`NatRecursion`, `SetRecursion`) and a fold over a finite set is
  independent of the order (`FoldOp`, `FoldSubset`, `FoldSwap`, `FoldReindex`). On top of it:
  finite sums of scalars, powers, the sum of the powers of a root of unity (`RootSum`), the
  inverse of the discrete Fourier transform (`DftInverse`), circular convolution
  (`Convolution`), and the values of polynomials (`ValueOfQuotient`, `ValueAtRoot`, ...).
- **BteProofs** (ring laws, `batch_size` positive; for the transform a field and its
  domain, `DomainAssumption`). Powers are given by a function of the secret whose recursion
  the loop of `CRS::new` follows; the invariant says that each array entry is its power, but
  for the zeroed one. Gives `PuncturedEvalCorrect`, `PuncturedSlotCorrect`, `CrsTypeCorrect`
  and, for the keys in the ciphertexts, `PuncturedKeysEvaluate`: `PPRF::eval`, which
  `decrypt` does not call, refuses no input but the point, and `batch_eval`, which it calls and
  which refuses nothing, adds zero there. While ciphertexts are paired, the
  difference between the partial sum of evaluated keys and `mask1` is the mask of the one
  ciphertext punctured at the index if it has been passed, and zero otherwise. The history of
  accumulators makes this an invariant rather than an induction over a sum. Gives
  `MaskRecovered`, `InOrderDecrypts`, `OversizedRejected` and `BteTypeCorrect`. With
  `decrypt_fft` beside it the loop keeps all that (`FftKeepsLoop`). `FftEvaluates` takes
  the transforms as a circular convolution, and shows that the summand of every lag is the
  one the loop pairs, the dead zone contributing zero; `FftDecrypts` follows with the
  length check.
- **SilentThresholdProofs** (`SteAssumption`: a field, domains of n and 2n; and
  `SpacesAssumption`: generators and gamma that are not zero). Three algebraic facts, for
  every n: the Toeplitz product opens a committed polynomial at all points at once, so that
  `get_lag_public_key` and `get_lagrange_pk` agree (`HintsSame`); the polynomial b of a
  selection has degree n less the number of those selected, is one at zero and vanishes at
  just the roots of the parties left out, so that no weight of a selected party is zero and
  `commit_g1` refuses x^t * b exactly below the threshold (`BPoly`, `CommitmentBound`); and the six pairings of `agg_dec`
  cancel to the message plus a weighted sum of what is wrong with the answers
  (`DecryptsTo`). `IInv` says which reference string, which keys and which aggregate key the
  facts are about, and that the ciphertext is an encryption of the sum of the messages under
  the sum of the nonces (`SumEncrypted`), which no property states and all need. Gives
  `TypesOK`, `HintsNeverDiffer`, `ThresholdHolds`, `QuorumsOpen` and `WrongShareSpoils`.
- **BatchDecryptionProofs**. `IInv` bounds each slot by one largest chunk per folded
  ciphertext (`FoldInv`), and carries from `agg_dec` to the end of a call that every share
  is for the batch (`AggInv`, `ValidInv`), that the selection reaches the threshold
  (`QuorumInv`) and that every share was sent (`SharesSent`). None of the properties is
  inductive alone: `SlotSumsInRange` needs the bound by j and the lemma `BatchBound`
  about the division in `max_homomorphic_batch_size`; the refinement needs the last three
  at the moment a batch is opened. Gives `SlotSumsBounded`, `CheckedSumSolved` (for markers that cover
  the checked range), `BatchTypeCorrect` and `ImplementsRelease`. `UniformInv` carries what
  the fold has compared to the release, and through the growth of the log
  (`ReleaseIsUniform`). `CarryInv` adds what the
  slots mean: read as digits of one number they hold the sum of the low parts of the keys
  folded so far, although each slot may be far above its radix (`FoldedInv`, by `HeldAdd` and
  `HeldSplit`), and what has been recombined is that number up to slot c, in the field
  (`DigitInv`, by `ModStep`). Gives `KeyIsRecovered` and, with `WholeKeys` and one lemma for
  each place where the code can panic, `HonestCallNeverPanics` (also for markers that cover
  the checked range).
- **CommitteeProofs** (k at most n). `IInv` says that the pairs of a call are the matching
  and one pair for each entry passed that it left over, at positions it left over: never
  two at one position, and never more than there are entries. Sorting needs no induction:
  the rank of a pair is an injection into as many indices, so that every index has a pair
  (`RankExists`), and when all positions are taken the rank of a pair is its position
  (`RankIsPlace`). That the matching is maximum enters by one lemma, `LeftoversUnrelated`.
  Gives `CommitteeTypeCorrect`, `FullCommitteesAligned`, `OverfullPanics` and
  `LeftoversRecomputed`.
- **MarkersFileProofs** (any set of processes, any sizes). `IInv` says, as long as no two
  processes have looked in vain at once, that at most one process creates or writes, that
  the file is the part it has written of one order of the markers, and that a reader has
  exactly the blocks before its offset. `TableComplete` is not inductive without it: that a
  reader ends with every marker depends on who wrote the blocks it has not read yet. Gives
  `MarkersTypeCorrect`, `CompleteTables`, `OrphansNeedFaults` and `OrphansStay`.

Every safety and action property of a passing run is a theorem. Only model-checked:
liveness (`EveryCallReturns`, `EveryCallEnds`, `HonestCallReleases`, `FileSettles`), which needs
ENABLED and fairness; and that the small fields of the `MC` modules satisfy the laws the proofs
assume, which TLC evaluates with every run.

## 5. Not modelled

Serialization helpers, the stub `sbte.rs`, the uncompiled `ste/_main.rs` and the benches
have no behaviour of interest. The reference string's hints in G2 and `LagPolys.li_lj_z`
are read by nothing. An n that is no power of two, or one, is excluded (`SteAssumption`).
In MarkersFile an entry that lies across two blocks is not modelled: in a file that mixes
two processes it may also get a wrong number. SilentThreshold and Committee are not
composed into one module: what the first needs of the second is one key at each position
in order, which is `FullCommitteeAligned`.

## 6. Plan

Done, in this order: Dlog, BteCrs, Bte, BteFft, BatchRelease and BatchDecryption, Committee,
Ste and SilentThreshold, MarkersFile; proofs of all their safety properties. Next:

1. The refinement of the share abstraction: that an answer for one prefix of the log opens
   that prefix and no other, as a theorem between SilentThreshold and BatchDecryption.
2. A theorem that what `committee` shows, one key at each position in order, is what
   SilentThreshold assumes of the keys.
3. The reference string for an n that is no power of two (hazard at `ste/utils.rs:12`), as
   a model of its own.
