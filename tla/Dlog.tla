-------------------------------- MODULE Dlog --------------------------------
(***************************************************************************)
(* The baby-step / giant-step solver of src/src/dlog/mod.rs.               *)
(*                                                                         *)
(* A group element is represented by its discrete logarithm to the base of *)
(* the generator, a number in 0..Order-1: the generator is 1, the identity *)
(* is 0 and the group operation is addition modulo Order.  The table is    *)
(* built by one loop (one InsertMarker per iteration) and every call of    *)
(* compute_dlog runs another one (one BabyHit or BabyMiss per iteration)   *)
(* over a table that is never written again.                               *)
(***************************************************************************)
EXTENDS Integers

CONSTANTS
  Order,       \* order of the group G (the prime r of BLS12-381)
  NumGiants,   \* 2^log_markers
  NumBabies,   \* 2^log_bases = 2^(log_max_input - log_markers)
  Word,        \* 2^64, the width of usize
  Conjugations \* the factors between exponents whose points share a key

(***************************************************************************)
(* The exponents the solver promises to recover: 0..DlogRange-1, that is   *)
(* [0, 2^log_max_input).                                                   *)
(***************************************************************************)
DlogRange == NumGiants * NumBabies

(***************************************************************************)
(* with_params asserts log_max_input >= log_markers, so there is at least  *)
(* one baby step; the shifts of the code fit usize; and the group is far   *)
(* larger than the table it is searched with (r is about 2^255, the        *)
(* default range 2^25).                                                    *)
(***************************************************************************)
ASSUME DlogAssumption ==
  /\ NumGiants \in Nat \ {0}
  /\ NumBabies \in Nat \ {0}
  /\ Word \in Nat /\ DlogRange < Word /\ NumBabies < Word
  /\ Order \in Nat /\ Word < Order
  /\ 2 * (DlogRange + NumBabies) < Order

Group == 0 .. Order - 1

GroupAdd(a, b) == IF a + b < Order THEN a + b ELSE a + b - Order

(***************************************************************************)
(* The key under which a point is stored: the leading DLOG_KEY_BYTES bytes *)
(* of its uncompressed serialization, of the coefficient c0.c0.c0 of the   *)
(* Fp12 element that stands for it.  Inversion and Frobenius leave that    *)
(* coefficient alone.  In GT they multiply the exponent by -1 and by p,    *)
(* where p = z modulo r for the parameter z of the curve and z^6 = -1, so  *)
(* up to twelve points have one key: Conjugations is { z^k : k \in 0..11 }. *)
(* That 16 bytes of different coefficients agree is left out.              *)
(***************************************************************************)
ASSUME ConjugationsAssumption ==
  /\ Conjugations \subseteq 1 .. Order - 1
  /\ 1 \in Conjugations /\ Order - 1 \in Conjugations
  /\ \A e, f \in Conjugations : (e * f) % Order \in Conjugations

PointKey(p) == { (f * p) % Order : f \in Conjugations }

(***************************************************************************)
(* No two numbers of the size of the table are conjugate: z is about 2^64  *)
(* and r = z^4 - z^2 + 1, so that the powers of z take a number below 2^60 *)
(* out of that range, whatever its sign.                                   *)
(***************************************************************************)
ASSUME KeysAssumption ==
  \A j \in 0 .. NumGiants, d \in 0 .. DlogRange + NumBabies :
    PointKey(d) = PointKey(j * NumBabies) => d = j * NumBabies

Keys == { PointKey(p) : p \in Group }

(* Mutant: the last marker is not inserted.                                 *)
num_markers_short == NumGiants

num_markers == NumGiants + 1

step == NumBabies

(* Mutants of the arithmetic: plain subtraction, a baby step too many, and  *)
(* a shift by log_markers in place of log_bases.                            *)
WordExponent_plain(j, k) == (j * NumBabies) - k - 1
WordExponent_off_by_one(j, k) == (((j * NumBabies) % Word) - k) % Word
WordExponent_shift(j, k) == (((j * NumGiants) % Word) - k - 1) % Word

(* (j << log_bases).wrapping_sub(i).wrapping_sub(1) on usize. *)
WordExponent(j, k) == (((j * NumBabies) % Word) - k - 1) % Word

VARIABLES
  pc,          \* "build", "ready", "solve", or how the last call returned: "some", "none"
  markers_map, \* key of the giant step j * NumBabies |-> j
  marker,      \* the giant step inserted last
  i,           \* the loop counter of the running loop
  target,      \* argument of the current or last compute_dlog
  dart,        \* the point the current baby step looks up
  x            \* the exponent returned, meaningful when pc = "some"

vars == <<pc, markers_map, marker, i, target, dart, x>>

Init ==
  /\ pc = "build"
  /\ markers_map = [k \in {PointKey(0)} |-> 0]
  /\ marker = 0
  /\ i = 1
  /\ target = 0
  /\ dart = 0
  /\ x = 0

InsertMarker ==
  /\ pc = "build"
  /\ i < num_markers
  /\ marker' = GroupAdd(marker, step)
  /\ markers_map' = [k \in DOMAIN markers_map \cup {PointKey(marker')} |->
                       IF k = PointKey(marker') THEN i ELSE markers_map[k]]
  /\ i' = i + 1
  /\ UNCHANGED <<pc, target, dart, x>>

TableBuilt ==
  /\ pc = "build"
  /\ i = num_markers
  /\ pc' = "ready"
  /\ UNCHANGED <<markers_map, marker, i, target, dart, x>>

ComputeDlog(t) ==
  /\ pc \in {"ready", "some", "none"}
  /\ pc' = "solve"
  /\ target' = t
  /\ dart' = GroupAdd(t, 1)
  /\ i' = 0
  /\ UNCHANGED <<markers_map, marker, x>>

BabyHit ==
  /\ pc = "solve"
  /\ i < NumBabies
  /\ PointKey(dart) \in DOMAIN markers_map
  /\ x' = WordExponent(markers_map[PointKey(dart)], i)
  /\ pc' = "some"
  /\ UNCHANGED <<markers_map, marker, i, target, dart>>

(* Mutant: the loop body neither steps nor counts.                          *)
BabyMiss_stuck ==
  /\ pc = "solve"
  /\ i < NumBabies
  /\ PointKey(dart) \notin DOMAIN markers_map
  /\ UNCHANGED vars

BabyMiss ==
  /\ pc = "solve"
  /\ i < NumBabies
  /\ PointKey(dart) \notin DOMAIN markers_map
  /\ dart' = GroupAdd(dart, 1)
  /\ i' = i + 1
  /\ UNCHANGED <<pc, markers_map, marker, target, x>>

OutOfSteps ==
  /\ pc = "solve"
  /\ i = NumBabies
  /\ pc' = "none"
  /\ UNCHANGED <<markers_map, marker, i, target, dart, x>>

Loop == InsertMarker \/ TableBuilt \/ BabyHit \/ BabyMiss \/ OutOfSteps

Next == Loop \/ \E t \in Group : ComputeDlog(t)

Spec == Init /\ [][Next]_vars

(* The loops run in the calling thread until they return. *)
FairSpec == Spec /\ WF_vars(Loop)

-----------------------------------------------------------------------------

(* The variables keep the types of the code; the table maps keys to giants. *)
TypeOK ==
  /\ pc \in {"build", "ready", "solve", "some", "none"}
  /\ DOMAIN markers_map \subseteq Keys
  /\ \A k \in DOMAIN markers_map : markers_map[k] \in 0 .. NumGiants
  /\ marker \in Group
  /\ i \in 0 .. num_markers + NumBabies
  /\ target \in Group
  /\ dart \in Group
  /\ x \in 0 .. Word - 1

(* compute_dlog never answers wrongly inside its range: although a key      *)
(* cannot tell a point from its conjugates, whatever it finds for an        *)
(* exponent in [0, 2^log_max_input) is that exponent (dlog/mod.rs:146-164). *)
SolveSound == pc = "some" /\ target < DlogRange => x = target

(* compute_dlog never gives up inside its range: the giants reach far       *)
(* enough, and the babies are enough, to meet every exponent below          *)
(* 2^log_max_input (dlog/mod.rs:114, 157).                                  *)
SolveComplete == pc = "none" => target >= DlogRange

(* Where wrong answers come from: within 2^log_bases steps the target meets *)
(* a proper conjugate of a giant step, or the marker of zero, whose number  *)
(* leaves nothing to subtract from (dlog/mod.rs:68-72, 157-161).  Whatever  *)
(* else a target meets, however large it is, the answer is not wrong.       *)
SpuriousOnlyByConjugates ==
  pc = "some" /\ x # target =>
    \E f \in Conjugations, j \in 0 .. NumGiants, k \in 1 .. NumBabies :
      /\ GroupAdd(target, k) = (f * (j * NumBabies)) % Order
      /\ f # 1 \/ j = 0

(* Every call returns: the search is bounded by 2^log_bases steps.          *)
EveryCallReturns == pc = "solve" ~> pc \in {"some", "none"}

(* The documented contract of compute_dlog, dlog/mod.rs:149: "Returns None  *)
(* if the exponent is out of range."                                        *)
OutOfRangeIsNone == pc = "some" => target < DlogRange
=============================================================================
