--------------------------- MODULE CommitteeProofs ----------------------------
(***************************************************************************)
(* What Committee promises for every number of parties, positions and keys *)
(* per party, every committee and every argument vector.                   *)
(***************************************************************************)
EXTENDS Committee, FiniteSetTheorems, TLAPS

nodes(R) == { e[1] : e \in R }
places(R) == { e[2] : e \in R }

(* No two pairs at one position.                                            *)
OnePerPlace(R) == \A e, f \in R : e[2] = f[2] => e = f

below(R, e) == { f \in R : f[2] < e[2] }

-----------------------------------------------------------------------------
(* Sorting pairs of different positions                                     *)

LEMMA Interval ==
  ASSUME NEW v \in Nat
  PROVE  IsFiniteSet(0 .. v - 1) /\ Cardinality(0 .. v - 1) = v
<1>1. v - 1 \in Int
  OBVIOUS
<1> QED
  BY <1>1, FS_Interval

LEMMA Entries ==
  ASSUME NEW s \in Seq(Node)
  PROVE  /\ Len(s) \in Nat /\ IsFiniteSet(1 .. Len(s)) /\ Cardinality(1 .. Len(s)) = Len(s)
         /\ \A i \in 1 .. Len(s) : s[i] \in Node
<1>1. Len(s) \in Nat /\ \A i \in 1 .. Len(s) : s[i] \in Node
  OBVIOUS
<1>2. 1 \in Int /\ Len(s) \in Int
  BY <1>1
<1>3. /\ IsFiniteSet(1 .. Len(s))
      /\ Cardinality(1 .. Len(s)) = IF 1 > Len(s) THEN 0 ELSE Len(s) - 1 + 1
  BY <1>2, FS_Interval
<1> QED
  BY <1>1, <1>3

LEMMA AddPair ==
  ASSUME NEW R, NEW x
  PROVE  /\ nodes(R \cup {x}) = nodes(R) \cup {x[1]}
         /\ places(R \cup {x}) = places(R) \cup {x[2]}
BY DEF nodes, places

(* Ranks run through all indices.                                           *)
LEMMA RankExists ==
  ASSUME NEW R, IsFiniteSet(R), \A e \in R : e[2] \in Nat, OnePerPlace(R),
         NEW i \in 0 .. Cardinality(R) - 1
  PROVE  \E e \in R : Cardinality(below(R, e)) = i
<1> DEFINE size == Cardinality(R)
           rank == [e \in R |-> Cardinality(below(R, e))]
<1>0. size \in Nat /\ \A e \in R : e[2] \in Nat
  BY FS_CardinalityType
<1>1. \A e \in R : Cardinality(below(R, e)) \in 0 .. size - 1
  <2> SUFFICES ASSUME NEW e \in R
               PROVE  Cardinality(below(R, e)) \in 0 .. size - 1
    OBVIOUS
  <2>1. below(R, e) \in SUBSET R /\ e \notin below(R, e)
    BY <1>0 DEF below
  <2>2. Cardinality(below(R, e)) <= size /\ Cardinality(below(R, e)) # size /\ IsFiniteSet(below(R, e))
    BY <2>1, FS_Subset
  <2>3. Cardinality(below(R, e)) \in Nat
    BY <2>2, FS_CardinalityType
  <2> QED
    BY <1>0, <2>2, <2>3
<1>2. ASSUME NEW e \in R, NEW f \in R, e[2] < f[2]
      PROVE  Cardinality(below(R, e)) # Cardinality(below(R, f))
  <2>1. IsFiniteSet(below(R, f))
    BY FS_Subset DEF below
  <2>2. below(R, e) \in SUBSET below(R, f) /\ e \in below(R, f) /\ e \notin below(R, e)
    BY <1>0, <1>2 DEF below
  <2> QED
    BY <2>1, <2>2, FS_Subset
<1>3. \A e, f \in R : rank[e] = rank[f] => e = f
  <2> SUFFICES ASSUME NEW e \in R, NEW f \in R, e # f
               PROVE  rank[e] # rank[f]
    OBVIOUS
  <2>1. e[2] < f[2] \/ f[2] < e[2]
    BY <1>0 DEF OnePerPlace
  <2> QED
    BY <1>2, <2>1
<1>4. rank \in Injection(R, 0 .. size - 1)
  BY <1>1, <1>3 DEF Injection, IsInjective
<1>5. IsFiniteSet(0 .. size - 1) /\ Cardinality(0 .. size - 1) = size
  BY <1>0, Interval
<1>6. rank \in Surjection(R, 0 .. size - 1)
  BY <1>4, <1>5, FS_Injection
<1> QED
  BY <1>6 DEF Surjection

(* When all positions are taken, the rank is the position.                  *)
LEMMA RankIsPlace ==
  ASSUME NEW N \in Nat, NEW R, OnePerPlace(R), places(R) = 0 .. N - 1, NEW e \in R
  PROVE  Cardinality(below(R, e)) = e[2]
<1> DEFINE place == [f \in below(R, e) |-> f[2]]
<1>1. e[2] \in 0 .. N - 1 /\ \A f \in R : f[2] \in 0 .. N - 1
  BY DEF places
<1>2. place \in Injection(below(R, e), 0 .. e[2] - 1)
  BY <1>1 DEF below, Injection, IsInjective, OnePerPlace
<1>3. ASSUME NEW p \in 0 .. e[2] - 1
      PROVE  \E f \in below(R, e) : place[f] = p
  <2>1. p \in places(R)
    BY <1>1
  <2>2. PICK f \in R : f[2] = p
    BY <2>1 DEF places
  <2>3. f \in below(R, e)
    BY <1>1, <2>2 DEF below
  <2> QED
    BY <2>2, <2>3
<1>4. place \in Surjection(below(R, e), 0 .. e[2] - 1)
  BY <1>2, <1>3 DEF Surjection, Injection
<1>5. IsFiniteSet(0 .. e[2] - 1) /\ Cardinality(0 .. e[2] - 1) = e[2]
  <2>1. e[2] \in Nat
    BY <1>1
  <2> QED
    BY <2>1, Interval
<1> QED
  BY <1>2, <1>4, <1>5, FS_Injection

LEMMA SortedInside ==
  ASSUME NEW R, IsFiniteSet(R), \A e \in R : e[2] \in Nat, OnePerPlace(R),
         NEW i \in 0 .. Cardinality(R) - 1
  PROVE  sorted(R, i) \in R /\ Cardinality(below(R, sorted(R, i))) = i
<1>1. \E e \in R : Cardinality(below(R, e)) = i
  BY RankExists
<1>2. sorted(R, i) = CHOOSE e \in R : Cardinality(below(R, e)) = i
  BY DEF sorted, below
<1> QED
  BY <1>1, <1>2

(* The least position that is free exists.                                  *)
LEMMA FirstInside ==
  ASSUME NEW P \in SUBSET Nat, IsFiniteSet(P), P # {}
  PROVE  first(P) \in P
<1> DEFINE R == { <<0, p>> : p \in P }
           place == [e \in R |-> e[2]]
<1>1. (\A e \in R : e[2] \in Nat) /\ OnePerPlace(R)
  BY DEF OnePerPlace
<1>2. IsFiniteSet(R) /\ R # {}
  <2>1. place \in Injection(R, P)
    BY DEF Injection, IsInjective
  <2> QED
    BY <2>1, FS_Injection
<1>3. Cardinality(R) \in Nat /\ Cardinality(R) # 0
  BY <1>2, FS_CardinalityType, FS_EmptySet
<1>4. PICK e \in R : Cardinality(below(R, e)) = 0
  <2>1. 0 \in 0 .. Cardinality(R) - 1
    BY <1>3
  <2> HIDE DEF R
  <2> QED
    BY <1>1, <1>2, <2>1, RankExists
<1>5. below(R, e) = {}
  <2>1. IsFiniteSet(below(R, e))
    BY <1>2, FS_Subset DEF below
  <2> QED
    BY <1>4, <2>1, FS_EmptySet
<1>6. e[2] \in P /\ \A q \in P : e[2] <= q
  <2>1. \A q \in P : <<0, q>> \in R /\ <<0, q>> \notin below(R, e)
    BY <1>5
  <2>2. \A q \in P : ~(q < e[2])
    BY <2>1 DEF below
  <2> QED
    BY <2>2
<1> QED
  BY <1>6 DEF first

-----------------------------------------------------------------------------
(* Matchings                                                                *)

LEMMA Finite ==
  /\ IsFiniteSet(Node) /\ IsFiniteSet(Position) /\ Cardinality(Position) = crs_n
  /\ \A R \in SUBSET (Node \X Position) : IsFiniteSet(R) /\ \A e \in R : e[1] \in Node /\ e[2] \in Nat
<1>1. IsFiniteSet(Node) /\ IsFiniteSet(Position) /\ Cardinality(Position) = crs_n
  BY Interval, CommitteeAssumption DEF Node, Position
<1>2. IsFiniteSet(Node \X Position)
  BY <1>1, FS_Product
<1>3. Position \subseteq Nat
  BY DEF Position
<1> QED
  BY <1>1, <1>2, <1>3, FS_Subset

(* Pairs at different positions are no more than n.                         *)
LEMMA AtMostN ==
  ASSUME NEW R \in SUBSET (Node \X Position), OnePerPlace(R)
  PROVE  /\ Cardinality(R) \in Nat /\ Cardinality(R) <= crs_n
         /\ Cardinality(R) = crs_n => places(R) = Position
         /\ places(R) = Position => Cardinality(R) = crs_n
<1> DEFINE place == [e \in R |-> e[2]]
<1>1. IsFiniteSet(R) /\ IsFiniteSet(Position) /\ Cardinality(Position) = crs_n
  BY Finite
<1>2. place \in Injection(R, Position)
  BY DEF Injection, IsInjective, OnePerPlace
<1>3. Cardinality(R) <= crs_n /\ (Cardinality(R) = crs_n <=> place \in Surjection(R, Position))
  BY <1>1, <1>2, FS_Injection
<1>4. place \in Surjection(R, Position) => places(R) = Position
  BY DEF Surjection, places
<1>5. places(R) = Position => place \in Surjection(R, Position)
  BY <1>2 DEF Surjection, Injection, places
<1> QED
  BY <1>1, <1>3, <1>4, <1>5, FS_CardinalityType

(* A matching has no more pairs than the argument has entries of its nodes. *)
LEMMA MatchedEntries ==
  ASSUME NEW M \in SUBSET (Node \X Position), IsMatching(M), NEW s \in Seq(Node),
         nodes(M) \subseteq elements(s)
  PROVE  Cardinality(M) <= Cardinality({ i \in 1 .. Len(s) : s[i] \in nodes(M) })
<1> DEFINE I == { i \in 1 .. Len(s) : s[i] \in nodes(M) }
           pair == [i \in I |-> CHOOSE e \in M : e[1] = s[i]]
<1>1. IsFiniteSet(I)
  <2>1. IsFiniteSet(1 .. Len(s))
    BY FS_Interval
  <2> QED
    BY <2>1, FS_Subset
<1>2. \A i \in I : pair[i] \in M /\ pair[i][1] = s[i]
  BY DEF nodes
<1>3. ASSUME NEW e \in M
      PROVE  \E i \in I : pair[i] = e
  <2>1. PICK i \in 1 .. Len(s) : s[i] = e[1]
    BY <1>3 DEF nodes, elements
  <2>2. i \in I
    BY <2>1 DEF nodes
  <2> QED
    BY <1>2, <2>1, <2>2 DEF IsMatching
<1>4. pair \in Surjection(I, M)
  BY <1>2, <1>3 DEF Surjection
<1> QED
  BY <1>1, <1>4, FS_Surjection

(* A maximum matching leaves no edge between a node and a position that are *)
(* both left over.                                                          *)
LEMMA LeftoversUnrelated ==
  ASSUME NEW E \in SUBSET (Node \X Position), NEW M \in maximum_matchings(E), NEW e \in E
  PROVE  e[1] \in nodes(M) \/ e[2] \in places(M)
<1> SUFFICES ASSUME e[1] \notin nodes(M), e[2] \notin places(M)
             PROVE  FALSE
  OBVIOUS
<1>1. M \in SUBSET E /\ IsMatching(M)
      /\ \A N \in SUBSET E : IsMatching(N) => Cardinality(N) <= Cardinality(M)
  BY DEF maximum_matchings
<1>2. IsMatching(M \cup {e})
  BY <1>1 DEF IsMatching, nodes, places
<1>3. IsFiniteSet(M)
  BY <1>1, Finite, FS_Subset
<1>4. e \notin M
  BY DEF nodes
<1>5. Cardinality(M \cup {e}) = Cardinality(M) + 1 /\ Cardinality(M) \in Nat
  BY <1>3, <1>4, FS_AddElement, FS_CardinalityType
<1> QED
  BY <1>1, <1>2, <1>5

-----------------------------------------------------------------------------
(* The invariant                                                            *)

Types ==
  /\ sys_pc \in {"sample", "ready", "agreed"}
  /\ sampled \in SUBSET Position /\ Cardinality(sampled) <= k
  /\ done \in 0 .. m
  /\ lag_pks \in [0 .. done - 1 -> SUBSET Position]
  /\ committee \in SUBSET Node
  /\ initial \in SUBSET (Node \X Position)
  /\ pc \in [Machine -> {"idle", "assign", "build", "done", "panic"}]
  /\ set \in [Machine -> Seq(Node)]
  /\ j \in [Machine -> Nat]
  /\ unassigned_positions \in [Machine -> SUBSET Position]
  /\ res \in [Machine -> SUBSET (Node \X Position)]
  /\ agg_pks = [d \in Machine |-> agg_pks[d]]

(* Nobody aggregates before the machines have agreed on a committee and a   *)
(* maximum matching of it.                                                  *)
SysInv ==
  /\ sys_pc # "sample" => done = m
  /\ sys_pc = "agreed" => initial \in maximum_matchings(edges(committee))
  /\ sys_pc # "agreed" => \A d \in Machine : pc[d] = "idle"

(* The entries of the argument that have a place, or never needed one.      *)
placed(d) == { i \in 1 .. Len(set[d]) : set[d][i] \in nodes(initial) \/ i < j[d] }

(* The pairs so far: the matching and one pair for each entry passed that   *)
(* it left over, at positions that the matching left over.                  *)
PairsInv(d) ==
  /\ elements(set[d]) = committee
  /\ j[d] \in 1 .. Len(set[d]) + 1
  /\ nodes(res[d]) = nodes(initial) \cup { set[d][i] : i \in { i \in 1 .. Len(set[d]) : i < j[d] } }
  /\ OnePerPlace(res[d])
  /\ unassigned_positions[d] = Position \ places(res[d])
  /\ Cardinality(res[d]) <= Cardinality(placed(d))
  /\ initial \subseteq res[d]
  /\ \A e \in res[d] \ initial : e[1] \notin nodes(initial) /\ e[2] \notin places(initial)

key(R, i) ==
  [id |-> sorted(R, i)[1], position |-> sorted(R, i)[2],
   fresh |-> sorted(R, i)[2] \notin lag_pks[sorted(R, i)[1]]]

(* What a call has come to.                                                 *)
CallInv(d) ==
  /\ pc[d] = "idle" => j[d] = 0
  /\ pc[d] # "idle" => PairsInv(d)
  /\ pc[d] \in {"build", "done"} => nodes(res[d]) = committee
  /\ pc[d] = "panic" => Len(set[d]) > crs_n
  /\ pc[d] = "done" => agg_pks[d] = [i \in 0 .. Cardinality(res[d]) - 1 |-> key(res[d], i)]
  /\ pc[d] # "done" => agg_pks[d] = EmptyKey

IInv == Types /\ SysInv /\ \A d \in Machine : CallInv(d)

LEMMA MatchingFacts ==
  ASSUME Types, SysInv, sys_pc = "agreed"
  PROVE  /\ IsMatching(initial) /\ initial \subseteq edges(committee)
         /\ edges(committee) \in SUBSET (Node \X Position)
         /\ nodes(initial) \subseteq committee
         /\ OnePerPlace(initial)
         /\ assigned_nodes = nodes(initial) /\ assigned_positions = places(initial)
<1>1. IsMatching(initial) /\ initial \subseteq edges(committee)
  BY DEF SysInv, maximum_matchings
<1>2. edges(committee) \in SUBSET (Node \X Position)
  BY DEF edges, Types
<1>3. nodes(initial) \subseteq committee
  BY <1>1 DEF nodes, edges
<1>4. OnePerPlace(initial)
  BY <1>1 DEF IsMatching, OnePerPlace
<1> QED
  BY <1>1, <1>2, <1>3, <1>4 DEF assigned_nodes, assigned_positions, nodes, places

LEMMA InitIInv == Init => IInv
<1> SUFFICES ASSUME Init PROVE IInv
  OBVIOUS
<1>1. Cardinality({}) = 0
  BY FS_EmptySet
<1>2. 0 \in 0 .. m /\ 0 <= k /\ <<>> \in Seq(Node) /\ 0 .. 0 - 1 = {}
  BY CommitteeAssumption
<1>3. Types
  <2>1. lag_pks \in [0 .. done - 1 -> SUBSET Position]
    BY <1>2 DEF Init, EmptyKey
  <2>2. sys_pc = "sample" /\ sampled \in SUBSET Position /\ Cardinality(sampled) <= k /\ done \in 0 .. m
    BY <1>1, <1>2 DEF Init
  <2>3. committee \in SUBSET Node /\ initial \in SUBSET (Node \X Position)
    BY DEF Init
  <2>4. /\ pc \in [Machine -> {"idle", "assign", "build", "done", "panic"}]
        /\ set \in [Machine -> Seq(Node)] /\ j \in [Machine -> Nat]
        /\ unassigned_positions \in [Machine -> SUBSET Position]
        /\ res \in [Machine -> SUBSET (Node \X Position)]
    BY <1>2 DEF Init
  <2>5. agg_pks = [d \in Machine |-> agg_pks[d]]
    BY DEF Init
  <2> QED
    BY <2>1, <2>2, <2>3, <2>4, <2>5 DEF Types
<1>4. SysInv /\ \A d \in Machine : CallInv(d)
  BY DEF Init, SysInv, CallInv
<1> QED
  BY <1>3, <1>4 DEF IInv

(* A step of the set-up leaves no call that could be disturbed.             *)
LEMMA SetUpKeepsCalls ==
  ASSUME IInv, sys_pc # "agreed", UNCHANGED callVars
  PROVE  \A d \in Machine : CallInv(d)'
BY DEF IInv, SysInv, CallInv, callVars

(* A call does not disturb that of another machine.                         *)
LEMMA OtherCalls ==
  ASSUME IInv, UNCHANGED sysVars, NEW d \in Machine,
         pc'[d] = pc[d], set'[d] = set[d], j'[d] = j[d], res'[d] = res[d],
         unassigned_positions'[d] = unassigned_positions[d], agg_pks'[d] = agg_pks[d]
  PROVE  CallInv(d)'
<1>1. lag_pks' = lag_pks /\ committee' = committee /\ initial' = initial
  BY DEF sysVars
<1>2. placed(d)' = placed(d)
  BY <1>1 DEF placed
<1>3. PairsInv(d) => PairsInv(d)'
  BY <1>1, <1>2 DEF PairsInv
<1>4. \A i : key(res[d], i)' = key(res[d], i)
  BY <1>1 DEF key
<1>5. [i \in 0 .. Cardinality(res[d]) - 1 |-> key(res[d], i)]' =
      [i \in 0 .. Cardinality(res[d]) - 1 |-> key(res[d], i)]
  BY <1>4
<1> QED
  BY <1>1, <1>3, <1>5 DEF IInv, CallInv

(* The pairs after the j-th entry has been given the position p.            *)
LEMMA OneMorePair ==
  ASSUME IInv, NEW d \in Machine, pc[d] = "assign",
         j[d] <= Len(set[d]), set[d][j[d]] \notin nodes(initial), j[d] \in 1 .. Len(set[d]),
         NEW p \in unassigned_positions[d],
         UNCHANGED sysVars, set'[d] = set[d], j'[d] = j[d] + 1,
         res'[d] = res[d] \cup {<<set[d][j[d]], p>>},
         unassigned_positions'[d] = unassigned_positions[d] \ {p}
  PROVE  PairsInv(d)'
<1> DEFINE e == <<set[d][j[d]], p>>
<1> USE DEF IInv, Types
<1>1. PairsInv(d)
  BY DEF CallInv
<1>2. e \notin res[d] /\ p \notin places(initial) /\ p \notin places(res[d])
  BY <1>1 DEF PairsInv, places
<1>3. OnePerPlace(res'[d])
  BY <1>1, <1>2 DEF PairsInv, OnePerPlace, places
<1>4. unassigned_positions'[d] = Position \ places(res'[d])
  <2>1. places(res'[d]) = places(res[d]) \cup {p}
    <3>1. res'[d] = res[d] \cup {e} /\ e[2] = p
      OBVIOUS
    <3> HIDE DEF e
    <3>2. places(res[d] \cup {e}) = places(res[d]) \cup {e[2]}
      BY AddPair
    <3> QED
      BY <3>1, <3>2
  <2> QED
    BY <1>1, <2>1 DEF PairsInv
<1>5. nodes(res'[d]) = nodes(res[d]) \cup {set[d][j[d]]}
  <2>1. res'[d] = res[d] \cup {e} /\ e[1] = set[d][j[d]]
    OBVIOUS
  <2> HIDE DEF e
  <2>2. nodes(res[d] \cup {e}) = nodes(res[d]) \cup {e[1]}
    BY AddPair
  <2> QED
    BY <2>1, <2>2
<1>6. { i \in 1 .. Len(set[d]) : i < j[d] + 1 } = { i \in 1 .. Len(set[d]) : i < j[d] } \cup {j[d]}
  OBVIOUS
<1>7. placed(d)' = placed(d) \cup {j[d]} /\ j[d] \notin placed(d)
  BY DEF placed, sysVars
<1>8. IsFiniteSet(placed(d)) /\ IsFiniteSet(res[d])
  <2>1. IsFiniteSet(1 .. Len(set[d])) /\ placed(d) \in SUBSET (1 .. Len(set[d]))
    BY Entries DEF placed
  <2> QED
    BY <2>1, Finite, FS_Subset
<1>9. Cardinality(res'[d]) <= Cardinality(placed(d)')
  <2>1. Cardinality(res'[d]) = Cardinality(res[d]) + 1
    <3>1. res'[d] = res[d] \cup {e}
      OBVIOUS
    <3> HIDE DEF e
    <3>2. IsFiniteSet(res[d]) /\ e \notin res[d]
      BY <1>2, <1>8
    <3>3. Cardinality(res[d] \cup {e}) = Cardinality(res[d]) + 1
      BY <3>2, FS_AddElement
    <3> QED
      BY <3>1, <3>3
  <2>2. Cardinality(placed(d)') = Cardinality(placed(d)) + 1
    BY <1>7, <1>8, FS_AddElement
  <2>3. Cardinality(placed(d)) \in Nat /\ Cardinality(res[d]) \in Nat
    BY <1>8, FS_CardinalityType
  <2> QED
    BY <1>1, <2>1, <2>2, <2>3 DEF PairsInv
<1>10. elements(set[d])' = committee' /\ (j[d] \in 1 .. Len(set[d]) + 1)'
  BY <1>1 DEF PairsInv, sysVars
<1>11. /\ (initial \subseteq res[d])'
       /\ \A f \in res'[d] \ initial' : f[1] \notin nodes(initial') /\ f[2] \notin places(initial')
  BY <1>1, <1>2 DEF PairsInv, sysVars
<1>12. nodes(res'[d]) =
         nodes(initial') \cup { set'[d][i] : i \in { i \in 1 .. Len(set'[d]) : i < j'[d] } }
  <2> DEFINE earlier == { i \in 1 .. Len(set[d]) : i < j[d] }
  <2>1. { i \in 1 .. Len(set'[d]) : i < j'[d] } = earlier \cup {j[d]}
    BY <1>6
  <2>2. { set'[d][i] : i \in earlier \cup {j[d]} } = { set[d][i] : i \in earlier } \cup {set[d][j[d]]}
    OBVIOUS
  <2>3. nodes(res[d]) = nodes(initial) \cup { set[d][i] : i \in earlier } /\ initial' = initial
    BY <1>1 DEF PairsInv, sysVars
  <2> HIDE DEF earlier
  <2> QED
    BY <1>5, <2>1, <2>2, <2>3
<1> QED
  BY <1>3, <1>4, <1>9, <1>10, <1>11, <1>12 DEF PairsInv

(* The loop that places the leftovers finds no position only when the       *)
(* argument is longer than n.                                               *)
LEMMA NoneLeft ==
  ASSUME IInv, NEW d \in Machine, pc[d] = "assign", j[d] \in 1 .. Len(set[d]),
         set[d][j[d]] \notin nodes(initial), unassigned_positions[d] = {}
  PROVE  Len(set[d]) > crs_n
<1> USE DEF IInv, Types
<1>1. PairsInv(d)
  BY DEF CallInv
<1>2. places(res[d]) = Position
  <2>1. places(res[d]) \subseteq Position
    BY DEF places
  <2> QED
    BY <1>1, <2>1 DEF PairsInv
<1>3. Cardinality(res[d]) = crs_n
  BY <1>1, <1>2, AtMostN DEF PairsInv
<1>4. Len(set[d]) \in Nat /\ IsFiniteSet(1 .. Len(set[d])) /\ Cardinality(1 .. Len(set[d])) = Len(set[d])
  BY Entries
<1>5. placed(d) \in SUBSET (1 .. Len(set[d])) /\ j[d] \notin placed(d)
  BY DEF placed
<1>6. Cardinality(placed(d)) <= Len(set[d]) /\ Cardinality(placed(d)) # Len(set[d])
  BY <1>4, <1>5, FS_Subset
<1>7. Cardinality(placed(d)) \in Nat /\ crs_n \in Nat
  BY <1>4, <1>5, FS_Subset, FS_CardinalityType, CommitteeAssumption
<1> QED
  BY <1>1, <1>3, <1>4, <1>6, <1>7 DEF PairsInv

LEMMA StepIInv == IInv /\ [Next]_vars => IInv'
<1> SUFFICES ASSUME IInv, [Next]_vars
             PROVE  IInv'
  OBVIOUS
<1> USE DEF IInv
<1>1. ASSUME NEW value \in Position, Sample(value)
      PROVE  IInv'
  <2>1. Cardinality(sampled') <= k /\ sampled' \in SUBSET Position
    <3>1. IsFiniteSet(sampled) /\ Cardinality(sampled) \in Nat
      BY Finite, FS_Subset, FS_CardinalityType DEF Types
    <3>2. Cardinality(sampled) < k /\ sampled' = sampled \cup {value}
      BY <1>1 DEF Sample
    <3>3. Cardinality(sampled') = IF value \in sampled THEN Cardinality(sampled) ELSE Cardinality(sampled) + 1
      BY <3>1, <3>2, FS_AddElement
    <3>4. Cardinality(sampled') \in Nat
      BY <3>1, <3>2, FS_AddElement, FS_CardinalityType
    <3> QED
      BY <1>1, <3>1, <3>2, <3>3, <3>4, CommitteeAssumption DEF Types
  <2>2. Types'
    BY <1>1, <2>1 DEF Types, Sample, callVars
  <2>3. SysInv'
    BY <1>1 DEF SysInv, Sample, callVars
  <2>4. \A d \in Machine : CallInv(d)'
    BY <1>1, SetUpKeepsCalls DEF Sample
  <2> QED
    BY <2>2, <2>3, <2>4
<1>2. ASSUME PushRow
      PROVE  IInv'
  <2>1. done' \in 0 .. m /\ 0 .. done' - 1 = 0 .. done
    BY <1>2, CommitteeAssumption DEF PushRow, Types
  <2>2. lag_pks' \in [0 .. done' - 1 -> SUBSET Position]
    BY <1>2, <2>1 DEF PushRow, Types
  <2>3. Cardinality(sampled') <= k /\ sampled' \in SUBSET Position
    BY <1>2, FS_EmptySet, CommitteeAssumption DEF PushRow
  <2>4. Types'
    BY <1>2, <2>1, <2>2, <2>3 DEF PushRow, Types, callVars
  <2>5. SysInv'
    BY <1>2 DEF SysInv, PushRow, callVars
  <2>6. \A d \in Machine : CallInv(d)'
    BY <1>2, SetUpKeepsCalls DEF PushRow
  <2> QED
    BY <2>4, <2>5, <2>6
<1>3. ASSUME KeysPublished
      PROVE  IInv'
  <2>1. Types'
    BY <1>3 DEF KeysPublished, Types, callVars
  <2>2. SysInv'
    BY <1>3 DEF SysInv, KeysPublished, callVars
  <2>3. \A d \in Machine : CallInv(d)'
    BY <1>3, SetUpKeepsCalls DEF KeysPublished
  <2> QED
    BY <2>1, <2>2, <2>3
<1>4. ASSUME NEW C \in SUBSET Node, AgreeOnCommittee(C)
      PROVE  IInv'
  <2>1. initial' \in maximum_matchings(edges(C)) /\ edges(C)' = edges(C)
    BY <1>4 DEF AgreeOnCommittee, edges
  <2>2. initial' \in SUBSET (Node \X Position)
    BY <2>1 DEF maximum_matchings, edges
  <2>3. Types'
    BY <1>4, <2>2 DEF AgreeOnCommittee, Types, callVars
  <2>4. SysInv'
    BY <1>4, <2>1 DEF SysInv, AgreeOnCommittee, callVars, edges
  <2>5. \A d \in Machine : CallInv(d)'
    BY <1>4, SetUpKeepsCalls DEF AgreeOnCommittee
  <2> QED
    BY <2>3, <2>4, <2>5
<1>5. ASSUME NEW d \in Machine, NEW s \in vectors, get_aggregate_key(d, s)
      PROVE  IInv'
  <2>1. s \in Seq(Node) /\ sys_pc = "agreed" /\ pc[d] = "idle" /\ elements(s) = committee
        /\ UNCHANGED <<sysVars, agg_pks>>
    BY <1>5, CommitteeAssumption DEF vectors, get_aggregate_key
  <2>2. /\ IsMatching(initial) /\ nodes(initial) \subseteq committee /\ OnePerPlace(initial)
        /\ assigned_positions = places(initial)
    BY <2>1, MatchingFacts
  <2>3. Types'
    BY <1>5, <2>1 DEF get_aggregate_key, Types, sysVars
  <2>4. SysInv'
    BY <2>1 DEF SysInv, sysVars, edges
  <2>5. pc'[d] = "assign" /\ set'[d] = s /\ j'[d] = 1 /\ res'[d] = initial
        /\ unassigned_positions'[d] = Position \ places(initial)
    BY <1>5, <2>2 DEF get_aggregate_key, Types
  <2>6. PairsInv(d)'
    <3>1. { i \in 1 .. Len(s) : i < 1 } = {}
      OBVIOUS
    <3>2. nodes(initial) = nodes(initial) \cup { s[i] : i \in { i \in 1 .. Len(s) : i < 1 } }
      BY <3>1
    <3>3. { i \in 1 .. Len(s) : s[i] \in nodes(initial) \/ i < 1 } =
          { i \in 1 .. Len(s) : s[i] \in nodes(initial) }
      OBVIOUS
    <3>4. placed(d)' = { i \in 1 .. Len(s) : s[i] \in nodes(initial) }
      BY <2>1, <2>5, <3>3 DEF placed, sysVars
    <3>5. Cardinality(initial) <= Cardinality(placed(d)')
      BY <2>1, <2>2, <3>4, MatchedEntries DEF Types
    <3>6. 1 <= Len(s) + 1
      BY <2>1
    <3>7. initial' = initial /\ committee' = committee
      BY <2>1 DEF sysVars
    <3> QED
      BY <2>1, <2>2, <2>5, <3>2, <3>5, <3>6, <3>7 DEF PairsInv
  <2>7. CallInv(d)'
    BY <2>1, <2>5, <2>6 DEF CallInv
  <2>8. \A e \in Machine \ {d} : CallInv(e)'
    BY <1>5, <2>1, OtherCalls DEF get_aggregate_key, Types
  <2> QED
    BY <2>3, <2>4, <2>7, <2>8
<1>6. ASSUME NEW d \in Machine, SkipAssigned(d)
      PROVE  IInv'
  <2>1. pc[d] = "assign" /\ UNCHANGED <<sysVars, pc, set, unassigned_positions, res, agg_pks>>
        /\ sys_pc = "agreed"
    BY <1>6 DEF SkipAssigned, SysInv
  <2>2. set[d][j[d]] \in nodes(initial) /\ j'[d] = j[d] + 1 /\ j[d] <= Len(set[d])
        /\ \A e \in Machine \ {d} : j'[e] = j[e]
    BY <1>6, <2>1, MatchingFacts DEF SkipAssigned, Types
  <2>3. Types'
    BY <1>6, <2>1 DEF SkipAssigned, Types, sysVars
  <2>4. SysInv'
    BY <2>1 DEF SysInv, sysVars, edges
  <2>5. PairsInv(d) /\ j[d] \in Nat /\ Len(set[d]) \in Nat
    BY <2>1 DEF CallInv, Types
  <2>6. placed(d)' = placed(d)
    BY <2>1, <2>2, <2>5 DEF placed, sysVars
  <2>7. { set[d][i] : i \in { i \in 1 .. Len(set[d]) : i < j[d] + 1 } } \ nodes(initial) =
        { set[d][i] : i \in { i \in 1 .. Len(set[d]) : i < j[d] } } \ nodes(initial)
    <3>1. \A i \in 1 .. Len(set[d]) : i < j[d] + 1 <=> i < j[d] \/ i = j[d]
      BY <2>5
    <3> QED
      BY <2>2, <3>1
  <2>8. nodes(res[d]) = nodes(initial) \cup { set[d][i] : i \in { i \in 1 .. Len(set[d]) : i < j[d] + 1 } }
    BY <2>5, <2>7 DEF PairsInv
  <2>9. PairsInv(d)'
    BY <2>1, <2>2, <2>5, <2>6, <2>8 DEF PairsInv, sysVars
  <2>10. CallInv(d)'
    BY <2>1, <2>9 DEF CallInv
  <2>11. \A e \in Machine \ {d} : CallInv(e)'
    BY <2>1, <2>2, OtherCalls
  <2> QED
    BY <2>3, <2>4, <2>10, <2>11
<1>7. ASSUME NEW d \in Machine, AssignNode(d)
      PROVE  IInv'
  <2> DEFINE p == first(unassigned_positions[d])
  <2>1. pc[d] = "assign" /\ UNCHANGED <<sysVars, pc, set, agg_pks>> /\ sys_pc = "agreed"
    BY <1>7 DEF AssignNode, SysInv
  <2>2. set[d][j[d]] \notin nodes(initial) /\ j[d] <= Len(set[d])
    BY <1>7, <2>1, MatchingFacts DEF AssignNode
  <2>3. p \in unassigned_positions[d]
    <3>1. Position \in SUBSET Nat /\ IsFiniteSet(Position) /\ unassigned_positions[d] \in SUBSET Position
      BY Finite DEF Types, Position
    <3>2. unassigned_positions[d] \in SUBSET Nat /\ IsFiniteSet(unassigned_positions[d])
      BY <3>1, FS_Subset
    <3> QED
      BY <1>7, <3>2, FirstInside DEF AssignNode
  <2>4. /\ res'[d] = res[d] \cup {<<set[d][j[d]], p>>}
        /\ unassigned_positions'[d] = unassigned_positions[d] \ {p}
        /\ j'[d] = j[d] + 1
        /\ \A e \in Machine \ {d} :
             j'[e] = j[e] /\ res'[e] = res[e] /\ unassigned_positions'[e] = unassigned_positions[e]
    BY <1>7 DEF AssignNode, Types
  <2>5. j[d] \in 1 .. Len(set[d])
    BY <2>1, <2>2 DEF Types, CallInv, PairsInv
  <2>6. <<set[d][j[d]], p>> \in Node \X Position
    BY <2>3, <2>5 DEF Types
  <2>7. Types'
    <3>1. res' \in [Machine -> SUBSET (Node \X Position)]
      BY <1>7, <2>6 DEF AssignNode, Types
    <3>2. unassigned_positions' \in [Machine -> SUBSET Position] /\ j' \in [Machine -> Nat]
      BY <1>7 DEF AssignNode, Types
    <3> QED
      BY <2>1, <3>1, <3>2 DEF Types, sysVars
  <2>8. SysInv'
    BY <2>1 DEF SysInv, sysVars, edges
  <2>9. PairsInv(d)'
    BY <2>1, <2>2, <2>3, <2>4, <2>5, OneMorePair
  <2>10. CallInv(d)'
    BY <2>1, <2>9 DEF CallInv
  <2>11. \A e \in Machine \ {d} : CallInv(e)'
    BY <2>1, <2>4, OtherCalls
  <2> QED
    BY <2>7, <2>8, <2>10, <2>11
<1>8. ASSUME NEW d \in Machine, NEW v \in {"panic", "build"}, pc[d] = "assign",
             pc' = [pc EXCEPT ![d] = v],
             UNCHANGED <<sysVars, set, j, unassigned_positions, res, agg_pks>>,
             v = "panic" => Len(set[d]) > crs_n,
             v = "build" => nodes(res[d]) = committee
      PROVE  IInv'
  <2>1. Types' /\ SysInv'
    <3>1. pc' \in [Machine -> {"idle", "assign", "build", "done", "panic"}]
      BY <1>8 DEF Types
    <3>2. Types'
      BY <1>8, <3>1 DEF Types, sysVars
    <3> QED
      BY <1>8, <3>2 DEF SysInv, sysVars, edges
  <2>2. pc'[d] = v /\ \A e \in Machine \ {d} : pc'[e] = pc[e]
    BY <1>8 DEF Types
  <2>3. PairsInv(d)'
    BY <1>8 DEF CallInv, PairsInv, placed, sysVars
  <2>4. CallInv(d)'
    BY <1>8, <2>2, <2>3 DEF CallInv, sysVars
  <2>5. \A e \in Machine \ {d} : CallInv(e)'
    BY <1>8, <2>2, OtherCalls
  <2> QED
    BY <2>1, <2>4, <2>5
<1>9. ASSUME NEW d \in Machine, IndexPanic(d)
      PROVE  IInv'
  <2>1. pc[d] = "assign" /\ sys_pc = "agreed"
    BY <1>9 DEF IndexPanic, SysInv
  <2>2. j[d] \in 1 .. Len(set[d])
    BY <1>9, <2>1 DEF IndexPanic, Types, CallInv, PairsInv
  <2>3. Len(set[d]) > crs_n
    BY <1>9, <2>1, <2>2, MatchingFacts, NoneLeft DEF IndexPanic
  <2> QED
    BY <1>8, <1>9, <2>3 DEF IndexPanic
<1>10. ASSUME NEW d \in Machine, AllAssigned(d)
       PROVE  IInv'
  <2>1. pc[d] = "assign" /\ sys_pc = "agreed" /\ j[d] = Len(set[d]) + 1 /\ Len(set[d]) \in Nat
    BY <1>10 DEF AllAssigned, SysInv, Types
  <2>2. { i \in 1 .. Len(set[d]) : i < j[d] } = 1 .. Len(set[d])
    BY <2>1
  <2>3. nodes(res[d]) = nodes(initial) \cup elements(set[d])
    BY <2>1, <2>2 DEF CallInv, PairsInv, elements
  <2>4. nodes(res[d]) = committee
    BY <2>1, <2>3, MatchingFacts DEF CallInv, PairsInv
  <2> QED
    BY <1>8, <1>10, <2>4 DEF AllAssigned
<1>11. ASSUME NEW d \in Machine, BuildKey(d)
       PROVE  IInv'
  <2>1. pc[d] = "build" /\ UNCHANGED <<sysVars, set, j, unassigned_positions, res>>
    BY <1>11 DEF BuildKey
  <2>2. pc'[d] = "done" /\ agg_pks'[d] = [i \in 0 .. Cardinality(res[d]) - 1 |-> key(res[d], i)]
        /\ \A e \in Machine \ {d} : pc'[e] = pc[e] /\ agg_pks'[e] = agg_pks[e]
    BY <1>11 DEF BuildKey, Types, key
  <2>3. Types' /\ SysInv'
    <3>1. pc' \in [Machine -> {"idle", "assign", "build", "done", "panic"}]
          /\ agg_pks' = [e \in Machine |-> agg_pks'[e]]
      BY <1>11 DEF BuildKey, Types
    <3>2. Types'
      BY <2>1, <3>1 DEF Types, sysVars
    <3> QED
      BY <2>1, <2>2, <3>2 DEF SysInv, sysVars, edges
  <2>4. CallInv(d)'
    <3>1. PairsInv(d)'
      BY <2>1 DEF CallInv, PairsInv, placed, sysVars
    <3>2. \A i : key(res[d], i)' = key(res[d], i)
      BY <2>1 DEF key, sysVars
    <3> QED
      BY <2>1, <2>2, <3>1, <3>2 DEF CallInv, sysVars, key
  <2>5. \A e \in Machine \ {d} : CallInv(e)'
    BY <2>1, <2>2, OtherCalls
  <2> QED
    BY <2>3, <2>4, <2>5
<1>12. CASE UNCHANGED vars
  <2>1. UNCHANGED sysVars /\ UNCHANGED callVars
    BY <1>12 DEF vars, sysVars, callVars
  <2>2. Types' /\ SysInv'
    BY <2>1 DEF sysVars, callVars, Types, SysInv, edges
  <2>3. \A d \in Machine : CallInv(d)'
    BY <2>1, OtherCalls DEF callVars
  <2> QED
    BY <2>2, <2>3
<1> QED
  BY <1>1, <1>2, <1>3, <1>4, <1>5, <1>6, <1>7, <1>9, <1>10, <1>11, <1>12 DEF Next, call_step

LEMMA Inductive == Spec => []IInv
<1> QED
  BY InitIInv, StepIInv, PTL DEF Spec

-----------------------------------------------------------------------------
(* The theorems                                                             *)

(* What a call that is done has built.                                      *)
LEMMA Built ==
  ASSUME IInv, NEW d \in Machine, pc[d] = "done"
  PROVE  /\ PairsInv(d) /\ nodes(res[d]) = committee /\ sys_pc = "agreed"
         /\ IsFiniteSet(res[d]) /\ Cardinality(res[d]) \in Nat
         /\ DOMAIN agg_pks[d] = 0 .. Cardinality(res[d]) - 1
         /\ \A i \in DOMAIN agg_pks[d] :
              /\ agg_pks[d][i] = key(res[d], i)
              /\ sorted(res[d], i) \in res[d]
              /\ Cardinality(below(res[d], sorted(res[d], i))) = i
<1>1. /\ PairsInv(d) /\ nodes(res[d]) = committee /\ sys_pc = "agreed"
      /\ agg_pks[d] = [i \in 0 .. Cardinality(res[d]) - 1 |-> key(res[d], i)]
  BY DEF IInv, CallInv, SysInv
<1>2. IsFiniteSet(res[d]) /\ \A e \in res[d] : e[2] \in Nat
  BY Finite DEF IInv, Types
<1>3. OnePerPlace(res[d])
  BY <1>1 DEF PairsInv
<1>4. \A i \in 0 .. Cardinality(res[d]) - 1 :
        sorted(res[d], i) \in res[d] /\ Cardinality(below(res[d], sorted(res[d], i))) = i
  BY <1>2, <1>3, SortedInside
<1> QED
  BY <1>1, <1>2, <1>4, FS_CardinalityType

(* Type correctness, for any numbers of parties, positions and keys.        *)
THEOREM CommitteeTypeCorrect == Spec => []TypeOK
<1>1. IInv => TypeOK
  <2> SUFFICES ASSUME IInv
               PROVE  TypeOK
    OBVIOUS
  <2>1. ASSUME NEW d \in Machine
        PROVE  j[d] \in 0 .. Len(set[d]) + 1
    <3>1. Len(set[d]) \in Nat
      BY DEF IInv, Types
    <3>2. pc[d] = "idle" => j[d] = 0
      BY <2>1 DEF IInv, CallInv
    <3>3. pc[d] # "idle" => j[d] \in 1 .. Len(set[d]) + 1
      BY <2>1 DEF IInv, CallInv, PairsInv
    <3> QED
      BY <3>1, <3>2, <3>3
  <2>2. ASSUME NEW d \in Machine, NEW i \in DOMAIN agg_pks[d]
        PROVE  agg_pks[d][i] \in [id : Node, position : Position, fresh : BOOLEAN]
    <3>1. pc[d] = "done"
      BY <2>2 DEF IInv, CallInv, EmptyKey
    <3>2. sorted(res[d], i) \in res[d] /\ agg_pks[d][i] = key(res[d], i)
      BY <2>2, <3>1, Built
    <3>3. sorted(res[d], i) \in Node \X Position
      BY <3>2 DEF IInv, Types
    <3> QED
      BY <3>2, <3>3 DEF key
  <2> QED
    BY <2>1, <2>2 DEF TypeOK, IInv, Types
<1> QED
  BY <1>1, Inductive, PTL

(* A vector that repeats nobody and a committee of n: there is a pair at    *)
(* every position, so that rank and position agree.                         *)
THEOREM FullCommitteesAligned == Spec => []FullCommitteeAligned
<1>1. IInv => FullCommitteeAligned
  <2> SUFFICES ASSUME IInv, NEW d \in Machine, pc[d] = "done", Cardinality(committee) = crs_n
               PROVE  /\ aligned(d)
                      /\ { agg_pks[d][i].id : i \in 0 .. crs_n - 1 } = committee
    BY DEF FullCommitteeAligned
  <2> DEFINE R == res[d]
  <2>1. /\ IsFiniteSet(R) /\ Cardinality(R) \in Nat /\ OnePerPlace(R) /\ nodes(R) = committee
        /\ R \in SUBSET (Node \X Position)
    BY Built DEF PairsInv, IInv, Types
  <2>2. Cardinality(R) = crs_n /\ places(R) = Position
    <3>1. [e \in R |-> e[1]] \in Surjection(R, committee)
      BY <2>1 DEF Surjection, nodes
    <3>2. crs_n <= Cardinality(R)
      BY <2>1, <3>1, FS_Surjection
    <3>3. Cardinality(R) <= crs_n /\ (Cardinality(R) = crs_n => places(R) = Position)
      BY <2>1, AtMostN
    <3> QED
      BY <2>1, <3>2, <3>3, CommitteeAssumption
  <2>3. DOMAIN agg_pks[d] = 0 .. crs_n - 1
    BY <2>2, Built
  <2>4. \A i \in 0 .. crs_n - 1 :
          /\ sorted(R, i) \in R /\ sorted(R, i)[2] = i
          /\ agg_pks[d][i].id = sorted(R, i)[1] /\ agg_pks[d][i].position = i
    <3> SUFFICES ASSUME NEW i \in 0 .. crs_n - 1
                 PROVE  /\ sorted(R, i) \in R /\ sorted(R, i)[2] = i
                        /\ agg_pks[d][i].id = sorted(R, i)[1] /\ agg_pks[d][i].position = i
      OBVIOUS
    <3>1. /\ sorted(R, i) \in R /\ Cardinality(below(R, sorted(R, i))) = i
          /\ agg_pks[d][i] = key(R, i)
      BY <2>3, Built
    <3>2. crs_n \in Nat /\ places(R) = 0 .. crs_n - 1
      BY <2>2, CommitteeAssumption DEF Position
    <3>3. Cardinality(below(R, sorted(R, i))) = sorted(R, i)[2]
      BY <2>1, <3>1, <3>2, RankIsPlace
    <3> QED
      BY <3>1, <3>3 DEF key
  <2>5. ASSUME NEW c \in committee
        PROVE  \E i \in 0 .. crs_n - 1 : agg_pks[d][i].id = c
    <3>1. PICK e \in R : e[1] = c
      BY <2>1, <2>5 DEF nodes
    <3>2. e[2] \in 0 .. crs_n - 1
      BY <2>2, <3>1 DEF places, Position
    <3>3. sorted(R, e[2]) = e
      BY <2>1, <2>4, <3>1, <3>2 DEF OnePerPlace
    <3> QED
      BY <2>4, <3>1, <3>2, <3>3
  <2>6. \A i \in 0 .. crs_n - 1 : agg_pks[d][i].id \in committee
    BY <2>1, <2>4 DEF nodes
  <2> QED
    BY <2>3, <2>4, <2>5, <2>6 DEF aligned
<1> QED
  BY <1>1, Inductive, PTL

(* The positions run out only for a vector longer than n; a committee of    *)
(* more than n gets no key.                                                 *)
THEOREM OverfullPanics == Spec => []OverfullOnlyPanics
<1>1. IInv => OverfullOnlyPanics
  <2> SUFFICES ASSUME IInv, NEW d \in Machine
               PROVE  /\ pc[d] = "panic" => Len(set[d]) > crs_n
                      /\ pc[d] = "done" => Cardinality(committee) <= crs_n
    BY DEF OverfullOnlyPanics
  <2>1. pc[d] = "panic" => Len(set[d]) > crs_n
    BY DEF IInv, CallInv
  <2>2. ASSUME pc[d] = "done"
        PROVE  Cardinality(committee) <= crs_n
    <3>1. /\ IsFiniteSet(res[d]) /\ OnePerPlace(res[d]) /\ nodes(res[d]) = committee
          /\ res[d] \in SUBSET (Node \X Position)
      BY <2>2, Built DEF PairsInv, IInv, Types
    <3>2. [e \in res[d] |-> e[1]] \in Surjection(res[d], committee)
      BY <3>1 DEF Surjection, nodes
    <3>3. IsFiniteSet(committee) /\ Cardinality(committee) <= Cardinality(res[d])
      BY <3>1, <3>2, FS_Surjection
    <3>4. Cardinality(res[d]) \in Nat /\ Cardinality(res[d]) <= crs_n
      BY <3>1, AtMostN
    <3>5. Cardinality(committee) \in Nat
      BY <3>3, FS_CardinalityType
    <3> QED
      BY <3>3, <3>4, <3>5, CommitteeAssumption
  <2> QED
    BY <2>1, <2>2
<1> QED
  BY <1>1, Inductive, PTL

(* Because the matching is maximum, a member it leaves over never has a     *)
(* published key for the position it is given.                              *)
THEOREM LeftoversRecomputed == Spec => []OnlyLeftoversRecomputed
<1>1. IInv => OnlyLeftoversRecomputed
  <2> SUFFICES ASSUME IInv, NEW d \in Machine, pc[d] = "done", NEW i \in DOMAIN agg_pks[d]
               PROVE  agg_pks[d][i].fresh <=> agg_pks[d][i].id \notin assigned_nodes
    BY DEF OnlyLeftoversRecomputed
  <2> DEFINE e == sorted(res[d], i)
  <2>1. PairsInv(d) /\ nodes(res[d]) = committee /\ sys_pc = "agreed" /\ e \in res[d]
    BY Built
  <2>2. agg_pks[d][i].id = e[1] /\ (agg_pks[d][i].fresh <=> e[2] \notin lag_pks[e[1]])
    <3>1. agg_pks[d][i] = key(res[d], i)
      BY Built
    <3>2. /\ key(res[d], i).id = sorted(res[d], i)[1]
          /\ key(res[d], i).fresh <=> sorted(res[d], i)[2] \notin lag_pks[sorted(res[d], i)[1]]
      BY Zenon DEF key
    <3> QED
      BY <3>1, <3>2
  <2>3. /\ initial \subseteq edges(committee) /\ assigned_nodes = nodes(initial)
        /\ edges(committee) \in SUBSET (Node \X Position)
        /\ initial \in maximum_matchings(edges(committee))
    BY <2>1, MatchingFacts DEF IInv, SysInv
  <2> HIDE DEF e
  <2>4. CASE e \in initial
    <3>1. e[1] \in nodes(initial)
      BY <2>4 DEF nodes
    <3>2. e[2] \in lag_pks[e[1]]
      BY <2>3, <2>4 DEF edges
    <3> QED
      BY <2>2, <2>3, <3>1, <3>2
  <2>5. CASE e \notin initial
    <3>1. e[1] \notin nodes(initial) /\ e[2] \notin places(initial)
      BY <2>1, <2>5 DEF PairsInv
    <3>2. e \notin edges(committee)
      BY <2>3, <3>1, LeftoversUnrelated
    <3>3. e \in Node \X Position /\ e[1] \in committee
      BY <2>1 DEF IInv, Types, nodes
    <3>4. e \in committee \X Position
      BY <3>3
    <3>5. e[2] \notin lag_pks[e[1]]
      BY <3>2, <3>4 DEF edges
    <3> QED
      BY <2>2, <2>3, <3>1, <3>5
  <2> QED
    BY <2>4, <2>5
<1> QED
  BY <1>1, Inductive, PTL
=============================================================================
