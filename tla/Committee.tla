------------------------------ MODULE Committee ------------------------------
(***************************************************************************)
(* The keys of a committee: SystemPublicKeys::new and get_aggregate_key of *)
(* src/src/ste/aggregate.rs.                                               *)
(*                                                                         *)
(* Every party publishes keys for k positions drawn at random.  Later      *)
(* several machines, those that encrypt and the one that decrypts, each    *)
(* compute the aggregate key of one and the same committee: a maximum      *)
(* matching of its members with their positions, the members left over     *)
(* on the positions left over, and for each of them a key for its position.*)
(* A key is represented by its party and its position.                     *)
(***************************************************************************)
EXTENDS Integers, Sequences, FiniteSets

CONSTANTS
  m,         \* parties of the system, 0..m-1
  crs_n,     \* positions 0..crs_n-1: the n of the reference string
  k,         \* positions for which a party publishes a key
  Machine,   \* the machines that aggregate
  MaxSet     \* bounds the length of the argument `set` of get_aggregate_key

ASSUME CommitteeAssumption ==
  /\ m \in Nat /\ crs_n \in Nat \ {0} /\ MaxSet \in Nat
  /\ k \in 0 .. crs_n      \* for a larger k the sampling loop never ends

Node == 0 .. m - 1
Position == 0 .. crs_n - 1

VARIABLES
  sys_pc,        \* "sample": the loops of SystemPublicKeys::new; "ready"; "agreed"
  sampled,       \* the positions of the row under construction
  done,          \* the rows that are complete: those of the parties 0..done-1
  lag_pks,       \* the positions of each party's keys, a function on 0..done-1
  committee,     \* the subset the machines agreed on
  initial,       \* matching(&edges): what the external library returns for it
  pc,            \* each machine: "idle", "assign", "build", "done" or "panic"
  set,           \* its argument: the committee as a vector
  j,             \* the entry of set looked at next
  unassigned_positions,
  res,           \* pairs <<node, position>>
  agg_pks        \* AggregateKey.lag_pks, a function on 0..len-1

sysVars == <<sys_pc, sampled, done, lag_pks, committee, initial>>
callVars == <<pc, set, j, unassigned_positions, res, agg_pks>>
vars == <<sysVars, callVars>>

EmptyKey == [i \in {} |-> 0]

Init ==
  /\ sys_pc = "sample"
  /\ sampled = {}
  /\ done = 0
  /\ lag_pks = EmptyKey
  /\ committee = {}
  /\ initial = {}
  /\ pc = [d \in Machine |-> "idle"]
  /\ set = [d \in Machine |-> <<>>]
  /\ j = [d \in Machine |-> 0]
  /\ unassigned_positions = [d \in Machine |-> {}]
  /\ res = [d \in Machine |-> {}]
  /\ agg_pks = [d \in Machine |-> EmptyKey]

elements(s) == { s[i] : i \in 1 .. Len(s) }

-----------------------------------------------------------------------------
(* SystemPublicKeys::new                                                    *)

(* Mutants: the row gets one value more than k; and the test for a repeated *)
(* value is the wrong way round.                                            *)
Sample_one_more(value) ==
  /\ sys_pc = "sample"
  /\ done < m /\ Cardinality(sampled) <= k
  /\ sampled' = sampled \cup {value}
  /\ UNCHANGED <<sys_pc, done, lag_pks, committee, initial, callVars>>

Sample_only_repeated(value) ==
  /\ sys_pc = "sample"
  /\ done < m /\ Cardinality(sampled) < k
  /\ sampled' = IF value \in sampled THEN sampled \cup {value} ELSE sampled
  /\ UNCHANGED <<sys_pc, done, lag_pks, committee, initial, callVars>>

(* One draw of the loop `while sampled.len() < k`: a value drawn before     *)
(* changes nothing.  The order in a row is never used.                      *)
Sample(value) ==
  /\ sys_pc = "sample"
  /\ done < m /\ Cardinality(sampled) < k
  /\ sampled' = sampled \cup {value}
  /\ UNCHANGED <<sys_pc, done, lag_pks, committee, initial, callVars>>

PushRow ==
  /\ sys_pc = "sample"
  /\ done < m /\ Cardinality(sampled) = k
  /\ lag_pks' = [node \in 0 .. done |-> IF node = done THEN sampled ELSE lag_pks[node]]
  /\ done' = done + 1
  /\ sampled' = {}
  /\ UNCHANGED <<sys_pc, committee, initial, callVars>>

KeysPublished ==
  /\ sys_pc = "sample"
  /\ done = m
  /\ sys_pc' = "ready"
  /\ UNCHANGED <<sampled, done, lag_pks, committee, initial, callVars>>

-----------------------------------------------------------------------------
(* get_aggregate_key                                                        *)

edges(C) == { e \in C \X Position : e[2] \in lag_pks[e[1]] }

IsMatching(M) ==
  \A e, f \in M : e # f => e[1] # f[1] /\ e[2] # f[2]

(* The external matching function: it returns some matching of maximum      *)
(* size, here the same one to every machine.                                *)
maximum_matchings(E) ==
  { M \in SUBSET E : /\ IsMatching(M)
                     /\ \A N \in SUBSET E : IsMatching(N) => Cardinality(N) <= Cardinality(M) }

AgreeOnCommittee(C) ==
  /\ sys_pc = "ready"
  /\ sys_pc' = "agreed"
  /\ committee' = C
  /\ initial' \in maximum_matchings(edges(C))
  /\ UNCHANGED <<sampled, done, lag_pks, callVars>>

(* Mutant: the matched nodes are not noted.                                 *)
assigned_nodes_empty == {}

assigned_nodes == { e[1] : e \in initial }

assigned_positions == { e[2] : e \in initial }

get_aggregate_key(d, s) ==
  /\ sys_pc = "agreed"
  /\ pc[d] = "idle"
  /\ elements(s) = committee
  /\ pc' = [pc EXCEPT ![d] = "assign"]
  /\ set' = [set EXCEPT ![d] = s]
  /\ j' = [j EXCEPT ![d] = 1]
  /\ res' = [res EXCEPT ![d] = initial]
  /\ unassigned_positions' = [unassigned_positions EXCEPT ![d] = Position \ assigned_positions]
  /\ UNCHANGED <<sysVars, agg_pks>>

(* The vector is ascending: its entry 0 is the least.                       *)
first(P) == CHOOSE p \in P : \A q \in P : p <= q

SkipAssigned(d) ==
  /\ pc[d] = "assign"
  /\ j[d] <= Len(set[d])
  /\ set[d][j[d]] \in assigned_nodes
  /\ j' = [j EXCEPT ![d] = @ + 1]
  /\ UNCHANGED <<sysVars, pc, set, unassigned_positions, res, agg_pks>>

(* assigned_nodes is not extended, so a repeated entry is assigned again.   *)
AssignNode(d) ==
  /\ pc[d] = "assign"
  /\ j[d] <= Len(set[d])
  /\ set[d][j[d]] \notin assigned_nodes
  /\ unassigned_positions[d] # {}
  /\ res' = [res EXCEPT ![d] = @ \cup {<<set[d][j[d]], first(unassigned_positions[d])>>}]
  /\ unassigned_positions' = [unassigned_positions EXCEPT ![d] = @ \ {first(@)}]
  /\ j' = [j EXCEPT ![d] = @ + 1]
  /\ UNCHANGED <<sysVars, pc, set, agg_pks>>

(* unassigned_positions[0] of an empty vector.                              *)
IndexPanic(d) ==
  /\ pc[d] = "assign"
  /\ j[d] <= Len(set[d])
  /\ set[d][j[d]] \notin assigned_nodes
  /\ unassigned_positions[d] = {}
  /\ pc' = [pc EXCEPT ![d] = "panic"]
  /\ UNCHANGED <<sysVars, set, j, unassigned_positions, res, agg_pks>>

AllAssigned(d) ==
  /\ pc[d] = "assign"
  /\ j[d] = Len(set[d]) + 1
  /\ pc' = [pc EXCEPT ![d] = "build"]
  /\ UNCHANGED <<sysVars, set, j, unassigned_positions, res, agg_pks>>

(* Mutant: sorted by the first element of the pairs.                        *)
sorted_by_node(R, i) ==
  CHOOSE e \in R :
    Cardinality({ f \in R : f[1] < e[1] \/ (f[1] = e[1] /\ f[2] < e[2]) }) = i

(* The pair at index i once the pairs are sorted by position.               *)
sorted(R, i) == CHOOSE e \in R : Cardinality({ f \in R : f[2] < e[2] }) = i

(* Mutant: m is not subtracted from the positions before the search.        *)
BuildKey_offset(d) ==
  /\ pc[d] = "build"
  /\ agg_pks' =
       [agg_pks EXCEPT ![d] =
          [i \in 0 .. Cardinality(res[d]) - 1 |->
             LET e == sorted(res[d], i)
             IN  [id |-> e[1], position |-> e[2],
                  fresh |-> m + e[2] \notin lag_pks[e[1]]]]]
  /\ pc' = [pc EXCEPT ![d] = "done"]
  /\ UNCHANGED <<sysVars, set, j, unassigned_positions, res>>

(* A published key is used where there is one for the position; elsewhere   *)
(* a fresh one is computed from the party's public key.                     *)
BuildKey(d) ==
  /\ pc[d] = "build"
  /\ agg_pks' =
       [agg_pks EXCEPT ![d] =
          [i \in 0 .. Cardinality(res[d]) - 1 |->
             LET e == sorted(res[d], i)
             IN  [id |-> e[1], position |-> e[2],
                  fresh |-> e[2] \notin lag_pks[e[1]]]]]
  /\ pc' = [pc EXCEPT ![d] = "done"]
  /\ UNCHANGED <<sysVars, set, j, unassigned_positions, res>>

vectors == UNION { [1 .. len -> Node] : len \in 0 .. MaxSet }

call_step(d) ==
  SkipAssigned(d) \/ AssignNode(d) \/ IndexPanic(d) \/ AllAssigned(d) \/ BuildKey(d)

Next ==
  \/ \E value \in Position : Sample(value)
  \/ PushRow \/ KeysPublished
  \/ \E C \in SUBSET Node : AgreeOnCommittee(C)
  \/ \E d \in Machine : call_step(d) \/ \E s \in vectors : get_aggregate_key(d, s)

Spec == Init /\ [][Next]_vars

(* The random source draws every position again and again; the calls run    *)
(* in the thread that makes them.                                           *)
FairSpec ==
  /\ Spec
  /\ \A value \in Position : WF_vars(Sample(value))
  /\ WF_vars(PushRow \/ KeysPublished)
  /\ \A d \in Machine : WF_vars(call_step(d))

-----------------------------------------------------------------------------

TypeOK ==
  /\ sys_pc \in {"sample", "ready", "agreed"}
  /\ sampled \subseteq Position /\ Cardinality(sampled) <= k
  /\ done \in 0 .. m
  /\ lag_pks \in [0 .. done - 1 -> SUBSET Position]
  /\ committee \subseteq Node
  /\ initial \subseteq Node \X Position
  /\ \A d \in Machine :
       /\ pc[d] \in {"idle", "assign", "build", "done", "panic"}
       /\ set[d] \in Seq(Node)
       /\ j[d] \in 0 .. Len(set[d]) + 1
       /\ unassigned_positions[d] \subseteq Position
       /\ res[d] \subseteq Node \X Position
       /\ \A i \in DOMAIN agg_pks[d] :
            agg_pks[d][i] \in [id : Node, position : Position, fresh : BOOLEAN]

(* The argument is a subset of indexes: nobody is in it twice.              *)
is_subset(d) == Len(set[d]) = Cardinality(committee)

aligned(d) ==
  /\ DOMAIN agg_pks[d] = 0 .. crs_n - 1
  /\ \A i \in 0 .. crs_n - 1 : agg_pks[d][i].position = i

(* agg_dec takes the index of a key for its position in the domain          *)
(* (ste/decryption.rs:31-37, 75-77), so the keys of a committee of n must   *)
(* come out at all n positions, in their order, each party at exactly one.  *)
FullCommitteeAligned ==
  \A d \in Machine :
    pc[d] = "done" /\ is_subset(d) /\ Cardinality(committee) = crs_n =>
      /\ aligned(d)
      /\ { agg_pks[d][i].id : i \in 0 .. crs_n - 1 } = committee

(* The loop that places the members left over runs out of positions only    *)
(* for an argument longer than n, and a committee larger than n never gets  *)
(* a key (aggregate.rs:170-180).                                            *)
OverfullOnlyPanics ==
  \A d \in Machine :
    /\ pc[d] = "panic" => Len(set[d]) > crs_n
    /\ pc[d] = "done" => Cardinality(committee) <= crs_n

(* What the random positions are for (aggregate.rs:73-76): exactly the      *)
(* members a maximum matching leaves over need a fresh key, because no      *)
(* position left over can be one they have a key for.                       *)
OnlyLeftoversRecomputed ==
  \A d \in Machine :
    pc[d] = "done" =>
      \A i \in DOMAIN agg_pks[d] : agg_pks[d][i].fresh <=> agg_pks[d][i].id \notin assigned_nodes

(* Set-up and every aggregation end: with k positions to be had, a row is   *)
(* filled in the end however often a position is drawn again.               *)
EveryCallEnds ==
  /\ <>(sys_pc # "sample")
  /\ \A d \in Machine : pc[d] = "assign" ~> pc[d] \in {"done", "panic"}

(* The parameter is documented as a "subset of indexes to encrypt to" and   *)
(* the leftovers as "deterministically" assigned (aggregate.rs:142, 158):   *)
(* machines that aggregate one subset get one key.                          *)
SameSubsetSameKey ==
  \A d, e \in Machine :
    pc[d] = "done" /\ pc[e] = "done" /\ is_subset(d) /\ is_subset(e) => agg_pks[d] = agg_pks[e]
=============================================================================
