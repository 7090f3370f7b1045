--------------------------- MODULE MarkersFileProofs --------------------------
(***************************************************************************)
(* What MarkersFile promises for any set of processes and any sizes.       *)
(***************************************************************************)
EXTENDS MarkersFile, TLAPS

holds(p) == pc[p] \in {"create", "write"}

(* Locals: what a process that is not at work has dropped, and what one     *)
(* that creates or writes has built.                                        *)
LocalInv(p) ==
  /\ pc[p] \in over \cup {"begin", "create"} => pos[p] = 1
  /\ pc[p] \in over \cup {"begin"} => table[p] = {}
  /\ holds(p) => image[p] \in orders /\ table[p] = Markers

(* The file holds the first markers of the order s.                         *)
Follows(s) == \A k \in 1 .. Len(file) : file[k] = s[k]

HolderInv == \A p, q \in Process : holds(p) /\ holds(q) => p = q

AbsentInv == (~exists => file = <<>>) /\ \A p \in Process : pc[p] = "create" => ~exists

WriteInv ==
  \A p \in Process : pc[p] = "write" => exists /\ Len(file) = pos[p] - 1 /\ Follows(image[p])

OrderInv == \E s \in orders : Follows(s)

ReadInv ==
  \A p \in Process : pc[p] = "read" =>
    /\ exists
    /\ pos[p] <= Len(file) + 1
    /\ table[p] = {file[k] : k \in 1 .. pos[p] - 1}

DecryptInv == \A p \in Process : pc[p] = "decrypt" => table[p] = Markers

AloneInv == HolderInv /\ AbsentInv /\ WriteInv /\ OrderInv /\ ReadInv /\ DecryptInv

TInv == TypeOK /\ \A p \in Process : LocalInv(p)

IInv == TInv /\ (~raced => AloneInv)

-----------------------------------------------------------------------------

LEMMA WrittenIsFile ==
  ASSUME TInv, NEW p \in Process, pc[p] = "write"
  PROVE  /\ written(p) \in Seq(Markers \cup {Hole})
         /\ Len(written(p)) = larger(Len(file), pos[p])
         /\ Len(written(p)) \in Nat
         /\ Len(written(p)) <= NumBlocks
         /\ Len(file) \in Nat
         /\ \A k \in 1 .. Len(written(p)) :
              written(p)[k] = IF k = pos[p] THEN image[p][k] ELSE IF k <= Len(file) THEN file[k] ELSE Hole
<1> DEFINE len == larger(Len(file), pos[p])
<1>1. Len(file) \in Nat /\ Len(file) <= NumBlocks /\ pos[p] \in 1 .. NumBlocks /\ NumBlocks \in Nat
  BY FileAssumption DEF TInv, TypeOK, NumBlocks
<1>2. len \in Nat /\ len <= NumBlocks
  BY <1>1 DEF larger
<1>3. image[p] \in [1 .. NumBlocks -> Markers]
  BY DEF TInv, LocalInv, holds, orders
<1>4. \A k \in 1 .. Len(file) : file[k] \in Markers \cup {Hole}
  BY DEF TInv, TypeOK
<1>5. written(p) \in [1 .. len -> Markers \cup {Hole}]
  BY <1>1, <1>2, <1>3, <1>4 DEF written
<1>6. written(p) \in Seq(Markers \cup {Hole}) /\ Len(written(p)) = len
  BY <1>2, <1>5
<1> QED
  BY <1>1, <1>2, <1>6 DEF written

(* While nobody has raced, a write appends.                                 *)
LEMMA WriteAppends ==
  ASSUME IInv, ~raced, NEW p \in Process, pc[p] = "write"
  PROVE  /\ Len(written(p)) = pos[p]
         /\ \A k \in 1 .. pos[p] : written(p)[k] = image[p][k]
         /\ \A k \in 1 .. Len(file) : written(p)[k] = file[k]
         /\ Len(file) = pos[p] - 1
         /\ pos[p] \in Nat
<1>1. Len(file) = pos[p] - 1 /\ Follows(image[p]) /\ pos[p] \in Nat
  BY FileAssumption DEF IInv, TInv, TypeOK, AloneInv, WriteInv, NumBlocks
<1>2. Len(written(p)) = pos[p]
  BY <1>1, WrittenIsFile DEF IInv, larger
<1> QED
  BY <1>1, <1>2, WrittenIsFile DEF IInv, Follows

LEMMA InitTInv == Init => TInv
<1>1. 1 \in DOMAIN batch_sizes
  BY SizesAssumption
<1>2. NumBlocks \in Nat \ {0} /\ <<>> \in Seq(Markers \cup {Hole}) /\ Len(<<>>) = 0
  BY FileAssumption DEF NumBlocks
<1>3. ASSUME Init PROVE TypeOK
  <2>1. file \in Seq(Markers \cup {Hole}) /\ Len(file) <= NumBlocks
    BY <1>2, <1>3 DEF Init
  <2>2. round \in [Process -> DOMAIN batch_sizes] /\ pos \in [Process -> 1 .. NumBlocks]
    BY <1>1, <1>2, <1>3 DEF Init
  <2>3. pc \in [Process -> over \cup {"begin", "create", "write", "read", "decrypt"}]
        /\ image \in [Process -> orders \cup {<<>>}] /\ table \in [Process -> SUBSET Markers]
    BY <1>3 DEF Init
  <2>4. exists \in BOOLEAN /\ raced \in BOOLEAN
    BY <1>3, Zenon DEF Init
  <2>5. faults \in 0 .. MaxFaults
    BY <1>3, FileAssumption DEF Init
  <2> QED
    BY <2>1, <2>2, <2>3, <2>4, <2>5 DEF TypeOK
<1>4. ASSUME Init, NEW p \in Process PROVE LocalInv(p)
  BY <1>4 DEF Init, LocalInv, holds
<1> QED
  BY <1>3, <1>4 DEF TInv

(* The types and the locals hold through every step.                        *)
LEMMA StepTInv == TInv /\ [Next]_vars => TInv'
<1> SUFFICES ASSUME TInv, [Next]_vars
             PROVE  TInv'
  OBVIOUS
<1> USE DEF TInv
<1>0. NumBlocks \in Nat \ {0} /\ Len(file) \in Nat /\ <<>> \in Seq(Markers \cup {Hole}) /\ Len(<<>>) = 0
  BY FileAssumption DEF NumBlocks, TypeOK
<1>1. ASSUME NEW p \in Process, NotFound(p)
      PROVE  TInv'
  <2>1. TypeOK'
    BY <1>1 DEF TypeOK, NotFound, over
  <2>2. \A q \in Process : LocalInv(q)'
    BY <1>1 DEF TypeOK, NotFound, over, LocalInv, holds
  <2> QED
    BY <2>1, <2>2
<1>2. ASSUME NEW p \in Process, Found(p)
      PROVE  TInv'
  <2>1. TypeOK'
    BY <1>2 DEF TypeOK, Found, over
  <2>2. \A q \in Process : LocalInv(q)'
    BY <1>2 DEF TypeOK, Found, over, LocalInv, holds
  <2> QED
    BY <2>1, <2>2
<1>3. ASSUME NEW p \in Process, Create(p)
      PROVE  TInv'
  <2>1. TypeOK'
    BY <1>0, <1>3 DEF TypeOK, Create, over
  <2>2. \A q \in Process : LocalInv(q)'
    BY <1>3 DEF TypeOK, Create, over, LocalInv, holds
  <2> QED
    BY <2>1, <2>2
<1>4. ASSUME NEW p \in Process, WriteBlock(p)
      PROVE  TInv'
  <2>1. file' \in Seq(Markers \cup {Hole}) /\ Len(file') <= NumBlocks
    BY <1>4, WrittenIsFile DEF WriteBlock
  <2>2. TypeOK'
    BY <1>0, <1>4, <2>1 DEF TypeOK, WriteBlock, over
  <2>3. \A q \in Process : LocalInv(q)'
    BY <1>4 DEF TypeOK, WriteBlock, over, LocalInv, holds
  <2> QED
    BY <2>2, <2>3
<1>5. ASSUME NEW p \in Process, DropWriter(p)
      PROVE  TInv'
  <2>1. file' \in Seq(Markers \cup {Hole}) /\ Len(file') <= NumBlocks
    BY <1>5, WrittenIsFile DEF DropWriter, TypeOK
  <2>2. faults' \in 0 .. MaxFaults
    BY <1>5, FileAssumption DEF DropWriter, TypeOK
  <2>3. TypeOK'
    BY <1>5, <2>1, <2>2 DEF TypeOK, DropWriter, over
  <2>4. \A q \in Process : LocalInv(q)'
    BY <1>5 DEF TypeOK, DropWriter, over, LocalInv, holds
  <2> QED
    BY <2>3, <2>4
<1>6. ASSUME NEW p \in Process, ReadBlock(p)
      PROVE  TInv'
  <2>1. file[pos[p]] \in Markers \cup {Hole}
    BY <1>0, <1>6 DEF TypeOK, ReadBlock
  <2>2. table' \in [Process -> SUBSET Markers]
    BY <1>6, <2>1 DEF TypeOK, ReadBlock
  <2>3. pos' \in [Process -> 1 .. NumBlocks]
    BY <1>0, <1>6 DEF TypeOK, ReadBlock
  <2>4. pc' \in [Process -> over \cup {"begin", "create", "write", "read", "decrypt"}]
    BY <1>6 DEF TypeOK, ReadBlock
  <2>5. TypeOK'
    BY <1>6, <2>2, <2>3, <2>4 DEF TypeOK, ReadBlock
  <2>6. \A q \in Process : LocalInv(q)'
    BY <1>6 DEF TypeOK, ReadBlock, over, LocalInv, holds
  <2> QED
    BY <2>5, <2>6
<1>7. ASSUME NEW p \in Process, ReadPastEnd(p)
      PROVE  TInv'
  <2>1. TypeOK'
    BY <1>0, <1>7 DEF TypeOK, ReadPastEnd, drop_locals, over
  <2>2. \A q \in Process : LocalInv(q)'
    BY <1>7 DEF TypeOK, ReadPastEnd, drop_locals, over, LocalInv, holds
  <2> QED
    BY <2>1, <2>2
<1>8. ASSUME NEW p \in Process, Decrypt(p)
      PROVE  TInv'
  <2>1. round' \in [Process -> DOMAIN batch_sizes]
    BY <1>8, SizesAssumption DEF TypeOK, Decrypt
  <2>2. pc' \in [Process -> over \cup {"begin", "create", "write", "read", "decrypt"}]
    BY <1>8 DEF TypeOK, Decrypt, over
  <2>3. UNCHANGED <<exists, file, faults, raced>> /\ drop_locals(p)
    BY <1>8 DEF Decrypt
  <2>4. TypeOK'
    BY <1>0, <2>1, <2>2, <2>3 DEF TypeOK, drop_locals
  <2>5. \A q \in Process : LocalInv(q)'
    BY <1>8 DEF TypeOK, Decrypt, drop_locals, over, LocalInv, holds
  <2> QED
    BY <2>4, <2>5
<1>9. ASSUME NEW p \in Process, Abort(p)
      PROVE  TInv'
  <2>1. file' \in Seq(Markers \cup {Hole}) /\ Len(file') <= NumBlocks
    BY <1>9, WrittenIsFile DEF Abort, TypeOK
  <2>2. faults' \in 0 .. MaxFaults
    BY <1>9, FileAssumption DEF Abort, TypeOK
  <2>3. TypeOK'
    BY <1>0, <1>9, <2>1, <2>2 DEF TypeOK, Abort, drop_locals, over
  <2>4. \A q \in Process : LocalInv(q)'
    BY <1>9 DEF TypeOK, Abort, drop_locals, over, LocalInv, holds
  <2> QED
    BY <2>3, <2>4
<1>10. ASSUME NEW p \in Process, Start(p)
       PROVE  TInv'
  <2>1. 1 \in DOMAIN batch_sizes
    BY SizesAssumption
  <2>2. TypeOK'
    BY <1>10, <2>1 DEF TypeOK, Start, over
  <2>3. \A q \in Process : LocalInv(q)'
    BY <1>10 DEF TypeOK, Start, over, LocalInv, holds
  <2> QED
    BY <2>2, <2>3
<1>11. CASE UNCHANGED vars
  BY <1>11 DEF vars, TypeOK, LocalInv, holds
<1> QED
  BY <1>1, <1>2, <1>3, <1>4, <1>5, <1>6, <1>7, <1>8, <1>9, <1>10, <1>11 DEF Next, run

(* The state of the file, of the processes and of their tables has its      *)
(* type, for every number of processes and blocks (endtoend.rs:74-109,      *)
(* dlog/mod.rs:134-144).                                                    *)
THEOREM MarkersTypeCorrect == Spec => []TypeOK
<1>1. TInv => TypeOK
  BY DEF TInv
<1> QED
  BY InitTInv, StepTInv, <1>1, PTL DEF Spec

(* Without a kill or an error there is no orphan: see OrphanNeedsFault.     *)
THEOREM OrphansNeedFaults == Spec => []OrphanNeedsFault
<1>1. Init => OrphanNeedsFault
  BY DEF Init, OrphanNeedsFault, orphaned
<1>2. TInv /\ OrphanNeedsFault /\ [Next]_vars => OrphanNeedsFault'
  <2> SUFFICES ASSUME TInv, OrphanNeedsFault, [Next]_vars, orphaned'
               PROVE  faults' > 0
    BY DEF OrphanNeedsFault
  <2> USE DEF TInv, orphaned
  <2>0. faults \in Nat /\ NumBlocks \in Nat /\ Len(file) \in Nat
    BY FileAssumption DEF TypeOK, NumBlocks
  <2>1. ASSUME NEW p \in Process, NotFound(p) \/ Create(p) \/ WriteBlock(p)
        PROVE  FALSE
    BY <2>1 DEF TypeOK, NotFound, Create, WriteBlock
  <2>2. ASSUME NEW p \in Process, DropWriter(p)
        PROVE  faults' > 0
    <3>1. CASE file' = written(p)
      <4>1. Len(file') >= NumBlocks
        BY <2>0, <2>2, <3>1, WrittenIsFile DEF DropWriter, larger
      <4> QED
        BY <2>0, <4>1, <3>1, <2>2, WrittenIsFile DEF DropWriter
    <3>2. CASE faults' = faults + 1
      BY <2>0, <3>2
    <3> QED
      BY <2>2, <3>1, <3>2 DEF DropWriter
  <2>3. ASSUME NEW p \in Process, Abort(p)
        PROVE  faults' > 0
    BY <2>0, <2>3 DEF Abort
  <2>4. ASSUME NEW p \in Process,
               Found(p) \/ ReadBlock(p) \/ ReadPastEnd(p) \/ Decrypt(p) \/ Start(p)
        PROVE  faults' > 0
    <3>1. UNCHANGED <<exists, file, faults>>
      BY <2>4 DEF Found, ReadBlock, ReadPastEnd, Decrypt, Start
    <3>2. \A q \in Process : holds(q) => holds(q)'
      BY <2>4 DEF Found, ReadBlock, ReadPastEnd, Decrypt, Start, TypeOK, holds, over
    <3> QED
      BY <3>1, <3>2, <2>0 DEF OrphanNeedsFault, holds
  <2>5. CASE UNCHANGED vars
    BY <2>5 DEF vars, OrphanNeedsFault
  <2> QED
    BY <2>1, <2>2, <2>3, <2>4, <2>5 DEF Next, run
<1> QED
  BY <1>1, <1>2, InitTInv, StepTInv, PTL DEF Spec

(* Nothing repairs a file that is too short: see OrphanIsForGood.           *)
THEOREM OrphansStay == Spec => OrphanIsForGood
<1>1. TInv /\ [Next]_vars => [orphaned => orphaned']_vars
  <2> SUFFICES ASSUME TInv, [Next]_vars, orphaned
               PROVE  orphaned' \/ UNCHANGED vars
    OBVIOUS
  <2> USE DEF TInv, orphaned
  <2>1. ASSUME NEW p \in Process,
               NotFound(p) \/ Create(p) \/ WriteBlock(p) \/ DropWriter(p)
        PROVE  FALSE
    BY <2>1 DEF NotFound, Create, WriteBlock, DropWriter
  <2>2. ASSUME NEW p \in Process,
               Found(p) \/ ReadBlock(p) \/ ReadPastEnd(p) \/ Decrypt(p) \/ Start(p) \/ Abort(p)
        PROVE  orphaned'
    <3>1. UNCHANGED <<exists, file>>
      BY <2>2 DEF Found, ReadBlock, ReadPastEnd, Decrypt, Start, Abort
    <3>2. \A q \in Process : holds(q)' => holds(q)
      BY <2>2 DEF Found, ReadBlock, ReadPastEnd, Decrypt, Start, Abort, TypeOK, holds, over
    <3> QED
      BY <3>1, <3>2 DEF holds
  <2> QED
    BY <2>1, <2>2 DEF Next, run
<1> QED
  BY <1>1, InitTInv, StepTInv, PTL DEF Spec, OrphanIsForGood

(* What the steps of a process that neither creates nor writes leave alone. *)
LEMMA OthersKeepAlone ==
  ASSUME IInv, ~raced, UNCHANGED <<exists, file>>,
         NEW p \in Process, ~holds(p)', pc[p] # "create",
         \A q \in Process \ {p} :
           pc'[q] = pc[q] /\ image'[q] = image[q] /\ pos'[q] = pos[q] /\ table'[q] = table[q]
  PROVE  HolderInv' /\ AbsentInv' /\ WriteInv' /\ OrderInv'
<1> USE DEF IInv, AloneInv
<1>1. HolderInv'
  BY DEF HolderInv, holds
<1>2. AbsentInv'
  BY DEF AbsentInv, holds
<1>3. WriteInv'
  <2> SUFFICES ASSUME NEW q \in Process, pc'[q] = "write"
               PROVE  (exists /\ Len(file) = pos[q] - 1 /\ Follows(image[q]))'
    BY DEF WriteInv
  <2>1. q # p
    BY DEF holds
  <2> QED
    BY <2>1 DEF WriteInv, Follows
<1>4. OrderInv'
  BY DEF OrderInv, Follows
<1> QED
  BY <1>1, <1>2, <1>3, <1>4

LEMMA InitAlone == Init => AloneInv
<1> SUFFICES ASSUME Init PROVE AloneInv
  OBVIOUS
<1>1. \E s : s \in orders
  <2>1. [k \in 1 .. NumBlocks |-> k - 1] \in [1 .. NumBlocks -> Markers]
    BY FileAssumption DEF NumBlocks, Markers
  <2>2. \A m \in Markers : m + 1 \in 1 .. NumBlocks /\ (m + 1) - 1 = m
    BY FileAssumption DEF NumBlocks, Markers
  <2>3. \A m \in Markers : [k \in 1 .. NumBlocks |-> k - 1][m + 1] = m
    BY <2>2
  <2> QED
    BY <2>1, <2>2, <2>3 DEF orders
<1>2. Len(file) = 0
  BY DEF Init
<1> QED
  BY <1>1, <1>2 DEF Init, AloneInv, HolderInv, AbsentInv, WriteInv, OrderInv, Follows, ReadInv,
                    DecryptInv, holds

LEMMA StepAlone == IInv /\ [Next]_vars /\ ~raced' => AloneInv'
<1> SUFFICES ASSUME IInv, [Next]_vars, ~raced'
             PROVE  AloneInv'
  OBVIOUS
<1> USE DEF IInv, TInv
<1>0. NumBlocks \in Nat \ {0} /\ Len(file) \in Nat
      /\ pc \in [Process -> over \cup {"begin", "create", "write", "read", "decrypt"}]
      /\ pos \in [Process -> 1 .. NumBlocks] /\ table \in [Process -> SUBSET Markers]
      /\ image \in [Process -> orders \cup {<<>>}]
  BY FileAssumption DEF NumBlocks, TypeOK
<1>1. ASSUME NEW p \in Process, NotFound(p)
      PROVE  AloneInv'
  <2>1. ~raced /\ ~exists /\ UNCHANGED <<exists, file, pos>>
        /\ \A q \in Process \ {p} : pc[q] # "create"
    BY <1>1 DEF NotFound
  <2>2. \A q \in Process \ {p} :
          pc'[q] = pc[q] /\ image'[q] = image[q] /\ pos'[q] = pos[q] /\ table'[q] = table[q]
    BY <1>0, <1>1 DEF NotFound
  <2>3. pc'[p] = "create"
    BY <1>0, <1>1 DEF NotFound
  <2>4. \A q \in Process : pc[q] # "write" /\ pc[q] # "read"
    BY <2>1 DEF AloneInv, WriteInv, ReadInv
  <2>5. HolderInv'
    BY <2>1, <2>2, <2>3, <2>4 DEF HolderInv, holds
  <2>6. AbsentInv'
    BY <2>1 DEF AloneInv, AbsentInv
  <2>7. WriteInv' /\ ReadInv'
    BY <2>2, <2>3, <2>4 DEF WriteInv, ReadInv
  <2>8. OrderInv' /\ DecryptInv'
    BY <2>1, <2>2, <2>3 DEF AloneInv, OrderInv, Follows, DecryptInv
  <2> QED
    BY <2>5, <2>6, <2>7, <2>8 DEF AloneInv
<1>2. ASSUME NEW p \in Process, Found(p)
      PROVE  AloneInv'
  <2>1. ~raced /\ exists /\ UNCHANGED <<exists, file, image, pos, table>> /\ pc[p] = "begin"
    BY <1>2 DEF Found
  <2>2. pc'[p] = "read" /\ \A q \in Process \ {p} : pc'[q] = pc[q]
    BY <1>0, <1>2 DEF Found
  <2>3. HolderInv' /\ AbsentInv' /\ WriteInv' /\ OrderInv'
    BY <2>1, <2>2, OthersKeepAlone DEF holds
  <2>4. pos[p] = 1 /\ table[p] = {}
    BY <2>1 DEF LocalInv
  <2>5. table[p] = {file[k] : k \in 1 .. pos[p] - 1}
    BY <2>4
  <2>6. ReadInv'
    BY <1>0, <2>1, <2>2, <2>4, <2>5 DEF AloneInv, ReadInv
  <2>7. DecryptInv'
    BY <2>1, <2>2 DEF AloneInv, DecryptInv
  <2> QED
    BY <2>3, <2>6, <2>7 DEF AloneInv
<1>3. ASSUME NEW p \in Process, Create(p)
      PROVE  AloneInv'
  <2>1. ~raced /\ exists' /\ file' = <<>> /\ UNCHANGED <<image, pos, table>> /\ pc[p] = "create"
    BY <1>3 DEF Create
  <2>2. pc'[p] = "write" /\ \A q \in Process \ {p} : pc'[q] = pc[q]
    BY <1>0, <1>3 DEF Create
  <2>3. ~exists
    BY <2>1 DEF AloneInv, AbsentInv
  <2>4. \A q \in Process : pc[q] # "read" /\ (q # p => ~holds(q))
    BY <2>1, <2>3 DEF AloneInv, ReadInv, HolderInv, holds
  <2>5. Len(file') = 0 /\ pos[p] = 1
    BY <2>1 DEF LocalInv
  <2>6. HolderInv' /\ AbsentInv'
    BY <2>1, <2>2, <2>4 DEF HolderInv, AbsentInv, holds
  <2>7. WriteInv' /\ ReadInv' /\ OrderInv'
    BY <2>1, <2>2, <2>4, <2>5 DEF AloneInv, WriteInv, ReadInv, OrderInv, Follows, holds
  <2>8. DecryptInv'
    BY <2>1, <2>2 DEF AloneInv, DecryptInv
  <2> QED
    BY <2>6, <2>7, <2>8 DEF AloneInv
<1>4. ASSUME NEW p \in Process, ~raced, pc[p] = "write", UNCHANGED exists,
             file' = written(p) \/ UNCHANGED file,
             \/ pc' = pc /\ pos' = [pos EXCEPT ![p] = @ + 1] /\ file' = written(p)
                /\ UNCHANGED <<image, table>>
             \/ pc' = [pc EXCEPT ![p] = "decrypt"] /\ UNCHANGED <<image, pos, table>>
             \/ pc' = [pc EXCEPT ![p] = "killed"] /\ drop_locals(p)
      PROVE  AloneInv'
  <2>1. /\ exists /\ image[p] \in orders /\ table[p] = Markers
        /\ Follows(image[p]) /\ Len(file) = pos[p] - 1 /\ pos[p] \in Nat
    BY <1>0, <1>4 DEF AloneInv, WriteInv, LocalInv, holds
  <2>2. \A q \in Process \ {p} :
          pc'[q] = pc[q] /\ image'[q] = image[q] /\ pos'[q] = pos[q] /\ table'[q] = table[q]
    BY <1>0, <1>4 DEF drop_locals
  <2>3. \A q \in Process \ {p} : ~holds(q)
    BY <1>4 DEF AloneInv, HolderInv, holds
  <2>4. /\ Len(file') \in {pos[p] - 1, pos[p]}
        /\ file' = written(p) => Len(file') = pos[p]
        /\ \A k \in 1 .. Len(file) : file'[k] = file[k]
        /\ \A k \in 1 .. Len(file') : file'[k] = image[p][k]
    BY <1>4, <2>1, WriteAppends DEF Follows
  <2>5. pc'[p] \in {"write", "decrypt", "killed"}
    BY <1>0, <1>4
  <2>6. HolderInv' /\ AbsentInv'
    BY <1>4, <2>1, <2>2, <2>3, <2>5 DEF HolderInv, AbsentInv, holds
  <2>7. ASSUME pc'[p] = "write"
        PROVE  file' = written(p) /\ pos'[p] = pos[p] + 1 /\ image'[p] = image[p]
    BY <1>0, <1>4, <2>7
  <2>8. WriteInv'
    BY <1>4, <2>1, <2>2, <2>3, <2>4, <2>7 DEF WriteInv, Follows, holds
  <2>9. OrderInv'
    BY <2>1, <2>4 DEF OrderInv, Follows
  <2>10. ReadInv'
    <3> SUFFICES ASSUME NEW q \in Process, pc'[q] = "read"
                 PROVE  (/\ exists
                         /\ pos[q] <= Len(file) + 1
                         /\ table[q] = {file[k] : k \in 1 .. pos[q] - 1})'
      BY DEF ReadInv
    <3>1. q # p /\ pc[q] = "read" /\ pos'[q] = pos[q] /\ table'[q] = table[q] /\ pos[q] \in Nat
      BY <1>0, <2>2, <2>5
    <3>2. pos[q] <= Len(file) + 1 /\ table[q] = {file[k] : k \in 1 .. pos[q] - 1}
      BY <1>4, <3>1 DEF AloneInv, ReadInv
    <3>3. \A k \in 1 .. pos[q] - 1 : file'[k] = file[k]
      BY <1>0, <2>4, <3>1, <3>2
    <3>4. pos'[q] <= Len(file') + 1
      BY <1>0, <2>1, <2>4, <3>1, <3>2
    <3>5. {file[k] : k \in 1 .. pos[q] - 1} = {file'[k] : k \in 1 .. pos[q] - 1}
      BY <3>3
    <3>6. table'[q] = {file'[k] : k \in 1 .. pos'[q] - 1}
      BY <3>1, <3>2, <3>5
    <3> QED
      BY <1>4, <2>1, <3>4, <3>6
  <2>11. DecryptInv'
    BY <1>0, <1>4, <2>1, <2>2 DEF AloneInv, DecryptInv
  <2> QED
    BY <2>6, <2>8, <2>9, <2>10, <2>11 DEF AloneInv
<1>5. ASSUME NEW p \in Process, WriteBlock(p) \/ DropWriter(p)
      PROVE  AloneInv'
  BY <1>4, <1>5 DEF WriteBlock, DropWriter
<1>6. ASSUME NEW p \in Process, ReadBlock(p)
      PROVE  AloneInv'
  <2>1. ~raced /\ pc[p] = "read" /\ pos[p] <= Len(file) /\ UNCHANGED <<exists, file, image>>
    BY <1>6 DEF ReadBlock
  <2>2. pos[p] \in Nat \ {0} /\ exists /\ table[p] = {file[k] : k \in 1 .. pos[p] - 1}
    BY <1>0, <2>1 DEF AloneInv, ReadInv
  <2>3. \A q \in Process \ {p} :
          pc'[q] = pc[q] /\ image'[q] = image[q] /\ pos'[q] = pos[q] /\ table'[q] = table[q]
    BY <1>0, <1>6 DEF ReadBlock
  <2>4. pc'[p] \in {"read", "decrypt"}
    BY <1>0, <1>6 DEF ReadBlock
  <2>5. HolderInv' /\ AbsentInv' /\ WriteInv' /\ OrderInv'
    BY <2>1, <2>3, <2>4, OthersKeepAlone DEF holds
  <2>6. PICK s \in orders : Follows(s)
    BY <2>1 DEF AloneInv, OrderInv
  <2>7. file[pos[p]] = s[pos[p]] /\ s[pos[p]] \in Markers /\ file[pos[p]] # Hole
    BY <1>0, <2>1, <2>2, <2>6 DEF Follows, orders, Markers, Hole, TypeOK
  <2>8. table'[p] = {file[k] : k \in 1 .. pos[p]}
    <3>1. table'[p] = table[p] \cup {file[pos[p]]}
      BY <1>0, <1>6, <2>7 DEF ReadBlock
    <3>2. 1 .. pos[p] = (1 .. pos[p] - 1) \cup {pos[p]}
      BY <2>2
    <3> QED
      BY <2>2, <3>1, <3>2
  <2>9. ASSUME pc'[p] = "read"
        PROVE  pos'[p] = pos[p] + 1
    BY <1>0, <1>6, <2>9 DEF ReadBlock
  <2>10. ASSUME pc'[p] = "decrypt"
         PROVE  table'[p] = Markers
    <3>1. pos[p] = NumBlocks
      BY <1>0, <1>6, <2>7, <2>10 DEF ReadBlock
    <3>2. \A m \in Markers : \E k \in 1 .. pos[p] : file[k] = m
      BY <1>0, <2>1, <2>6, <3>1 DEF orders, Follows
    <3>3. table'[p] \subseteq Markers
      BY StepTInv DEF TypeOK
    <3> QED
      BY <2>8, <3>2, <3>3
  <2>11. ReadInv'
    <3>1. ASSUME pc'[p] = "read"
          PROVE  pos'[p] <= Len(file) + 1 /\ table'[p] = {file[k] : k \in 1 .. pos'[p] - 1}
      <4>1. pos'[p] = pos[p] + 1 /\ pos'[p] - 1 = pos[p]
        BY <2>2, <2>9, <3>1
      <4> QED
        BY <1>0, <2>1, <2>2, <2>8, <4>1
    <3> QED
      BY <2>1, <2>2, <2>3, <3>1 DEF AloneInv, ReadInv
  <2>12. DecryptInv'
    BY <2>1, <2>3, <2>10 DEF AloneInv, DecryptInv
  <2> QED
    BY <2>5, <2>11, <2>12 DEF AloneInv
<1>7. ASSUME NEW p \in Process, ~raced, UNCHANGED <<exists, file>>, pc[p] # "create",
             NEW v \in over \cup {"begin"}, pc' = [pc EXCEPT ![p] = v],
             drop_locals(p) \/ UNCHANGED <<image, pos, table>>
      PROVE  AloneInv'
  <2>1. \A q \in Process \ {p} :
          pc'[q] = pc[q] /\ image'[q] = image[q] /\ pos'[q] = pos[q] /\ table'[q] = table[q]
    BY <1>0, <1>7 DEF drop_locals
  <2>2. pc'[p] \notin {"create", "write", "read", "decrypt"}
    BY <1>0, <1>7 DEF over
  <2>3. HolderInv' /\ AbsentInv' /\ WriteInv' /\ OrderInv'
    BY <1>7, <2>1, <2>2, OthersKeepAlone DEF holds
  <2>4. ReadInv' /\ DecryptInv'
    BY <1>7, <2>1, <2>2 DEF AloneInv, ReadInv, DecryptInv
  <2> QED
    BY <2>3, <2>4 DEF AloneInv
<1>8. ASSUME NEW p \in Process, ReadPastEnd(p) \/ Decrypt(p) \/ Start(p)
      PROVE  AloneInv'
  <2>1. PICK v \in over \cup {"begin"} : pc' = [pc EXCEPT ![p] = v]
    BY <1>8 DEF ReadPastEnd, Decrypt, Start, over
  <2>2. pc[p] # "create" /\ ~raced /\ UNCHANGED <<exists, file>>
        /\ (drop_locals(p) \/ UNCHANGED <<image, pos, table>>)
    BY <1>8 DEF ReadPastEnd, Decrypt, Start, over
  <2> QED
    BY <1>7, <2>1, <2>2
<1>9. ASSUME NEW p \in Process, Abort(p)
      PROVE  AloneInv'
  <2>1. CASE pc[p] = "write"
    BY <1>4, <1>9, <2>1 DEF Abort
  <2>2. CASE pc[p] \notin {"write", "create"}
    BY <1>7, <1>9, <2>2 DEF Abort, over
  <2>3. CASE pc[p] = "create"
    <3>1. UNCHANGED <<exists, file, raced>>
      BY <1>9, <2>3 DEF Abort
    <3>2. \A q \in Process \ {p} :
            pc'[q] = pc[q] /\ image'[q] = image[q] /\ pos'[q] = pos[q] /\ table'[q] = table[q]
      BY <1>0, <1>9 DEF Abort, drop_locals
    <3>3. pc'[p] = "killed"
      BY <1>0, <1>9 DEF Abort
    <3>4. HolderInv' /\ AbsentInv'
      BY <3>1, <3>2, <3>3 DEF AloneInv, HolderInv, AbsentInv, holds
    <3>5. WriteInv' /\ ReadInv' /\ OrderInv' /\ DecryptInv'
      BY <3>1, <3>2, <3>3 DEF AloneInv, WriteInv, ReadInv, OrderInv, DecryptInv, Follows
    <3> QED
      BY <3>4, <3>5 DEF AloneInv
  <2> QED
    BY <2>1, <2>2, <2>3
<1>10. CASE UNCHANGED vars
  BY <1>10 DEF vars, AloneInv, HolderInv, AbsentInv, WriteInv, OrderInv, ReadInv, DecryptInv,
               Follows, holds
<1> QED
  BY <1>1, <1>2, <1>3, <1>5, <1>6, <1>8, <1>9, <1>10 DEF Next, run

(* Whoever decrypts has the whole table unless two processes looked for the *)
(* file in vain at one time, for any number of processes, blocks and kills: *)
(* see TableComplete.                                                       *)
THEOREM CompleteTables == Spec => []TableComplete
<1>1. Init => IInv
  BY InitTInv, InitAlone DEF IInv
<1>2. IInv /\ [Next]_vars => IInv'
  BY StepTInv, StepAlone DEF IInv
<1>3. IInv => TableComplete
  BY DEF IInv, AloneInv, DecryptInv, TableComplete
<1> QED
  BY <1>1, <1>2, <1>3, PTL DEF Spec
=============================================================================
