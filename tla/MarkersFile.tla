----------------------------- MODULE MarkersFile -----------------------------
(***************************************************************************)
(* The example program and the file it keeps the solver's table in:        *)
(* run_benchmark of src/examples/endtoend.rs, save_to_file and             *)
(* read_from_file of src/src/dlog/mod.rs.  (The tests load or build their  *)
(* tables in the same way.)                                                *)
(*                                                                         *)
(* Several processes run the program, again and again, in one directory.   *)
(* Each of their batches looks for the file, reads it or builds a table    *)
(* and saves it, and decrypts with what it has got.  A process may be      *)
(* killed, or meet an I/O error, between any two steps.                    *)
(*                                                                         *)
(* The file is a sequence of blocks, one for each write of the BufWriter,  *)
(* and a block stands for the marker it holds.  The entries come in the    *)
(* order of a HashMap, which every process hashes with a seed of its own.  *)
(* The first block also holds the number of entries.  (An entry that lies  *)
(* across the border of two blocks is left out: with blocks of two         *)
(* processes it may get a wrong number, with one it is as they are.)       *)
(***************************************************************************)
EXTENDS Integers, Sequences

CONSTANTS
  Process,
  batch_sizes,      \* the list in main
  max_chunk_value,
  NumGiants,        \* 2^DLOG_MARKER_BITS
  NumBabies,        \* 2^DLOG_STEP_BITS
  MaxFaults         \* bounds the kills and I/O errors

ASSUME FileAssumption ==
  /\ MaxFaults \in Nat
  /\ NumGiants \in Nat \ {0} /\ NumBabies \in Nat \ {0}
  /\ max_chunk_value \in Nat

(* debug_assert! of run_benchmark: batch_size <= max_homomorphic_batch_size.*)
ASSUME SizesAssumption ==
  /\ batch_sizes \in Seq(Nat) /\ Len(batch_sizes) # 0
  /\ \A r \in DOMAIN batch_sizes :
       batch_sizes[r] * max_chunk_value < NumGiants * NumBabies

Markers == 0 .. NumGiants

NumBlocks == NumGiants + 1

Hole == -1    \* a block of zeros

VARIABLES
  exists,   \* whether there is a file at the path
  file,     \* its blocks
  pc,       \* each process: "begin", "create", "write", "read", "decrypt",
            \* or how it ended: "finished", "killed", "panic_read", "panic_dlog"
  round,    \* the batch it is at
  image,    \* the markers in the order in which it saves them
  pos,      \* the block it writes or reads next
  table,    \* its markers_map
  faults,   \* kills and I/O errors so far
  raced     \* whether two processes have looked for the file in vain at a time

vars == <<exists, file, pc, round, image, pos, table, faults, raced>>

over == {"finished", "killed", "panic_read", "panic_dlog"}

(* Every marker once: there are as many blocks.                             *)
orders == { s \in [1 .. NumBlocks -> Markers] : \A m \in Markers : \E k \in DOMAIN s : s[k] = m }

Init ==
  /\ exists = FALSE /\ file = <<>>
  /\ pc = [p \in Process |-> "begin"]
  /\ round = [p \in Process |-> 1]
  /\ image = [p \in Process |-> <<>>]
  /\ pos = [p \in Process |-> 1]
  /\ table = [p \in Process |-> {}]
  /\ faults = 0
  /\ raced = FALSE

(* The locals of run_benchmark at its end, however it ends.                 *)
drop_locals(p) ==
  /\ image' = [image EXCEPT ![p] = <<>>]
  /\ pos' = [pos EXCEPT ![p] = 1]
  /\ table' = [table EXCEPT ![p] = {}]

(* Mutant: a file that is too short is as good as none.                     *)
NotFound_or_short(p) ==
  /\ pc[p] = "begin"
  /\ Len(file) < NumBlocks
  /\ pc' = [pc EXCEPT ![p] = "create"]
  /\ table' = [table EXCEPT ![p] = Markers]
  /\ \E s \in orders : image' = [image EXCEPT ![p] = s]
  /\ raced' = (raced \/ \E q \in Process \ {p} : pc[q] = "create")
  /\ UNCHANGED <<exists, file, round, pos, faults>>

(* Markers::new builds the table, step by step in Dlog.                     *)
NotFound(p) ==
  /\ pc[p] = "begin"
  /\ ~exists
  /\ pc' = [pc EXCEPT ![p] = "create"]
  /\ table' = [table EXCEPT ![p] = Markers]
  /\ \E s \in orders : image' = [image EXCEPT ![p] = s]
  /\ raced' = (raced \/ \E q \in Process \ {p} : pc[q] = "create")
  /\ UNCHANGED <<exists, file, round, pos, faults>>

Found(p) ==
  /\ pc[p] = "begin"
  /\ exists
  /\ pc' = [pc EXCEPT ![p] = "read"]
  /\ UNCHANGED <<exists, file, round, image, pos, table, faults, raced>>

(* File::create empties a file that has come into being in the meantime.    *)
Create(p) ==
  /\ pc[p] = "create"
  /\ exists' = TRUE /\ file' = <<>>
  /\ pc' = [pc EXCEPT ![p] = "write"]
  /\ UNCHANGED <<round, image, pos, table, faults, raced>>

larger(a, b) == IF a > b THEN a ELSE b

(* A process writes at its own offset, behind the end if need be.           *)
written(p) ==
  [k \in 1 .. larger(Len(file), pos[p]) |->
     IF k = pos[p] THEN image[p][k] ELSE IF k <= Len(file) THEN file[k] ELSE Hole]

(* Mutant: one block too many.                                              *)
WriteBlock_past(p) ==
  /\ pc[p] = "write" /\ pos[p] <= NumBlocks
  /\ file' = written(p)
  /\ pos' = [pos EXCEPT ![p] = @ + 1]
  /\ UNCHANGED <<exists, pc, round, image, table, faults, raced>>

(* Mutant: the writer does not get on.                                      *)
WriteBlock_stuck(p) ==
  /\ pc[p] = "write" /\ pos[p] < NumBlocks
  /\ file' = written(p)
  /\ UNCHANGED <<exists, pc, round, image, pos, table, faults, raced>>

WriteBlock(p) ==
  /\ pc[p] = "write" /\ pos[p] < NumBlocks
  /\ file' = written(p)
  /\ pos' = [pos EXCEPT ![p] = @ + 1]
  /\ UNCHANGED <<exists, pc, round, image, table, faults, raced>>

(* Mutant: what is left in the buffer is dropped with it.                   *)
DropWriter_unflushed(p) ==
  /\ pc[p] = "write" /\ pos[p] = NumBlocks
  /\ pc' = [pc EXCEPT ![p] = "decrypt"]
  /\ UNCHANGED <<exists, file, faults, round, image, pos, table, raced>>

(* The last block is written when the BufWriter is dropped, which ignores   *)
(* an error.                                                                *)
DropWriter(p) ==
  /\ pc[p] = "write" /\ pos[p] = NumBlocks
  /\ \/ file' = written(p) /\ UNCHANGED faults
     \/ faults < MaxFaults /\ faults' = faults + 1 /\ UNCHANGED file
  /\ pc' = [pc EXCEPT ![p] = "decrypt"]
  /\ UNCHANGED <<exists, round, image, pos, table, raced>>

(* The header says how many entries follow; zeros say that none does.       *)
ReadBlock(p) ==
  /\ pc[p] = "read" /\ pos[p] <= Len(file)
  /\ LET block == file[pos[p]]
     IN  /\ table' = [table EXCEPT ![p] = @ \cup ({block} \ {Hole})]
         /\ IF pos[p] = NumBlocks \/ (pos[p] = 1 /\ block = Hole)
              THEN pc' = [pc EXCEPT ![p] = "decrypt"] /\ UNCHANGED pos
              ELSE pos' = [pos EXCEPT ![p] = @ + 1] /\ UNCHANGED pc
  /\ UNCHANGED <<exists, file, round, image, faults, raced>>

(* Mutant: the end of the file is the end of the table.                     *)
ReadPastEnd_lenient(p) ==
  /\ pc[p] = "read" /\ pos[p] > Len(file)
  /\ pc' = [pc EXCEPT ![p] = "decrypt"]
  /\ UNCHANGED <<exists, file, round, image, pos, table, faults, raced>>

(* deserialize_from is unwrapped.                                           *)
ReadPastEnd(p) ==
  /\ pc[p] = "read" /\ pos[p] > Len(file)
  /\ pc' = [pc EXCEPT ![p] = "panic_read"]
  /\ drop_locals(p)
  /\ UNCHANGED <<exists, file, round, faults, raced>>

(* What the chunks of a batch may add up to in a slot.                      *)
slot_sums(r) == 0 .. batch_sizes[r] * max_chunk_value

(* The one marker among the NumBabies elements after the target (see Dlog). *)
marker_of(sum) == sum \div NumBabies + 1

(* decrypt and then decrypt_fft, with the same shares and the same table:   *)
(* the second finds what the first has found.                               *)
Decrypt(p) ==
  /\ pc[p] = "decrypt"
  /\ \E sum \in slot_sums(round[p]) :
       IF marker_of(sum) \notin table[p]
         THEN pc' = [pc EXCEPT ![p] = "panic_dlog"] /\ UNCHANGED round
       ELSE IF round[p] = Len(batch_sizes)
         THEN pc' = [pc EXCEPT ![p] = "finished"] /\ UNCHANGED round
       ELSE /\ pc' = [pc EXCEPT ![p] = "begin"]
            /\ round' = [round EXCEPT ![p] = @ + 1]
  /\ drop_locals(p)
  /\ UNCHANGED <<exists, file, faults, raced>>

(* The process is killed, or an I/O error meets an unwrap.  A writer that   *)
(* unwinds tries once more to write what it has in its buffer.              *)
Abort(p) ==
  /\ pc[p] \notin over
  /\ faults < MaxFaults
  /\ faults' = faults + 1
  /\ pc' = [pc EXCEPT ![p] = "killed"]
  /\ \/ UNCHANGED file
     \/ pc[p] = "write" /\ pos[p] < NumBlocks /\ file' = written(p)
  /\ drop_locals(p)
  /\ UNCHANGED <<exists, round, raced>>

(* Somebody starts the program again.                                       *)
Start(p) ==
  /\ pc[p] \in over
  /\ pc' = [pc EXCEPT ![p] = "begin"]
  /\ round' = [round EXCEPT ![p] = 1]
  /\ UNCHANGED <<exists, file, image, pos, table, faults, raced>>

run(p) ==
  \/ NotFound(p) \/ Found(p) \/ Create(p) \/ WriteBlock(p) \/ DropWriter(p)
  \/ ReadBlock(p) \/ ReadPastEnd(p) \/ Decrypt(p)

Next == \E p \in Process : run(p) \/ Abort(p) \/ Start(p)

Spec == Init /\ [][Next]_vars

(* A process that is not killed runs on; nobody has to start one.           *)
FairSpec == Spec /\ \A p \in Process : WF_vars(run(p))

-----------------------------------------------------------------------------

TypeOK ==
  /\ exists \in BOOLEAN
  /\ file \in Seq(Markers \cup {Hole}) /\ Len(file) <= NumBlocks
  /\ pc \in [Process -> over \cup {"begin", "create", "write", "read", "decrypt"}]
  /\ round \in [Process -> DOMAIN batch_sizes]
  /\ image \in [Process -> orders \cup {<<>>}]
  /\ pos \in [Process -> 1 .. NumBlocks]
  /\ table \in [Process -> SUBSET Markers]
  /\ faults \in 0 .. MaxFaults
  /\ raced \in BOOLEAN

(* Whoever gets to decrypt has the whole table, although files are left     *)
(* half written, flushes fail unnoticed and a reader may overtake the       *)
(* writer: what can spoil a table is only two processes that both looked    *)
(* for the file before either had created it (dlog/mod.rs:134-144,          *)
(* endtoend.rs:75-82).                                                      *)
TableComplete == ~raced => \A p \in Process : pc[p] = "decrypt" => table[p] = Markers

(* A file that is too short and that nobody is going to write.              *)
orphaned ==
  exists /\ Len(file) < NumBlocks /\ \A p \in Process : pc[p] \notin {"create", "write"}

(* Every save that runs to its end leaves a file of full length, even when  *)
(* it cut off the file of another process: an orphan is the trace of a kill *)
(* or an I/O error, one that save_to_file has swallowed included            *)
(* (dlog/mod.rs:134-138).                                                   *)
OrphanNeedsFault == orphaned => faults > 0

(* An orphan is there for good.  The program only looks whether the file    *)
(* exists, so that no later start repairs it (endtoend.rs:75).              *)
OrphanIsForGood == [][orphaned => orphaned']_vars

(* The first start that creates the file decides: in the end the file is of *)
(* full length for ever, or too short for ever.                             *)
FileSettles == exists ~> ([](Len(file) = NumBlocks) \/ []orphaned)

(* The expect on the solver (bte/decryption.rs:40-42), "DLog lookup failed  *)
(* - exponent out of BSGS range": a lookup fails for no other reason, and   *)
(* run_benchmark asserts that its sums are in the range.                    *)
LookupFailsOnlyOutOfRange == \A p \in Process : pc[p] # "panic_dlog"
=============================================================================
