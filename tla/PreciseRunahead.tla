--------------------------- MODULE PreciseRunahead ---------------------------
(***************************************************************************)
(* The precise runahead engine (PRE) that the vector helper is built on,   *)
(* as far as physical registers are concerned.  When a load at the head of *)
(* a full reorder buffer blocks the window, commit enters runahead: the    *)
(* rename map and the free list are checkpointed, and rename goes on with  *)
(* registers of the free list, recording its instructions in the PRDQ      *)
(* instead of the history buffer.  Runahead ends when the load returns or  *)
(* an older instruction squashes, and both checkpoints are restored.       *)
(*                                                                         *)
(* One clock cycle is three steps, in the order of CPU::tick: rename, IEW, *)
(* commit.  A signal from commit is read by rename in the next cycle; what *)
(* IEW or rename sends is read by commit in the next cycle, so "wire" and  *)
(* "arriving" hold what is read now and "pending" and "leaving" what is    *)
(* written for the next cycle.                                             *)
(*                                                                         *)
(* Abstractions.  One instruction is renamed, one executes and one retires *)
(* per cycle; it has one source and one destination, except a conditional  *)
(* branch of runahead, which has no destination.  Which instructions the   *)
(* stalling slice table lets through, which free register is taken, and    *)
(* when an instruction executes are free choices.  Traps, and control      *)
(* instructions of runahead other than conditional branches, are left out. *)
(* numRef counts the references to registers usable for runahead only: the *)
(* code counts every source, but never reads the count of another register *)
(* and restarts it when runahead allocates the register.  For the same     *)
(* reason numRef and overwritten, valid in runahead only, are forgotten    *)
(* when it ends.                                                           *)
(***************************************************************************)
EXTENDS Integers, Sequences, FiniteSets, FiniteSetsExt

CONSTANTS Arch, Phys, NoReg, ROBEntries, PRDQEntries, Limit,
          MaxRefs  \* bound on numRef, which a squash within runahead leaks

ASSUME PRESizes == /\ {ROBEntries, PRDQEntries, Limit, MaxRefs} \subseteq Nat \ {0}
                   /\ Cardinality(Phys) > Cardinality(Arch)
                   /\ NoReg \notin Phys

VARIABLES phase, inPRE, map, free, checkpoint, usable, numRef, overwritten,
          history, rob, ready, status, arriving, leaving, wire, pending,
          signal, prdq,
          earlyRecycle  \* enablePREEarlyRecycle: a parameter of the run

renaming == <<map, free, usable, numRef, overwritten, history, prdq>>
window == <<inPRE, checkpoint, rob, ready, status>>
vars == <<phase, renaming, window, arriving, leaving, wire, pending, signal,
          earlyRecycle>>

(* A squash on the way: of everything younger than the keep-th entry of    *)
(* the history buffer, or of everything younger than entry "keep" of PRDQ. *)
Silent == [kind |-> "none", keep |-> 0]
Quiet == [squash |-> Silent, done |-> FALSE]
NoCheckpoint == [map |-> <<>>, free |-> <<>>]

Add(list, reg) == [list EXCEPT ![reg] = @ + 1]
Branch(inst) == inst.dst = NoReg

Init ==
  /\ phase = "rename" /\ inPRE = FALSE /\ status = "Running"
  /\ map \in {f \in [Arch -> Phys] : \A a, b \in Arch : f[a] = f[b] => a = b}
  /\ free = [p \in Phys |-> IF \E a \in Arch : map[a] = p THEN 0 ELSE 1]
  /\ checkpoint = NoCheckpoint
  /\ usable = {} /\ numRef = [p \in Phys |-> 0] /\ overwritten = {}
  /\ history = <<>> /\ rob = <<>> /\ prdq = <<>> /\ ready = FALSE
  /\ arriving = "none" /\ leaving = "none"
  /\ wire = Silent /\ pending = Silent /\ signal = Quiet
  /\ earlyRecycle \in BOOLEAN

-----------------------------------------------------------------------------
(* Rename.                                                                 *)

(* The register that an instruction of the PRDQ replaced is recycled when  *)
(* the instruction leaves, unless it still belongs to the main thread.     *)
Recyclable_Any(inst) == ~earlyRecycle /\ inst.prev # NoReg

Recyclable(inst) == ~earlyRecycle /\ inst.prev \in usable

(* removeFromHistory, for the oldest entry.                                *)
Freed(list, hist) == Add(list, hist[1].prev)

(* The end of the rename tick, from the free list, the history buffer, the *)
(* PRDQ and the counts that renaming or squashing left: removeFromHistory  *)
(* for what committed, then the deallocation of the oldest PRDQ entry if   *)
(* it had completed, then the complete signals of this cycle.              *)
Committed(hist) == signal.done /\ signal.squash = Silent /\ hist # <<>>

Popped(queue) == inPRE /\ queue # <<>> /\ queue[1].state = "done"

Rest(queue) == IF Popped(queue) THEN Tail(queue) ELSE queue

Wired(queue) == {i \in DOMAIN queue : inPRE /\ queue[i].state = "wired"}

Uses(queue, p) ==
  IF p \in usable /\ earlyRecycle
  THEN Quantify(Wired(queue), LAMBDA i : queue[i].src = p)
       + Quantify(Wired(queue), LAMBDA i : queue[i].dst = p)
  ELSE 0

Deallocated(list, queue) ==
  IF Popped(queue) /\ Recyclable(queue[1]) THEN Add(list, queue[1].prev) ELSE list

Completed(queue) ==
  [i \in DOMAIN queue |-> IF i \in Wired(queue)
                          THEN [queue[i] EXCEPT !.state = "done"] ELSE queue[i]]

Settle(list, hist, queue, refs, over) ==
  LET freed == IF Committed(hist) THEN Freed(list, hist) ELSE list
      recycled == Deallocated(freed, queue)
      rest == Rest(queue)
  IN /\ history' = IF Committed(hist) THEN Tail(hist) ELSE hist
     /\ prdq' = Completed(rest)
     /\ numRef' = [p \in Phys |-> refs[p] - Uses(rest, p)]
     /\ overwritten' = over
     /\ free' = [p \in Phys |->
                  IF Uses(rest, p) > 0 /\ refs[p] = Uses(rest, p) /\ p \in over
                  THEN recycled[p] + 1 ELSE recycled[p]]
     /\ wire' = IF \/ wire.kind = "pre" /\ Popped(queue)
                   \/ wire.kind = "rob" /\ Committed(hist)
                THEN [wire EXCEPT !.keep = @ - 1] ELSE wire
     /\ phase' = "iew" /\ signal' = Quiet
     /\ UNCHANGED <<usable, window, pending, earlyRecycle>>

RenameNothing ==
  /\ signal.squash = Silent
  /\ Settle(free, history, prdq, numRef, overwritten)
  /\ UNCHANGED <<map, arriving, leaving>>

(* In normal mode an instruction needs an entry of the ROB that neither    *)
(* the ROB nor an instruction on its way there holds, and IEW blocks       *)
(* rename as long as the ROB is squashing.                                 *)
RenameNormal(dst, new) ==
  /\ signal.squash = Silent /\ ~inPRE /\ status = "Running"
  /\ free[new] > 0
  /\ Len(rob) + (IF arriving = "none" THEN 0 ELSE 1) < ROBEntries
  /\ map' = [map EXCEPT ![dst] = new]
  /\ leaving' = "normal"
  /\ Settle([free EXCEPT ![new] = @ - 1],
            Append(history, [arch |-> dst, new |-> new, prev |-> map[dst]]),
            prdq, numRef, overwritten)
  /\ UNCHANGED arriving

(* A runahead branch blocks renaming until it has completed or its limit   *)
(* of cycles has passed.                                                   *)
Unresolved_Early == \E i \in DOMAIN prdq :
                Branch(prdq[i]) /\ prdq[i].state # "done" /\ prdq[i].left > 0

Unresolved == \E i \in DOMAIN prdq :
                Branch(prdq[i]) /\ prdq[i].state # "done" /\ prdq[i].left >= 0

PRERoom == inPRE /\ Len(prdq) < PRDQEntries /\ ~Unresolved

MayRefer(src) == map[src] \in usable => numRef[map[src]] < MaxRefs

Referenced(src) == IF earlyRecycle /\ map[src] \in usable
                   THEN Add(numRef, map[src]) ELSE numRef

RenameBranch(src) ==
  /\ signal.squash = Silent /\ PRERoom /\ MayRefer(src)
  /\ \E p \in Phys : free[p] > 0
  /\ leaving' = "pre"
  /\ Settle(free, history,
            Append(prdq, [src |-> map[src], dst |-> NoReg, prev |-> NoReg,
                          state |-> "waiting", left |-> Limit]),
            Referenced(src), overwritten)
  /\ UNCHANGED <<map, arriving>>

(* The writer of a register counts as one of its references.               *)
Claimed(refs, new) == [refs EXCEPT ![new] = IF earlyRecycle THEN 1 ELSE @]

(* renameSrcRegs, then renameDestRegs with the early recycling of the      *)
(* overwritten register, and no entry in the history buffer.               *)
RenameRunahead(src, dst, new) ==
  LET old == map[dst]
      refs == Claimed(Referenced(src), new)
      recycles == earlyRecycle /\ old \in usable
      taken == [free EXCEPT ![new] = @ - 1]
  IN /\ signal.squash = Silent /\ PRERoom /\ MayRefer(src) /\ free[new] > 0
     /\ map' = [map EXCEPT ![dst] = new]
     /\ leaving' = "pre"
     /\ Settle(IF recycles /\ refs[old] = 0 THEN Add(taken, old) ELSE taken,
               history,
               Append(prdq, [src |-> map[src], dst |-> new, prev |-> old,
                             state |-> "waiting", left |-> -1]),
               refs,
               IF ~earlyRecycle THEN overwritten
               ELSE (overwritten \ {new}) \cup (IF recycles THEN {old} ELSE {}))
     /\ UNCHANGED arriving

(* removeInstsNotInROB, for what rename sent last cycle.                   *)
Squashed_Younger(sent) == IF sent = "pre" THEN sent ELSE "none"

Squashed(sent) == "none"

(* A squash from commit.  Rename undoes the younger history entries and    *)
(* flushes the younger PRDQ entries.  Fetch, which sees the same signal    *)
(* first, squashes every instruction that is not in the ROB: what rename   *)
(* sent last cycle, and every runahead instruction, the ones older than a  *)
(* mispredicted runahead branch included.                                  *)
RenameSquash ==
  LET squash == signal.squash
      keep == IF squash.kind = "rob" THEN squash.keep ELSE Len(history)
      undone == {i \in DOMAIN history : i > keep}
      flushed == IF squash.kind = "rob" THEN <<>>
                 ELSE SubSeq(prdq, 1, squash.keep)
      first(a) == {i \in undone : history[i].arch = a}
  IN /\ squash # Silent
     /\ map' = [a \in Arch |-> IF first(a) = {} THEN map[a]
                               ELSE history[Min(first(a))].prev]
     /\ Settle([p \in Phys |-> free[p]
                  + Quantify(undone, LAMBDA i : history[i].new = p)],
               SubSeq(history, 1, Len(history) - Cardinality(undone)),
               [i \in DOMAIN flushed |->
                  IF flushed[i].state = "waiting"
                  THEN [flushed[i] EXCEPT !.state = "lost"] ELSE flushed[i]],
               numRef, overwritten)
     /\ arriving' = Squashed(arriving)
     /\ UNCHANGED leaving

Rename ==
  /\ phase = "rename"
  /\ \/ RenameNothing
     \/ \E dst \in Arch, new \in Phys : RenameNormal(dst, new)
     \/ \E src \in Arch : RenameBranch(src)
     \/ \E src, dst \in Arch, new \in Phys : RenameRunahead(src, dst, new)
     \/ RenameSquash

-----------------------------------------------------------------------------
(* IEW.  The complete signal of an executed instruction and a squash reach *)
(* rename and commit in the next cycle.  An instruction that was squashed  *)
(* after it was issued becomes ready to commit without a complete signal;  *)
(* one that was not issued never does.                                     *)

Execute(i) ==
  /\ prdq[i].state = "waiting" /\ prdq[i].left < Limit
  /\ prdq' = [prdq EXCEPT ![i].state = "wired"]
  /\ \/ UNCHANGED pending
     \/ /\ Branch(prdq[i])
        /\ pending' = [kind |-> "pre", keep |-> i]

SkipSquashed(i) ==
  /\ prdq[i].state = "lost"
  /\ prdq' = [prdq EXCEPT ![i].state = "done"]
  /\ UNCHANGED pending

Live == Quantify(DOMAIN rob, LAMBDA i : rob[i])

(* A misprediction, which keeps the instruction, or an order violation,    *)
(* which does not, of the k-th instruction in the ROB; it can be the head  *)
(* only while the head has not completed.                                  *)
SquashFromROB(k) ==
  /\ k = 1 => ~ready
  /\ \E keep \in {k - 1, k} : pending' = [kind |-> "rob", keep |-> keep]
  /\ UNCHANGED prdq

IEW ==
  /\ phase = "iew" /\ phase' = "commit"
  /\ \/ \E i \in DOMAIN prdq : Execute(i) \/ SkipSquashed(i)
     \/ \E k \in 1 .. Live : SquashFromROB(k)
     \/ UNCHANGED <<prdq, pending>>
  /\ UNCHANGED <<map, free, usable, numRef, overwritten, history, window,
                 arriving, leaving, wire, signal, earlyRecycle>>

-----------------------------------------------------------------------------
(* Commit.  Each of the three alternatives says whether the number of ROB  *)
(* entries was signalled as changed.                                       *)

Obeyed == wire.kind = "rob" /\ wire.keep <= Live

CommitSquash(changed) ==
  /\ Obeyed /\ changed
  /\ status' = "ROBSquashing"
  /\ rob' = [i \in DOMAIN rob |->
               rob[i] /\ Quantify(1 .. i, LAMBDA j : rob[j]) <= wire.keep]
  /\ ready' \in {ready, TRUE}
  /\ signal' = [squash |-> wire, done |-> FALSE]

(* A mispredicted branch of runahead is obeyed within its limit only.      *)
Mispredicted ==
  IF inPRE /\ wire.kind = "pre" /\ prdq[wire.keep].left >= 0
  THEN wire ELSE Silent

HeadReady(buffer, done) == buffer # <<>> /\ (buffer[1] => done)

(* getInsts, then commitInsts, then the complete signal of the head.       *)
CommitInsts(changed) ==
  LET inserts == status' = "Running" /\ ~inPRE /\ arriving # "none"
      filled == IF inserts THEN Append(rob, TRUE) ELSE rob
  IN /\ ~Obeyed
     /\ status' \in {status, "Running"}
     /\ \E retires \in BOOLEAN :
          /\ retires => status' = "Running" /\ HeadReady(rob, ready)
          /\ rob' = IF retires THEN Tail(filled) ELSE filled
          /\ changed <=> inserts \/ retires
          /\ ready' \in {ready /\ ~retires, rob' # <<>>}
          /\ signal' = [squash |-> Mispredicted, done |-> retires /\ rob[1]]

(* enterPRE, when the number of entries has changed and the ROB is full    *)
(* behind a load that has not returned.                                    *)
Enter(changed) ==
  /\ changed /\ Len(rob') = ROBEntries
  /\ status' = "Running" /\ ~inPRE /\ ~HeadReady(rob', ready')
  /\ inPRE' = TRUE
  /\ checkpoint' = [map |-> map, free |-> free]
  /\ usable' = (usable \ {map[a] : a \in Arch})
               \cup {p \in Phys : free[p] > 0}
  /\ wire' = pending
  /\ UNCHANGED <<map, free, numRef, overwritten>>

(* exitPRE.                                                                *)
Restore_MapOnly ==
  /\ inPRE' = FALSE
  /\ map' = checkpoint.map
  /\ checkpoint' = NoCheckpoint
  /\ numRef' = [p \in Phys |-> 0] /\ overwritten' = {}
  /\ UNCHANGED <<usable, free>>

Restore ==
  /\ inPRE' = FALSE
  /\ map' = checkpoint.map /\ free' = checkpoint.free
  /\ checkpoint' = NoCheckpoint
  /\ numRef' = [p \in Phys |-> 0] /\ overwritten' = {}
  /\ UNCHANGED usable

Squashing(changed) == changed /\ Len(rob') = ROBEntries
                        /\ status' = "ROBSquashing"

ExitOnSquash(changed) ==
  /\ inPRE /\ Squashing(changed)
  /\ Restore
  /\ wire' = pending

(* The load has returned.  Commit asks for a squash after the youngest     *)
(* dispatched instruction, unless IEW has asked for an older one.          *)
ExitOnReturn(changed) ==
  /\ inPRE /\ ~Squashing(changed) /\ HeadReady(rob', ready')
  /\ Restore
  /\ \E keep \in 1 .. Live :
       wire' = IF pending.kind = "rob" /\ pending.keep <= keep THEN pending
               ELSE [kind |-> "rob", keep |-> keep]

Stay(changed) ==
  /\ inPRE => ~Squashing(changed) /\ ~HeadReady(rob', ready')
  /\ wire' = pending
  /\ UNCHANGED <<inPRE, map, free, checkpoint, usable, numRef, overwritten>>

Commit ==
  /\ phase = "commit" /\ phase' = "rename"
  /\ \E changed \in BOOLEAN :
       /\ CommitSquash(changed) \/ CommitInsts(changed)
       /\ \/ Enter(changed) \/ ExitOnSquash(changed)
          \/ ExitOnReturn(changed) \/ Stay(changed)
  /\ pending' = Silent /\ arriving' = leaving /\ leaving' = "none"
  /\ prdq' = [i \in DOMAIN prdq |->
                [prdq[i] EXCEPT !.left = IF @ < 0 THEN @ ELSE @ - 1]]
  /\ UNCHANGED <<history, earlyRecycle>>

Next == Rename \/ IEW \/ Commit

Spec == Init /\ [][Next]_vars

-----------------------------------------------------------------------------
(* Nothing is lost and nothing is held twice: outside runahead every       *)
(* physical register is mapped, free or kept by the history buffer for a   *)
(* rollback, exactly one of the three and once; during runahead the same   *)
(* holds of the state exitPRE will restore.                                *)
Conserved ==
  LET m == IF inPRE THEN checkpoint.map ELSE map
      f == IF inPRE THEN checkpoint.free ELSE free
  IN \A p \in Phys :
       Quantify(Arch, LAMBDA a : m[a] = p) + f[p]
         + Quantify(DOMAIN history, LAMBDA i : history[i].prev = p) = 1

(* Runahead only takes registers that were free when it began, a register  *)
(* it has given back to the free list is there once, and is neither mapped *)
(* nor read or written by a runahead instruction that has not completed,   *)
(* and no reference count falls below zero (the code asserts it).          *)
RecycledUnused ==
  inPRE => \A p \in Phys :
    /\ numRef[p] >= 0
    /\ free[p] > 0 =>
         /\ free[p] = 1 /\ checkpoint.free[p] > 0
         /\ \A a \in Arch : map[a] # p
         /\ \A i \in DOMAIN prdq : prdq[i].state \in {"waiting", "wired"} =>
               p \notin {prdq[i].src, prdq[i].dst}

(* The ROB and the history buffer agree: an entry of the history buffer is *)
(* an instruction in the ROB, on its way there, or just committed, unless  *)
(* a squash is about to undo it.  In particular entering runahead, when    *)
(* commit starts to ignore what rename sends, loses no instruction, and no *)
(* runahead instruction enters the ROB.                                    *)
ROBWhole ==
  LET onTheWay == Quantify({1, 2}, LAMBDA i : <<arriving, leaving>>[i] = "normal")
      kept == IF signal.squash.kind = "rob" THEN signal.squash.keep
              ELSE Len(history) - onTheWay
  IN Live + (IF signal.done THEN 1 ELSE 0) = kept

(* There is no rollback within runahead: when commit obeys a mispredicted  *)
(* runahead branch, no younger instruction has been renamed, so the map    *)
(* needs no repair.  A late resolution races with the limit after which    *)
(* rename goes past the branch.                                            *)
NoRollback == signal.squash.kind = "pre" => signal.squash.keep = Len(prdq)
=============================================================================
