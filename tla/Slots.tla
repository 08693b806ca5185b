--------------------------------- MODULE Slots ---------------------------------
(***************************************************************************)
(* The file store of nvimotator (src/file-store.ts and its Neovim side,    *)
(* lua/pi_nvimotator/file_store.lua with init.lua): numbered slots through *)
(* which the command line of a coding agent hands a snapshot to a Neovim   *)
(* and gets the annotation back.  A slot is allocated under a lock file    *)
(* and attached under another one inside it; both hold a pid and outlive   *)
(* the process that wrote them.                                            *)
(*                                                                         *)
(* A snapshot is the number of its export; the annotation a Neovim writes  *)
(* is named by the snapshot it annotates.  A round of the allocation tries *)
(* its candidates in any order.  Between the looks of a command line at a  *)
(* slot and its changes of it the others run; the Lua functions run to     *)
(* their end, and the window between their reads and writes is left out.   *)
(***************************************************************************)
EXTENDS Integers, FiniteSets

CONSTANTS
    SlotIds,    \* the ids of the pool
    Hosts,      \* processes that run the command line
    Editors,    \* Neovim instances
    None,       \* nobody, nothing
    Dead,       \* a process that is gone
    MaxExports  \* bound on the exports

VARIABLES
    meta,       \* slot -> its meta.json: status, snapshot, and whether the TTL is over;
                \*         "none" without a directory, "bare" without a meta.json in it
    lock,       \* slot -> N.lock: who created it, and whether the pid is in it
    attach,     \* slot -> whose pid attach.lock holds
    note,       \* slot -> the snapshot annotation.md is about
    host,       \* command line -> where it is in its command, and the meta.json it read
    editor,     \* Neovim -> state.file_slot and whether the phase is "ready"
    exports,    \* snapshots exported so far
    crossed     \* history: slots that two processes got hold of at once

vars == <<meta, lock, attach, note, host, editor, exports, crossed>>

NoMeta == [status |-> "none", snap |-> 0, old |-> FALSE]
NoLock == [by |-> None, pid |-> FALSE]
NoSlot == [id |-> None, meta |-> NoMeta, ready |-> FALSE]
Idle == [at |-> "idle", round |-> 0, todo |-> {}, id |-> None, seen |-> NoMeta]

Put(h, state) == host' = [host EXCEPT ![h] = state]
Goes(h, at) == Put(h, [host[h] EXCEPT !.at = at])

-----------------------------------------------------------------------------
(* Mutants: slips in the store that the properties must notice.            *)

Occupied_Sent(m) == m.status = "sent"

Look_Away(h) ==
    /\ host[h].at = "claimed"
    /\ Goes(h, "looked")
    /\ UNCHANGED <<meta, lock, attach, note, editor, exports, crossed>>

-----------------------------------------------------------------------------
(* The pool is empty, or holds the first export.                           *)
FirstExport == [status |-> "exported", snap |-> 1, old |-> FALSE]
Init ==
    /\ meta \in {[id \in SlotIds |-> IF id = full THEN FirstExport ELSE NoMeta] : full \in SlotIds \cup {None}}
    /\ lock = [id \in SlotIds |-> NoLock]
    /\ attach = [id \in SlotIds |-> None]
    /\ note = [id \in SlotIds |-> None]
    /\ host = [h \in Hosts |-> Idle]
    /\ editor = [n \in Editors |-> NoSlot]
    /\ exports = 1
    /\ crossed = {}

(* isAttached: a lock whose pid is gone is removed.                        *)
Attached(id) == attach[id] \in Editors
Swept(ids) == [id \in SlotIds |-> IF id \in ids /\ attach[id] = Dead THEN None ELSE attach[id]]

Expired(m) == m.status = "exported" /\ m.old

(* isOccupied and isReclaimable, of a slot that is not attached.           *)
Occupied(m) == m.status = "sent" \/ (m.status = "exported" /\ ~m.old)

Reclaimable(m, round) ==
    \/ m.status \in {"none", "bare", "cancelled"}
    \/ Expired(m)
    \/ round >= 1 /\ m.status = "imported"
    \/ round >= 2 /\ m.status = "sent"

Reusable(m, round) == ~Occupied(m) \/ Reclaimable(m, round)

(* inspectSlots and candidateIds.                                          *)
Candidates(round) ==
    {id \in SlotIds : ~Attached(id) /\ Reusable(meta[id], round)}
        \cup {id \in SlotIds : round = 1 /\ meta[id].status = "imported"}

Next0(h) == [host[h] EXCEPT !.at = "round", !.todo = @ \ {host[h].id}, !.id = None]

(* export: the first round looks at every slot.                            *)
Export(h) ==
    /\ host[h] = Idle /\ exports < MaxExports
    /\ Put(h, [Idle EXCEPT !.at = "round", !.todo = Candidates(0)])
    /\ attach' = Swept(SlotIds)
    /\ UNCHANGED <<meta, lock, note, editor, exports, crossed>>

(* The next round, or the error that all ids are in use.                   *)
NextRound(h) ==
    /\ host[h].at = "round" /\ host[h].todo = {}
    /\ LET round == host[h].round + 1
       IN  IF round = 3
           THEN Put(h, Idle) /\ UNCHANGED attach
           ELSE /\ Put(h, [host[h] EXCEPT !.round = round, !.todo = Candidates(round)])
                /\ attach' = Swept(SlotIds)
    /\ UNCHANGED <<meta, lock, note, editor, exports, crossed>>

(* claimAllocLock: the file is created empty; a lock without a live pid in *)
(* it is taken over.                                                       *)
Stale(l) == l # NoLock /\ (l.by = Dead \/ ~l.pid)

TryCandidate(h, id) ==
    /\ host[h].at = "round" /\ id \in host[h].todo
    /\ attach' = Swept({id})
    /\ IF Attached(id) \/ (lock[id] # NoLock /\ ~Stale(lock[id]))
       THEN Put(h, [host[h] EXCEPT !.todo = @ \ {id}]) /\ UNCHANGED lock
       ELSE IF lock[id] = NoLock
       THEN /\ lock' = [lock EXCEPT ![id] = [by |-> h, pid |-> FALSE]]
            /\ Put(h, [host[h] EXCEPT !.at = "created", !.id = id])
       ELSE Put(h, [host[h] EXCEPT !.at = "stale", !.id = id]) /\ UNCHANGED lock
    /\ UNCHANGED <<meta, note, editor, exports, crossed>>

(* The owner may be a living process that has not written its pid yet.     *)
TakeOver(h) ==
    /\ host[h].at = "stale"
    /\ LET id == host[h].id
       IN  /\ lock' = [lock EXCEPT ![id] = [by |-> h, pid |-> FALSE]]
           /\ crossed' = IF lock[id].by \in Hosts THEN crossed \cup {id} ELSE crossed
    /\ Goes(h, "created")
    /\ UNCHANGED <<meta, attach, note, editor, exports>>

WritePid(h) ==
    /\ host[h].at = "created"
    /\ LET id == host[h].id
       IN  lock' = IF lock[id].by = h THEN [lock EXCEPT ![id].pid = TRUE] ELSE lock
    /\ Goes(h, "claimed")
    /\ UNCHANGED <<meta, attach, note, editor, exports, crossed>>

(* With the lock held: is it attached?  Then, what does meta.json say?     *)
Look(h) ==
    /\ host[h].at = "claimed"
    /\ attach' = Swept({host[h].id})
    /\ Goes(h, IF Attached(host[h].id) THEN "leaving" ELSE "looked")
    /\ UNCHANGED <<meta, lock, note, editor, exports, crossed>>

Decide(h) ==
    /\ host[h].at = "looked"
    /\ Goes(h, IF Reusable(meta[host[h].id], host[h].round) THEN "chosen" ELSE "leaving")
    /\ UNCHANGED <<meta, lock, attach, note, editor, exports, crossed>>

(* removeTree, in the order of the names: annotation.md and attach.lock go *)
(* before meta.json; rmdir fails when one of them came back meanwhile.     *)
Empty(h) ==
    /\ host[h].at = "chosen"
    /\ note' = [note EXCEPT ![host[h].id] = None]
    /\ attach' = [attach EXCEPT ![host[h].id] = None]
    /\ Goes(h, "emptied")
    /\ UNCHANGED <<meta, lock, editor, exports, crossed>>

Clear(h) ==
    /\ host[h].at = "emptied"
    /\ LET id == host[h].id
           left == attach[id] # None \/ note[id] # None
       IN  /\ meta' = [meta EXCEPT ![id] = IF left THEN [NoMeta EXCEPT !.status = "bare"] ELSE NoMeta]
           /\ Goes(h, IF left THEN "failed" ELSE "cleared")
    /\ UNCHANGED <<lock, attach, note, editor, exports, crossed>>

(* The rest of exportSnapshot: the directory with the snapshot, and then   *)
(* meta.json.                                                              *)
MakeSlot(h) ==
    /\ host[h].at = "cleared"
    /\ LET id == host[h].id
       IN  meta' = IF meta[id].status = "none" THEN [meta EXCEPT ![id].status = "bare"] ELSE meta
    /\ Goes(h, "made")
    /\ UNCHANGED <<lock, attach, note, editor, exports, crossed>>

Publish(h) ==
    /\ host[h].at = "made" /\ meta[host[h].id].status # "none"
    /\ meta' = [meta EXCEPT ![host[h].id] = [status |-> "exported", snap |-> exports + 1, old |-> FALSE]]
    /\ exports' = exports + 1
    /\ Goes(h, "published")
    /\ UNCHANGED <<lock, attach, note, editor, crossed>>

(* A removal or a write throws.                                            *)
Fails(h) ==
    /\ host[h].at \in {"chosen", "emptied", "cleared", "made"}
    /\ Goes(h, "failed")
    /\ UNCHANGED <<meta, lock, attach, note, editor, exports, crossed>>

(* releaseAllocLock: the lock file is unlinked, whosever it is.            *)
Release(h) ==
    /\ host[h].at \in {"leaving", "failed", "published"}
    /\ lock' = [lock EXCEPT ![host[h].id] = NoLock]
    /\ Put(h, IF host[h].at = "leaving" THEN Next0(h) ELSE Idle)
    /\ UNCHANGED <<meta, attach, note, editor, exports, crossed>>

(* The process is killed; its lock file stays.                             *)
HostDies(h) ==
    /\ host[h] # Idle
    /\ Put(h, Idle)
    /\ lock' = [id \in SlotIds |-> IF lock[id].by = h THEN [lock[id] EXCEPT !.by = Dead] ELSE lock[id]]
    /\ UNCHANGED <<meta, attach, note, editor, exports, crossed>>

(* import: meta.json is read, with the newest annotation asked for after a *)
(* look at every slot; then annotation.md is looked for.                   *)
ImportReads(h, id) ==
    /\ host[h] = Idle /\ meta[id].status = "sent"
    /\ Put(h, [Idle EXCEPT !.at = "import", !.id = id, !.seen = meta[id]])
    /\ attach' \in {attach, Swept(SlotIds)}
    /\ UNCHANGED <<meta, lock, note, editor, exports, crossed>>

ImportLooks(h) ==
    /\ host[h].at = "import"
    /\ IF note[host[h].id] = None THEN Put(h, Idle) ELSE Goes(h, "importing")
    /\ UNCHANGED <<meta, lock, attach, note, editor, exports, crossed>>

(* cancel: is it attached?  Then meta.json is read.                        *)
CancelLooks(h, id) ==
    /\ host[h] = Idle /\ ~Attached(id)
    /\ Put(h, [Idle EXCEPT !.at = "cancel", !.id = id])
    /\ attach' = Swept({id})
    /\ UNCHANGED <<meta, lock, note, editor, exports, crossed>>

CancelReads(h) ==
    /\ host[h].at = "cancel"
    /\ LET m == meta[host[h].id]
       IN  IF m.status \in {"exported", "sent"}
           THEN Put(h, [host[h] EXCEPT !.at = "cancelling", !.seen = m])
           ELSE Put(h, Idle)
    /\ UNCHANGED <<meta, lock, attach, note, editor, exports, crossed>>

(* Both write back what they read, if there is a directory to write to.    *)
Mark(h) ==
    /\ host[h].at \in {"importing", "cancelling"}
    /\ LET id == host[h].id
           status == IF host[h].at = "importing" THEN "imported" ELSE "cancelled"
       IN  IF meta[id].status = "none"
           THEN UNCHANGED <<meta, crossed>>
           ELSE /\ meta' = [meta EXCEPT ![id] = [host[h].seen EXCEPT !.status = status]]
                /\ crossed' = IF meta[id].snap = host[h].seen.snap THEN crossed ELSE crossed \cup {id}
    /\ Put(h, Idle)
    /\ UNCHANGED <<lock, attach, note, editor, exports>>

(* SLOT_TTL_MS passes.                                                     *)
TimePasses(id) ==
    /\ meta[id].status = "exported" /\ ~meta[id].old
    /\ meta' = [meta EXCEPT ![id].old = TRUE]
    /\ UNCHANGED <<lock, attach, note, host, editor, exports, crossed>>

-----------------------------------------------------------------------------
(* Neovim.                                                                 *)

Attaches(n, slot) == editor' = [editor EXCEPT ![n] = slot]

(* finish_attach: the slot that was attached before is unlocked; two       *)
(* lookups never return the same table, so also when it is the same slot.  *)
UnlockPrevious(n, locks) ==
    IF editor[n] = NoSlot THEN locks ELSE [locks EXCEPT ![editor[n].id] = None]

(* lookup and lock_attach of a slot that waits for Send; neither looks at  *)
(* N.lock or at the TTL.                                                   *)
Attach(n, id) ==
    /\ meta[id].status = "exported"
    /\ attach[id] \in {None, Dead, n}
    /\ attach' = UnlockPrevious(n, [attach EXCEPT ![id] = n])
    /\ Attaches(n, [id |-> id, meta |-> meta[id], ready |-> TRUE])
    /\ crossed' = IF \/ editor[n].id = id
                     \/ \E h \in Hosts : host[h].id = id /\ host[h].at \in {"looked", "chosen", "emptied"}
                  THEN crossed \cup {id} ELSE crossed
    /\ UNCHANGED <<meta, lock, note, host, exports>>

(* The attachment fails, and the phase is "detached"; the slot of before   *)
(* stays locked.                                                           *)
AttachFails(n) ==
    /\ editor[n].ready
    /\ Attaches(n, [editor[n] EXCEPT !.ready = FALSE])
    /\ UNCHANGED <<meta, lock, attach, note, host, exports, crossed>>

(* Detached by attaching to a live bridge.                                 *)
AttachLive(n) ==
    /\ editor[n] # NoSlot
    /\ attach' = UnlockPrevious(n, attach)
    /\ Attaches(n, NoSlot)
    /\ UNCHANGED <<meta, lock, note, host, exports, crossed>>

(* send: annotation.md and the copy in last/, then meta.json as it was     *)
(* read by lookup; without a directory the first write fails.              *)
Send(n) ==
    /\ editor[n].ready /\ meta[editor[n].id].status # "none"
    /\ LET slot == editor[n]
       IN  /\ meta' = [meta EXCEPT ![slot.id] = [slot.meta EXCEPT !.status = "sent"]]
           /\ note' = [note EXCEPT ![slot.id] = slot.meta.snap]
    /\ attach' = UnlockPrevious(n, attach)
    /\ Attaches(n, NoSlot)
    /\ UNCHANGED <<lock, host, exports, crossed>>

(* cancel: a write that fails is passed over.                              *)
CancelAttached(n) ==
    /\ editor[n] # NoSlot
    /\ LET slot == editor[n]
       IN  meta' = IF meta[slot.id].status = "none" THEN meta
                   ELSE [meta EXCEPT ![slot.id] = [slot.meta EXCEPT !.status = "cancelled"]]
    /\ attach' = UnlockPrevious(n, attach)
    /\ Attaches(n, NoSlot)
    /\ UNCHANGED <<lock, note, host, exports, crossed>>

(* Neovim quits or is killed: attach.lock stays.                           *)
EditorDies(n) ==
    /\ editor[n] # NoSlot
    /\ attach' = [id \in SlotIds |-> IF attach[id] = n THEN Dead ELSE attach[id]]
    /\ Attaches(n, NoSlot)
    /\ UNCHANGED <<meta, lock, note, host, exports, crossed>>

Next ==
    \/ \E h \in Hosts :
          \/ Export(h) \/ NextRound(h) \/ TakeOver(h) \/ WritePid(h) \/ Look(h) \/ Decide(h)
          \/ Empty(h) \/ Clear(h) \/ MakeSlot(h) \/ Publish(h) \/ Fails(h) \/ Release(h)
          \/ ImportLooks(h) \/ CancelReads(h) \/ Mark(h) \/ HostDies(h)
          \/ \E id \in SlotIds : TryCandidate(h, id) \/ ImportReads(h, id) \/ CancelLooks(h, id)
    \/ \E id \in SlotIds : TimePasses(id)
    \/ \E n \in Editors :
          \/ AttachFails(n) \/ AttachLive(n) \/ Send(n) \/ CancelAttached(n) \/ EditorDies(n)
          \/ \E id \in SlotIds : Attach(n, id)

Spec == Init /\ [][Next]_vars

-----------------------------------------------------------------------------
(* Properties.  A slot is crossed when two processes got hold of it at     *)
(* once: a lock was taken over while its owner had not written its pid, a  *)
(* Neovim attached between the look for it and the end of the removal, or  *)
(* attached again to the slot it held, or a meta.json was written back     *)
(* over that of another export (README, section 4).                        *)

(* An id that was handed out names the same snapshot until Send, cancel or *)
(* the TTL, whoever allocates meanwhile and however often a command line   *)
(* or a Neovim dies, as long as the slot is not crossed.                   *)
IdIsKept ==
    [][\A i \in SlotIds \ crossed' :
          meta[i].status = "exported" /\ ~meta[i].old => meta'[i].snap = meta[i].snap]_vars

(* A slot that is not crossed is not recycled under the Neovim attached to *)
(* it, also after the TTL, and what an importer finds in it annotates the  *)
(* snapshot that the slot holds.                                           *)
AttachedIsNotRecycled ==
    /\ \A n \in Editors : editor[n] # NoSlot /\ editor[n].id \notin crossed =>
          meta[editor[n].id].snap = editor[n].meta.snap
    /\ \A id \in SlotIds \ crossed :
          meta[id].status \in {"sent", "imported"} => note[id] \in {None, meta[id].snap}

(* file-store.test.ts:133 says of the store that it "never recycles a slot *)
(* that is still attached".  The look for attach.lock, the reading of      *)
(* meta.json and the removal of the slot are three steps, and a Neovim may *)
(* attach to the slot, whose TTL is over, between them.                    *)
NeverRecyclesAttached ==
    \A n \in Editors :
        editor[n] # NoSlot => meta[editor[n].id].snap \in {0, editor[n].meta.snap}
=============================================================================
