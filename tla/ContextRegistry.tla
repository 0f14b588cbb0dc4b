--------------------------- MODULE ContextRegistry ---------------------------
(***************************************************************************)
(* The registry of persistent contexts: ginfo->contexts, the reference     *)
(* counts of the interned Contexts roots, and the global lock, as shared   *)
(* by the processes that map the same database file.                       *)
(*                                                                         *)
(* A process runs transactions with runWithGcIntern, runWithResult or      *)
(* runLocked, either without a synchronizer (the global lock is held from  *)
(* the read of the root to the commit) or with one (the transaction runs   *)
(* on a borrowed snapshot and the lock is only taken to commit), or reads  *)
(* a snapshot with withContext.  A process may crash at any step: the      *)
(* mutex is robust and the next locker takes it over, but the references   *)
(* it held stay counted in the file.                                       *)
(*                                                                         *)
(* The content of a context is the set of transactions it includes.  Addr  *)
(* is the persistent heap: an address whose count dropped to zero is       *)
(* handed out again by the next SKIP_intern_shared.                        *)
(***************************************************************************)
EXTENDS Integers, FiniteSets

CONSTANTS
  Proc,            \* processes attached to the mapping
  Addr,            \* addresses of interned Contexts roots
  Tx,              \* transactions
  None,            \* NULL, and the owner of a free lock
  Modes,           \* entry points in use, a subset of AllModes
  Initialised,     \* was the main context set before the processes start?
  MaxCrash,        \* bound on crashes
  NotifyMayRaise,  \* may notifyAll, or an action it runs, raise?
  UseForkExists    \* bound on the calls of forkExists

\* The entry point and whether it is given a synchronizer; runLocked has none,
\* withContext needs none and takes the lock only to read the root.
AllModes == [op : {"gc", "result"}, sync : BOOLEAN]
            \cup {[op |-> "locked", sync |-> FALSE], [op |-> "read", sync |-> TRUE]}

ASSUME RegistryAssumption ==
  /\ None \notin Proc \cup Addr \cup Tx
  /\ IsFiniteSet(Proc)
  /\ Modes \subseteq AllModes
  /\ Initialised \in BOOLEAN
  /\ MaxCrash \in Nat
  /\ NotifyMayRaise \in BOOLEAN
  /\ UseForkExists \in Nat

VARIABLES
  lock,     \* owner of gmutex, or None
  root,     \* ginfo->contexts
  refs,     \* reference count of every address
  val,      \* the transactions in the context at an address
  pc,       \* where each process is
  mode,     \* the entry point each process is in
  tx,       \* the transaction it runs
  held,     \* `contexts` in the caller: the snapshot it owns a reference to
  ctx,      \* `contexts` in SKIP_context_sync_no_lock: the root re-read there
  gref,     \* the former global reference a commit still has to free
  leaked,   \* references that nobody will release
  status,   \* what became of every transaction
  crashes,  \* crashes so far
  queries   \* calls of forkExists so far

vars == <<lock, root, refs, val, pc, mode, tx, held, ctx, gref, leaked, status,
          crashes, queries>>

PCs == {"idle", "has", "init", "get", "run", "lock", "sync", "commit",
        "release", "after", "notify", "free", "raised"}

\* Where a process owns a reference to a snapshot.
Borrowing == {"run", "lock", "sync", "commit", "release", "after", "notify", "free", "raised"}

Statuses == {"new", "running", "done", "failed", "lost"}

\* An address SKIP_intern_shared may return.
Fresh == {a \in Addr : refs[a] = 0}

At(x, a) == IF x = a THEN 1 ELSE 0

\* sk_incr_ref_count of one address.
Incr(f, a) == [f EXCEPT ![a] = @ + 1]

goto(p, label) == pc' = [pc EXCEPT ![p] = label]

\* The transaction a process runs gets its outcome; a read has none.
Settle(p, outcome) ==
  status' = [t \in Tx |-> IF tx[p] = t THEN outcome ELSE status[t]]

Init ==
  /\ lock = None
  /\ IF Initialised
     THEN \E a \in Addr : /\ root = a
                          /\ refs = [b \in Addr |-> At(b, a)]
     ELSE root = None /\ refs = [b \in Addr |-> 0]
  /\ val = [a \in Addr |-> {}]
  /\ pc = [p \in Proc |-> "idle"]
  /\ mode = [p \in Proc |-> [op |-> "read", sync |-> TRUE]]
  /\ tx = [p \in Proc |-> None]
  /\ held = [p \in Proc |-> None]
  /\ ctx = [p \in Proc |-> None]
  /\ gref = [p \in Proc |-> None]
  /\ leaked = [a \in Addr |-> 0]
  /\ status = [t \in Tx |-> "new"]
  /\ crashes = 0
  /\ queries = 0

-----------------------------------------------------------------------------
(* Entering a transaction *)

\* A call of runWithGcIntern, runLocked, runWithResult or withContext; only
\* the first two look for the context and initialise it, the others need it.
Begin(p, m) ==
  /\ pc[p] = "idle"
  /\ mode' = [mode EXCEPT ![p] = m]
  /\ IF m.op = "read"
     THEN UNCHANGED <<tx, status>>
     ELSE \E t \in Tx : /\ status[t] = "new"
                        /\ tx' = [tx EXCEPT ![p] = t]
                        /\ status' = [status EXCEPT ![t] = "running"]
  /\ \/ m.op \in {"gc", "locked"} /\ goto(p, "has")
     \/ m.op \in {"result", "read"} /\ root # None /\ goto(p, "get")
  /\ UNCHANGED <<lock, root, refs, val, held, ctx, gref, leaked, crashes, queries>>

\* gHasContext: takes and gives back the lock around the test.
HasContext(p) ==
  /\ pc[p] = "has"
  /\ lock = None
  /\ goto(p, IF root = None THEN "init" ELSE "get")
  /\ UNCHANGED <<lock, root, refs, val, mode, tx, held, ctx, gref, leaked,
                 status, crashes, queries>>

\* gContextInit: interns an empty context and overwrites the root, without
\* looking at it again and without freeing what it pointed to.
ContextInit(p) ==
  /\ pc[p] = "init"
  /\ lock = None
  /\ \E a \in Fresh : /\ refs' = [refs EXCEPT ![a] = 1]
                      /\ val' = [val EXCEPT ![a] = {}]
                      /\ root' = a
  /\ leaked' = IF root = None THEN leaked ELSE Incr(leaked, root)
  /\ goto(p, "get")
  /\ UNCHANGED <<lock, mode, tx, held, ctx, gref, status, crashes, queries>>

\* Mutant: the borrowed root is not counted.
GetContexts_NoIncr(p) ==
  /\ pc[p] = "get"
  /\ lock = None
  /\ lock' = IF mode[p].sync THEN None ELSE p
  /\ held' = [held EXCEPT ![p] = root]
  /\ goto(p, "run")
  /\ UNCHANGED <<root, refs, val, mode, tx, ctx, gref, leaked, status, crashes, queries>>

\* Mutant: the lock is given back after the read whatever the mode.
GetContexts_Unlocks(p) ==
  /\ pc[p] = "get"
  /\ lock = None
  /\ held' = [held EXCEPT ![p] = root]
  /\ refs' = Incr(refs, root)
  /\ goto(p, "run")
  /\ UNCHANGED <<lock, root, val, mode, tx, ctx, gref, leaked, status, crashes, queries>>

\* Borrow the current root: gGlobalLock and gContextsGetNoLock without a
\* synchronizer, gUnsafeContextsGet (which unlocks again) with one.
GetContexts(p) ==
  /\ pc[p] = "get"
  /\ lock = None
  /\ lock' = IF mode[p].sync THEN None ELSE p
  /\ held' = [held EXCEPT ![p] = root]
  /\ refs' = Incr(refs, root)
  /\ goto(p, "run")
  /\ UNCHANGED <<root, val, mode, tx, ctx, gref, leaked, status, crashes, queries>>

-----------------------------------------------------------------------------
(* Running it *)

\* The end of a process in the middle of a call, or an exception that leaves
\* the call with its references: nobody frees them, and the robust mutex goes
\* to the next locker.
Abandon(p, outcome) ==
  /\ leaked' = [a \in Addr |-> leaked[a] + At(held[p], a) + At(ctx[p], a)
                                         + At(gref[p], a)]
  /\ held' = [held EXCEPT ![p] = None]
  /\ ctx' = [ctx EXCEPT ![p] = None]
  /\ gref' = [gref EXCEPT ![p] = None]
  /\ lock' = IF lock = p THEN None ELSE lock
  /\ tx' = [tx EXCEPT ![p] = None]
  /\ Settle(p, outcome)
  /\ goto(p, "idle")
  /\ UNCHANGED <<root, refs, val, mode>>

\* f returns: a transaction goes on to the commit, a read frees its snapshot.
RunOk(p) ==
  /\ pc[p] = "run"
  /\ goto(p, CASE mode[p].op = "read" -> "free"
               [] mode[p].op # "read" /\ mode[p].sync -> "lock"
               [] OTHER -> "sync")
  /\ UNCHANGED <<lock, root, refs, val, mode, tx, held, ctx, gref, leaked,
                 status, crashes, queries>>

\* Mutant: the error path returns without freeing the snapshot.
RunRaise_NoFree(p) ==
  /\ pc[p] = "run"
  /\ Abandon(p, "failed")
  /\ UNCHANGED <<crashes, queries>>

\* Mutant: the error path frees the snapshot before it gives the lock back.
RunRaise_KeepsLock(p) ==
  /\ pc[p] = "run"
  /\ Settle(p, "failed")
  /\ goto(p, "free")
  /\ UNCHANGED <<lock, root, refs, val, mode, tx, held, ctx, gref, leaked, crashes,
                 queries>>

\* f raises.  runWithGcIntern and runWithResult unlock and free the snapshot,
\* withContext frees it; runLocked catches nothing.
RunRaise(p) ==
  /\ pc[p] = "run"
  /\ IF mode[p].op = "locked"
     THEN Abandon(p, "failed")
     ELSE /\ lock' = IF lock = p THEN None ELSE lock
          /\ Settle(p, "failed")
          /\ goto(p, "free")
          /\ UNCHANGED <<root, refs, val, mode, tx, held, ctx, gref, leaked>>
  /\ UNCHANGED <<crashes, queries>>

\* Mutant: the snapshot is freed twice.
Free_Twice(p) ==
  /\ pc[p] = "free"
  /\ lock = None
  /\ refs' = [refs EXCEPT ![held[p]] = @ - 2]
  /\ held' = [held EXCEPT ![p] = None]
  /\ tx' = [tx EXCEPT ![p] = None]
  /\ goto(p, "idle")
  /\ UNCHANGED <<lock, root, val, mode, ctx, gref, leaked, status, crashes, queries>>

\* gUnsafeFree(contexts), then the call returns.
Free(p) ==
  /\ pc[p] = "free"
  /\ lock = None
  /\ refs' = [refs EXCEPT ![held[p]] = @ - 1]
  /\ held' = [held EXCEPT ![p] = None]
  /\ tx' = [tx EXCEPT ![p] = None]
  /\ goto(p, "idle")
  /\ UNCHANGED <<lock, root, val, mode, ctx, gref, leaked, status, crashes, queries>>

-----------------------------------------------------------------------------
(* Committing it: SKIP_context_sync, SKIP_context_sync_no_lock *)

\* SKIP_context_sync takes the lock.
SyncLock(p) ==
  /\ pc[p] = "lock"
  /\ lock = None
  /\ lock' = p
  /\ goto(p, "sync")
  /\ UNCHANGED <<root, refs, val, mode, tx, held, ctx, gref, leaked, status,
                 crashes, queries>>

\* SKIP_contexts_get_unsafe, then the first case of resolveContext: without a
\* synchronizer the root must still be the one the transaction started from.
SyncGet(p) ==
  /\ pc[p] = "sync"
  /\ ctx' = [ctx EXCEPT ![p] = root]
  /\ refs' = Incr(refs, root)
  /\ goto(p, IF ~ mode[p].sync /\ val[held[p]] # val[root] THEN "raised" ELSE "commit")
  /\ UNCHANGED <<lock, root, val, mode, tx, held, gref, leaked, status, crashes,
                 queries>>

\* Mutant: the transaction is merged into the snapshot it started from.
ResolveContext_Stale(p) ==
  {[ok |-> TRUE, val |-> val[held[p]] \cup {tx[p]}]}

\* Mutant: an error in lockF commits what was exported before it.
ResolveContext_Partial(p) ==
  {[ok |-> ok, val |-> val[ctx[p]] \cup {tx[p]}] : ok \in {TRUE, ~ mode[p].sync}}

\* What resolveContext returns: the delta; or the root with the transaction
\* merged into it; or, when importFromRoot, exportToRoot or lockF raises, the
\* root with the error recorded in it.
ResolveContext(p) ==
  IF mode[p].sync
  THEN {[ok |-> TRUE, val |-> val[ctx[p]] \cup {tx[p]}], [ok |-> FALSE, val |-> val[ctx[p]]]}
  ELSE {[ok |-> TRUE, val |-> val[held[p]] \cup {tx[p]}]}

\* SKIP_intern_shared and sk_commit: the root now points to the new context.
SyncCommit(p) ==
  /\ pc[p] = "commit"
  /\ \E a \in Fresh, c \in ResolveContext(p) :
       /\ refs' = [refs EXCEPT ![a] = 1]
       /\ val' = [val EXCEPT ![a] = c.val]
       /\ root' = a
       /\ Settle(p, IF c.ok THEN "done" ELSE "failed")
  /\ gref' = [gref EXCEPT ![p] = root]
  /\ goto(p, "release")
  /\ UNCHANGED <<lock, mode, tx, held, ctx, leaked, crashes, queries>>

\* The heap is full: the allocation ends the process.
OutOfMemory(p) ==
  /\ pc[p] \in {"init", "commit"}
  /\ pc[p] = "init" => lock = None
  /\ Fresh = {}
  /\ Abandon(p, "lost")
  /\ UNCHANGED <<crashes, queries>>

\* Mutant: the former global reference is not freed.
SyncRelease_KeepsGlobal(p) ==
  /\ pc[p] = "release"
  /\ refs' = [a \in Addr |-> refs[a] + At(root, a) - At(held[p], a) - At(ctx[p], a)]
  /\ held' = [held EXCEPT ![p] = root]
  /\ ctx' = [ctx EXCEPT ![p] = None]
  /\ gref' = [gref EXCEPT ![p] = None]
  /\ goto(p, "after")
  /\ UNCHANGED <<lock, root, val, mode, tx, leaked, status, crashes, queries>>

\* Mutant: the reference returned to the caller is not counted.
SyncRelease_NoIncr(p) ==
  /\ pc[p] = "release"
  /\ refs' = [a \in Addr |-> refs[a] - At(held[p], a) - At(ctx[p], a) - At(gref[p], a)]
  /\ held' = [held EXCEPT ![p] = root]
  /\ ctx' = [ctx EXCEPT ![p] = None]
  /\ gref' = [gref EXCEPT ![p] = None]
  /\ goto(p, "after")
  /\ UNCHANGED <<lock, root, val, mode, tx, leaked, status, crashes, queries>>

\* sk_free_root of the transaction's snapshot, of the reference taken by
\* SyncGet and of the former global reference; the caller gets a reference to
\* the new root.
SyncRelease(p) ==
  /\ pc[p] = "release"
  /\ refs' = [a \in Addr |-> refs[a] + At(root, a) - At(held[p], a)
                                     - At(ctx[p], a) - At(gref[p], a)]
  /\ held' = [held EXCEPT ![p] = root]
  /\ ctx' = [ctx EXCEPT ![p] = None]
  /\ gref' = [gref EXCEPT ![p] = None]
  /\ goto(p, "after")
  /\ UNCHANGED <<lock, root, val, mode, tx, leaked, status, crashes, queries>>

-----------------------------------------------------------------------------
(* After the commit *)

\* The lock is given back before the notifications (CStop, and every sync
\* with a synchronizer).
Unlock(p) ==
  /\ pc[p] = "after"
  /\ lock' = None
  /\ goto(p, "notify")
  /\ UNCHANGED <<root, refs, val, mode, tx, held, ctx, gref, leaked, status,
                 crashes, queries>>

\* CContinue: the next step runs on the context just committed.  Without a
\* synchronizer the lock is kept, and the notifications run under it.
Continue(p, t) ==
  /\ mode[p].op = "gc"
  /\ pc[p] = (IF mode[p].sync THEN "notify" ELSE "after")
  /\ status[t] = "new"
  /\ status' = [status EXCEPT ![t] = "running"]
  /\ tx' = [tx EXCEPT ![p] = t]
  /\ goto(p, "run")
  /\ UNCHANGED <<lock, root, refs, val, mode, held, ctx, gref, leaked, crashes,
                 queries>>

\* notifyAll and the postponed actions, then on to gUnsafeFree(new.contexts).
Notify(p) ==
  /\ pc[p] = "notify"
  /\ goto(p, "free")
  /\ UNCHANGED <<lock, root, refs, val, mode, tx, held, ctx, gref, leaked,
                 status, crashes, queries>>

\* A notification or an action raises: the new contexts are not freed.
\* runWithResult turns the exception into a Failure; the other two let it out.
NotifyRaise(p) ==
  /\ NotifyMayRaise
  /\ \/ pc[p] = "notify"
     \/ pc[p] = "after" /\ mode[p] = [op |-> "gc", sync |-> FALSE]
  /\ Abandon(p, "failed")
  /\ UNCHANGED <<crashes, queries>>

-----------------------------------------------------------------------------
\* forkExists borrows the contexts to look a fork up and never frees them.
ForkExists(p) ==
  /\ queries < UseForkExists
  /\ pc[p] = "idle"
  /\ lock = None
  /\ root # None
  /\ refs' = Incr(refs, root)
  /\ leaked' = Incr(leaked, root)
  /\ queries' = queries + 1
  /\ UNCHANGED <<lock, root, val, pc, mode, tx, held, ctx, gref, status, crashes>>

\* The process is killed.  What it committed stays committed.
Crash(p) ==
  /\ crashes < MaxCrash
  /\ pc[p] # "idle"
  /\ crashes' = crashes + 1
  /\ Abandon(p, IF tx[p] \in Tx /\ status[tx[p]] # "running" THEN status[tx[p]] ELSE "lost")
  /\ UNCHANGED queries

Step(p) ==
  \/ HasContext(p)
  \/ ContextInit(p)
  \/ GetContexts(p)
  \/ RunOk(p)
  \/ RunRaise(p)
  \/ Free(p)
  \/ SyncLock(p)
  \/ SyncGet(p)
  \/ SyncCommit(p)
  \/ OutOfMemory(p)
  \/ SyncRelease(p)
  \/ Unlock(p)
  \/ \E t \in Tx : Continue(p, t)
  \/ Notify(p)
  \/ NotifyRaise(p)

Next ==
  \E p \in Proc :
    \/ \E m \in Modes : Begin(p, m)
    \/ Step(p)
    \/ ForkExists(p)
    \/ Crash(p)

Spec == Init /\ [][Next]_vars

\* Every process that is in a call keeps running it; calls need not begin.
FairSpec == Spec /\ \A p \in Proc : WF_vars(Step(p))

-----------------------------------------------------------------------------
(* Properties *)

TypeOK ==
  /\ lock \in Proc \cup {None}
  /\ root \in Addr \cup {None}
  /\ refs \in [Addr -> Nat]
  /\ val \in [Addr -> SUBSET Tx]
  /\ pc \in [Proc -> PCs]
  /\ mode \in [Proc -> AllModes]
  /\ tx \in [Proc -> Tx \cup {None}]
  /\ held \in [Proc -> Addr \cup {None}]
  /\ ctx \in [Proc -> Addr \cup {None}]
  /\ gref \in [Proc -> Addr \cup {None}]
  /\ leaked \in [Addr -> Nat]
  /\ status \in [Tx -> Statuses]
  /\ crashes \in Nat
  /\ queries \in Nat

\* The processes whose pointer in f is a.
Owners(f, a) == {p \in Proc : f[p] = a}

(* The count of every root is exactly the number of references there are to it:
   the global one, those the processes hold in a call or in the middle of a
   commit, and those that leaked.  sk_free_root and sk_incr_ref_count stay
   balanced along every path of runWithGcIntern, runWithResult, runLocked and
   SKIP_context_sync_no_lock. *)
RefCount ==
  \A a \in Addr :
    refs[a] = At(root, a) + Cardinality(Owners(held, a)) + Cardinality(Owners(ctx, a))
              + Cardinality(Owners(gref, a)) + leaked[a]

(* No use after free: the root and every borrowed snapshot have a positive
   count, so sk_free_root cannot have given their address back. *)
BorrowedAlive ==
  /\ root # None => refs[root] > 0
  /\ \A p \in Proc : /\ held[p] # None => refs[held[p]] > 0
                     /\ ctx[p] # None => refs[ctx[p]] > 0

(* A snapshot is immutable while somebody borrows it, whoever commits, frees
   and reuses addresses meanwhile: this is what lets withContext and a
   transaction with a synchronizer read without the lock. *)
SnapshotStable ==
  [][\A p \in Proc :
       held[p] # None /\ held'[p] = held[p] => val'[held[p]] = val[held[p]]]_vars

(* resolveContext's invariant_violation "Concurrent access without
   synchronizer" is never reached: the lock a transaction without synchronizer
   keeps from the read of the root to the commit covers commits by others. *)
NoConcurrentAccess == \A p \in Proc : pc[p] # "raised"

(* A transaction whose commit went through is in the root, and stays in it whatever
   the other processes commit from older snapshots, and whoever crashes.  (What the
   caller is told may differ: runWithResult with a synchronizer, a mode that nothing
   in the repository uses, returns Success also when the merge raised.) *)
CommittedKept ==
  \A t \in Tx : status[t] = "done" => root # None /\ t \in val[root]

(* A transaction whose f raised, or whose merge into the root raised, left
   nothing in the root. *)
FailedAbsent ==
  \A t \in Tx : status[t] = "failed" /\ root # None => t \notin val[root]

(* When every call has returned and no process crashed, the only reference to
   a root is the global one: no path of the calls keeps a snapshot alive. *)
QuiescentRefs ==
  (\A p \in Proc : pc[p] = "idle") /\ crashes = 0
    => \A a \in Addr : refs[a] <= At(root, a)

(* Every call returns: nobody waits for ever for the global lock, even when its
   owner crashed. *)
CallsReturn == \A p \in Proc : (pc[p] # "idle") ~> (pc[p] = "idle")

(* Where a process has which pointer, and which transaction: the part of the
   inductive invariant that ties the program counter of the calls to what they
   own. *)
Shape ==
  \A p \in Proc :
    /\ pc[p] \in Borrowing => held[p] \in Addr
    /\ pc[p] \notin Borrowing => held[p] = None
    /\ pc[p] \in {"commit", "release", "raised"} => ctx[p] \in Addr
    /\ pc[p] \notin {"commit", "release", "raised"} => ctx[p] = None
    /\ pc[p] = "release" => gref[p] \in Addr
    /\ pc[p] # "release" => gref[p] = None
    /\ pc[p] \notin {"idle", "has", "init"} => root \in Addr
    /\ pc[p] # "idle" /\ mode[p].op # "read" => tx[p] \in Tx
    /\ pc[p] \in {"lock", "sync", "commit"} => mode[p].op # "read"
    /\ pc[p] = "lock" => mode[p].sync
    /\ pc[p] = "init" => ~ Initialised

(* What the global lock protects: only its owner is in the commit, and a
   transaction without synchronizer that owns it still sees the root. *)
LockInv ==
  \A p \in Proc :
    /\ pc[p] \in {"sync", "commit", "release", "after", "raised"} => lock = p
    /\ pc[p] = "run" /\ ~ mode[p].sync => lock = p
    /\ pc[p] \in {"run", "sync", "commit"} /\ ~ mode[p].sync => held[p] = root
    /\ pc[p] = "commit" => ctx[p] = root
    /\ pc[p] = "after" => held[p] = root

InitialisedInv == Initialised => root \in Addr

Store == INSTANCE AtomicStore WITH
           Tx <- Tx, db <- IF root = None THEN {} ELSE val[root]

(* Transactions take effect atomically, one after the other, and are never
   undone: AtomicStore. *)
ImplementsAtomicStore == Store!Spec

=============================================================================
