------------------------ MODULE ContextRegistryProofs ------------------------
(***************************************************************************)
(* Proofs about ContextRegistry, for any number of processes, addresses,   *)
(* transactions and crashes.                                               *)
(***************************************************************************)
EXTENDS ContextRegistry, FiniteSetTheorems, TLAPS

-----------------------------------------------------------------------------
(* Counting references *)

\* f2 is f with the pointer of p redirected to b: what that does to the count of a.
Moved(f, f2, p, b, a) ==
  /\ Cardinality(Owners(f, a)) \in Nat
  /\ Cardinality(Owners(f2, a)) \in Nat
  /\ Cardinality(Owners(f2, a)) = Cardinality(Owners(f, a)) - At(f[p], a) + At(b, a)

\* Redirecting one pointer of f moves one unit of the count.
LEMMA CountUpdate ==
  ASSUME NEW f \in [Proc -> Addr \cup {None}], NEW p \in Proc,
         NEW b \in Addr \cup {None}, NEW a \in Addr,
         NEW f2, f2 = [f EXCEPT ![p] = b]
  PROVE  Moved(f, f2, p, b, a)
<1> DEFINE S == Owners(f, a) \ {p}
<1>1. IsFiniteSet(Owners(f, a)) /\ IsFiniteSet(S) /\ IsFiniteSet(Owners(f2, a))
  <2>1. IsFiniteSet(Proc)
    BY RegistryAssumption
  <2> QED
    BY <2>1, FS_Subset DEF Owners
<1>2. Cardinality(S) \in Nat
  BY <1>1, FS_CardinalityType
<1>3. Cardinality(Owners(f, a)) = Cardinality(S) + At(f[p], a)
  <2>1. CASE f[p] = a
    <3>1. Owners(f, a) = S \cup {p} /\ p \notin S
      BY <2>1 DEF Owners
    <3>2. At(f[p], a) = 1
      BY <2>1 DEF At
    <3> HIDE DEF S
    <3> QED
      BY <3>1, <3>2, <1>1, <1>2, FS_AddElement
  <2>2. CASE f[p] # a
    <3>1. Owners(f, a) = S
      BY <2>2 DEF Owners
    <3>2. At(f[p], a) = 0
      BY <2>2 DEF At
    <3> HIDE DEF S
    <3> QED
      BY <3>1, <3>2, <1>2
  <2> QED
    BY <2>1, <2>2
<1>4. Cardinality(Owners(f2, a)) = Cardinality(S) + At(b, a)
  <2>1. CASE b = a
    <3>1. Owners(f2, a) = S \cup {p} /\ p \notin S
      BY <2>1 DEF Owners
    <3>2. At(b, a) = 1
      BY <2>1 DEF At
    <3> HIDE DEF S
    <3> QED
      BY <3>1, <3>2, <1>1, <1>2, FS_AddElement
  <2>2. CASE b # a
    <3>1. Owners(f2, a) = S
      BY <2>2 DEF Owners
    <3>2. At(b, a) = 0
      BY <2>2 DEF At
    <3> HIDE DEF S
    <3> QED
      BY <3>1, <3>2, <1>2
  <2> QED
    BY <2>1, <2>2
<1> QED
  BY <1>2, <1>3, <1>4 DEF At, Moved

\* A pointer that points somewhere is counted.
LEMMA CountPositive ==
  ASSUME NEW f \in [Proc -> Addr \cup {None}], NEW p \in Proc, f[p] \in Addr
  PROVE  Cardinality(Owners(f, f[p])) \in Nat \ {0}
<1>1. IsFiniteSet(Owners(f, f[p]))
  BY RegistryAssumption, FS_Subset DEF Owners
<1>2. p \in Owners(f, f[p])
  BY DEF Owners
<1> QED
  BY <1>1, <1>2, FS_CardinalityType, FS_EmptySet

-----------------------------------------------------------------------------
(* The inductive invariant *)

IInv == TypeOK /\ Shape /\ LockInv /\ InitialisedInv /\ RefCount

\* The control part is preserved by every step.
LEMMA ControlStep ==
  ASSUME TypeOK, Shape, LockInv, InitialisedInv, [Next]_vars
  PROVE  Shape' /\ LockInv' /\ InitialisedInv'
<1> USE RegistryAssumption
<1> USE DEF TypeOK, Shape, LockInv, InitialisedInv, goto, Borrowing
<1>1. CASE UNCHANGED vars
  BY <1>1 DEF vars
<1>2. ASSUME NEW p \in Proc, NEW m \in Modes, Begin(p, m)
      PROVE  Shape' /\ LockInv' /\ InitialisedInv'
  BY <1>2 DEF Begin, AllModes
<1>3. ASSUME NEW p \in Proc, HasContext(p)
      PROVE  Shape' /\ LockInv' /\ InitialisedInv'
  BY <1>3 DEF HasContext
<1>4. ASSUME NEW p \in Proc, ContextInit(p)
      PROVE  Shape' /\ LockInv' /\ InitialisedInv'
  BY <1>4 DEF ContextInit, Fresh
<1>5. ASSUME NEW p \in Proc, GetContexts(p)
      PROVE  Shape' /\ LockInv' /\ InitialisedInv'
  BY <1>5 DEF GetContexts
<1>6. ASSUME NEW p \in Proc, RunOk(p)
      PROVE  Shape' /\ LockInv' /\ InitialisedInv'
  BY <1>6 DEF RunOk
<1>7. ASSUME NEW p \in Proc, RunRaise(p)
      PROVE  Shape' /\ LockInv' /\ InitialisedInv'
  BY <1>7 DEF RunRaise, Abandon, Settle
<1>8. ASSUME NEW p \in Proc, Free(p)
      PROVE  Shape' /\ LockInv' /\ InitialisedInv'
  BY <1>8 DEF Free
<1>9. ASSUME NEW p \in Proc, SyncLock(p)
      PROVE  Shape' /\ LockInv' /\ InitialisedInv'
  BY <1>9 DEF SyncLock
<1>10. ASSUME NEW p \in Proc, SyncGet(p)
      PROVE  Shape' /\ LockInv' /\ InitialisedInv'
  BY <1>10 DEF SyncGet
<1>11. ASSUME NEW p \in Proc, SyncCommit(p)
      PROVE  Shape' /\ LockInv' /\ InitialisedInv'
  BY <1>11 DEF SyncCommit, Fresh, Settle
<1>12. ASSUME NEW p \in Proc, OutOfMemory(p)
      PROVE  Shape' /\ LockInv' /\ InitialisedInv'
  BY <1>12 DEF OutOfMemory, Abandon, Settle
<1>13. ASSUME NEW p \in Proc, SyncRelease(p)
      PROVE  Shape' /\ LockInv' /\ InitialisedInv'
  BY <1>13 DEF SyncRelease
<1>14. ASSUME NEW p \in Proc, Unlock(p)
      PROVE  Shape' /\ LockInv' /\ InitialisedInv'
  BY <1>14 DEF Unlock
<1>15. ASSUME NEW p \in Proc, Notify(p)
      PROVE  Shape' /\ LockInv' /\ InitialisedInv'
  BY <1>15 DEF Notify
<1>16. ASSUME NEW p \in Proc, NotifyRaise(p)
      PROVE  Shape' /\ LockInv' /\ InitialisedInv'
  BY <1>16, SMTT(60) DEF NotifyRaise, Abandon, Settle
<1>17. ASSUME NEW p \in Proc, NEW t \in Tx, Continue(p, t)
      PROVE  Shape' /\ LockInv' /\ InitialisedInv'
  BY <1>17 DEF Continue
<1>18. ASSUME NEW p \in Proc, ForkExists(p)
      PROVE  Shape' /\ LockInv' /\ InitialisedInv'
  BY <1>18 DEF ForkExists
<1>19. ASSUME NEW p \in Proc, Crash(p)
      PROVE  Shape' /\ LockInv' /\ InitialisedInv'
  BY <1>19 DEF Crash, Abandon
<1> QED
  BY <1>1, <1>2, <1>3, <1>4, <1>5, <1>6, <1>7, <1>8, <1>9, <1>10, <1>11, <1>12, <1>13, <1>14, <1>15, <1>16, <1>17, <1>18, <1>19 DEF Next, Step

\* An interned context goes to an address nobody points to.
LEMMA FreshUnused ==
  ASSUME TypeOK, RefCount, NEW a \in Fresh
  PROVE  /\ a \in Addr /\ a # root /\ leaked[a] = 0 /\ refs[a] = 0
         /\ Cardinality(Owners(held, a)) = 0
         /\ Cardinality(Owners(ctx, a)) = 0
         /\ Cardinality(Owners(gref, a)) = 0
         /\ \A p \in Proc : held[p] # a /\ ctx[p] # a /\ gref[p] # a
<1>1. a \in Addr /\ refs[a] = 0
  BY DEF Fresh
<1> DEFINE h == Cardinality(Owners(held, a))
           c == Cardinality(Owners(ctx, a))
           g == Cardinality(Owners(gref, a))
           r == At(root, a)
           l == leaked[a]
<1>2. h \in Nat /\ c \in Nat /\ g \in Nat
  <2>1. IsFiniteSet(Owners(held, a)) /\ IsFiniteSet(Owners(ctx, a)) /\ IsFiniteSet(Owners(gref, a))
    BY RegistryAssumption, FS_Subset DEF Owners
  <2> QED
    BY <2>1, FS_CardinalityType
<1>3. 0 = r + h + c + g + l
  BY <1>1 DEF RefCount
<1>4. l \in Nat /\ r \in Nat
  BY <1>1 DEF TypeOK, At
<1> HIDE DEF h, c, g, r, l
<1>5. h = 0 /\ c = 0 /\ g = 0 /\ l = 0 /\ r = 0
  BY <1>2, <1>3, <1>4
<1>6. \A p \in Proc : held[p] # a /\ ctx[p] # a /\ gref[p] # a
  <2> SUFFICES ASSUME NEW p \in Proc
               PROVE  held[p] # a /\ ctx[p] # a /\ gref[p] # a
    OBVIOUS
  <2>0. held \in [Proc -> Addr \cup {None}] /\ ctx \in [Proc -> Addr \cup {None}]
        /\ gref \in [Proc -> Addr \cup {None}]
    BY DEF TypeOK
  <2>1. held[p] # a
    BY <1>1, <1>5, <2>0, CountPositive DEF h
  <2>2. ctx[p] # a
    BY <1>1, <1>5, <2>0, CountPositive DEF c
  <2>3. gref[p] # a
    BY <1>1, <1>5, <2>0, CountPositive DEF g
  <2> QED
    BY <2>1, <2>2, <2>3
<1> QED
  BY <1>1, <1>5, <1>6 DEF h, c, g, r, l, At

\* The root is counted.
LEMMA RootCounted ==
  ASSUME TypeOK, RefCount, root \in Addr
  PROVE  refs[root] > 0
<1> DEFINE h == Cardinality(Owners(held, root))
           c == Cardinality(Owners(ctx, root))
           g == Cardinality(Owners(gref, root))
<1>1. h \in Nat /\ c \in Nat /\ g \in Nat
  <2>1. /\ IsFiniteSet(Owners(held, root)) /\ IsFiniteSet(Owners(ctx, root))
        /\ IsFiniteSet(Owners(gref, root))
    BY RegistryAssumption, FS_Subset DEF Owners
  <2> QED
    BY <2>1, FS_CardinalityType
<1>2. refs[root] = 1 + h + c + g + leaked[root]
  BY DEF RefCount, At
<1>3. leaked[root] \in Nat
  BY DEF TypeOK
<1> HIDE DEF h, c, g
<1> QED
  BY <1>1, <1>2, <1>3


\* Steps that move no pointer to a root.
NoRefs == UNCHANGED <<root, refs, held, ctx, gref, leaked>>

\* A step that moves no reference keeps the counts exact.
LEMMA NoRefsStep ==
  ASSUME TypeOK, RefCount, NoRefs
  PROVE  RefCount' /\ \A a \in Addr : refs'[a] \in Nat
BY DEF TypeOK, RefCount, NoRefs, Owners, At

\* What refs must gain when the root, the pointers of one process and the leaks
\* change, at address a.
Balanced(p, h, c, g, a) ==
  refs'[a] = refs[a] + (At(root', a) - At(root, a)) + (At(h, a) - At(held[p], a))
                     + (At(c, a) - At(ctx[p], a)) + (At(g, a) - At(gref[p], a))
                     + (leaked'[a] - leaked[a])

\* A step that balances keeps the counts exact, and never negative.
LEMMA BalancedStep ==
  ASSUME TypeOK, RefCount,
         NEW p \in Proc, NEW h \in Addr \cup {None}, NEW c \in Addr \cup {None},
         NEW g \in Addr \cup {None},
         held' = [held EXCEPT ![p] = h],
         ctx' = [ctx EXCEPT ![p] = c],
         gref' = [gref EXCEPT ![p] = g],
         leaked' \in [Addr -> Nat],
         \A a \in Addr : Balanced(p, h, c, g, a)
  PROVE  RefCount' /\ \A a \in Addr : refs'[a] \in Nat
<1> SUFFICES ASSUME NEW a \in Addr
             PROVE  /\ refs'[a] = At(root', a) + Cardinality(Owners(held', a))
                              + Cardinality(Owners(ctx', a)) + Cardinality(Owners(gref', a))
                              + leaked'[a]
                    /\ refs'[a] \in Nat
  BY DEF RefCount
<1>ch. Moved(held, held', p, h, a)
  BY CountUpdate, Zenon DEF TypeOK
<1>cc. Moved(ctx, ctx', p, c, a)
  BY CountUpdate, Zenon DEF TypeOK
<1>cg. Moved(gref, gref', p, g, a)
  BY CountUpdate, Zenon DEF TypeOK
<1> DEFINE h0 == Cardinality(Owners(held, a))
           c0 == Cardinality(Owners(ctx, a))
           g0 == Cardinality(Owners(gref, a))
           h1 == Cardinality(Owners(held', a))
           c1 == Cardinality(Owners(ctx', a))
           g1 == Cardinality(Owners(gref', a))
           r0 == At(root, a)
           r1 == At(root', a)
           l0 == leaked[a]
           l1 == leaked'[a]
           n0 == refs[a]
           n1 == refs'[a]
           hp == At(held[p], a)
           cp == At(ctx[p], a)
           gp == At(gref[p], a)
           hn == At(h, a)
           cn == At(c, a)
           gn == At(g, a)
<1>1. n0 = r0 + h0 + c0 + g0 + l0
  BY DEF RefCount
<1>2. n1 = n0 + (r1 - r0) + (hn - hp) + (cn - cp) + (gn - gp) + (l1 - l0)
  BY DEF Balanced
<1>4. h0 \in Nat /\ h1 \in Nat /\ h1 = h0 - hp + hn
  BY <1>ch DEF Moved
<1>5. c0 \in Nat /\ c1 \in Nat /\ c1 = c0 - cp + cn
  BY <1>cc DEF Moved
<1>6. g0 \in Nat /\ g1 \in Nat /\ g1 = g0 - gp + gn
  BY <1>cg DEF Moved
<1>7. l0 \in Nat /\ l1 \in Nat /\ r0 \in Nat /\ r1 \in Nat
  BY DEF TypeOK, At
<1>8. hp \in Nat /\ cp \in Nat /\ gp \in Nat /\ hn \in Nat /\ cn \in Nat /\ gn \in Nat
  BY DEF At
<1> HIDE DEF h0, c0, g0, h1, c1, g1, r0, r1, l0, l1, n0, n1, hp, cp, gp, hn, cn, gn
<1>9. n1 = r1 + h1 + c1 + g1 + l1 /\ n1 \in Nat
  BY <1>1, <1>2, <1>4, <1>5, <1>6, <1>7, <1>8
<1> QED
  BY <1>9 DEF n1, r1, h1, c1, g1, l1

\* Leaving a call with its references balances: they become leaks.
LEMMA AbandonBalances ==
  ASSUME TypeOK, RefCount, NEW p \in Proc, NEW o, Abandon(p, o)
  PROVE  RefCount' /\ \A a \in Addr : refs'[a] \in Nat
<1>1. leaked' \in [Addr -> Nat]
  BY DEF Abandon, TypeOK, At
<1>2. \A a \in Addr : Balanced(p, None, None, None, a)
  BY RegistryAssumption DEF Abandon, Balanced, TypeOK, At
<1>3. /\ held' = [held EXCEPT ![p] = None]
      /\ ctx' = [ctx EXCEPT ![p] = None]
      /\ gref' = [gref EXCEPT ![p] = None]
  BY DEF Abandon
<1> QED
  BY <1>1, <1>2, <1>3, BalancedStep, Zenon

\* Every step keeps the counts exact.
LEMMA CountStep ==
  ASSUME IInv, [Next]_vars
  PROVE  RefCount' /\ \A a \in Addr : refs'[a] \in Nat
<1> DEFINE Goal == RefCount' /\ \A a \in Addr : refs'[a] \in Nat
<1>0. TypeOK /\ RefCount /\ Shape
  BY DEF IInv
<1>1. CASE UNCHANGED vars
  BY <1>0, <1>1, NoRefsStep, SMTT(60) DEF vars, NoRefs
<1>2. ASSUME NEW p \in Proc, NEW m \in Modes, Begin(p, m) PROVE Goal
  BY <1>0, <1>2, NoRefsStep DEF Begin, NoRefs
<1>3. ASSUME NEW p \in Proc, HasContext(p) PROVE Goal
  BY <1>0, <1>3, NoRefsStep DEF HasContext, NoRefs
<1>4. ASSUME NEW p \in Proc, RunOk(p) PROVE Goal
  BY <1>0, <1>4, NoRefsStep DEF RunOk, NoRefs
<1>5. ASSUME NEW p \in Proc, SyncLock(p) PROVE Goal
  BY <1>0, <1>5, NoRefsStep DEF SyncLock, NoRefs
<1>6. ASSUME NEW p \in Proc, Unlock(p) PROVE Goal
  BY <1>0, <1>6, NoRefsStep DEF Unlock, NoRefs
<1>7. ASSUME NEW p \in Proc, Notify(p) PROVE Goal
  BY <1>0, <1>7, NoRefsStep DEF Notify, NoRefs
<1>8. ASSUME NEW p \in Proc, NEW t \in Tx, Continue(p, t) PROVE Goal
  BY <1>0, <1>8, NoRefsStep DEF Continue, NoRefs
<1>9. ASSUME NEW p \in Proc, RunRaise(p) PROVE Goal
  <2>1. CASE Abandon(p, "failed")
    BY <1>0, <2>1, AbandonBalances, Zenon
  <2>2. CASE NoRefs
    BY <1>0, <2>2, NoRefsStep, Zenon
  <2> QED
    BY <1>9, <2>1, <2>2 DEF RunRaise, NoRefs
<1>10. ASSUME NEW p \in Proc, OutOfMemory(p) PROVE Goal
  BY <1>0, <1>10, AbandonBalances, Zenon DEF OutOfMemory
<1>11. ASSUME NEW p \in Proc, NotifyRaise(p) PROVE Goal
  BY <1>0, <1>11, AbandonBalances, Zenon DEF NotifyRaise
<1>12. ASSUME NEW p \in Proc, Crash(p) PROVE Goal
  BY <1>0, <1>12, AbandonBalances, Zenon DEF Crash
<1>13. ASSUME NEW p \in Proc, GetContexts(p) PROVE Goal
  <2>1. leaked' \in [Addr -> Nat]
    BY <1>0, <1>13 DEF GetContexts, TypeOK, Incr
  <2>2. /\ held' = [held EXCEPT ![p] = root]
        /\ ctx' = [ctx EXCEPT ![p] = ctx[p]]
        /\ gref' = [gref EXCEPT ![p] = gref[p]]
    BY <1>0, <1>13 DEF GetContexts, TypeOK
  <2>3. root \in Addr \cup {None} /\ ctx[p] \in Addr \cup {None} /\ gref[p] \in Addr \cup {None}
    BY <1>0 DEF TypeOK
  <2>4. \A a \in Addr : Balanced(p, root, ctx[p], gref[p], a)
    BY <1>0, <1>13, RegistryAssumption DEF GetContexts, Incr, TypeOK, Shape, Borrowing, Balanced, At
  <2> QED
    BY <1>0, <2>1, <2>2, <2>3, <2>4, BalancedStep, Zenon
<1>14. ASSUME NEW p \in Proc, Free(p) PROVE Goal
  <2>1. leaked' \in [Addr -> Nat]
    BY <1>0, <1>14 DEF Free, TypeOK, Incr
  <2>2. /\ held' = [held EXCEPT ![p] = None]
        /\ ctx' = [ctx EXCEPT ![p] = ctx[p]]
        /\ gref' = [gref EXCEPT ![p] = gref[p]]
    BY <1>0, <1>14 DEF Free, TypeOK
  <2>3. None \in Addr \cup {None} /\ ctx[p] \in Addr \cup {None} /\ gref[p] \in Addr \cup {None}
    BY <1>0 DEF TypeOK
  <2>4. \A a \in Addr : Balanced(p, None, ctx[p], gref[p], a)
    BY <1>0, <1>14, RegistryAssumption DEF Free, TypeOK, Shape, Borrowing, Balanced, At
  <2> QED
    BY <1>0, <2>1, <2>2, <2>3, <2>4, BalancedStep, Zenon
<1>15. ASSUME NEW p \in Proc, SyncGet(p) PROVE Goal
  <2>1. leaked' \in [Addr -> Nat]
    BY <1>0, <1>15 DEF SyncGet, TypeOK, Incr
  <2>2. /\ held' = [held EXCEPT ![p] = held[p]]
        /\ ctx' = [ctx EXCEPT ![p] = root]
        /\ gref' = [gref EXCEPT ![p] = gref[p]]
    BY <1>0, <1>15 DEF SyncGet, TypeOK
  <2>3. held[p] \in Addr \cup {None} /\ root \in Addr \cup {None} /\ gref[p] \in Addr \cup {None}
    BY <1>0 DEF TypeOK
  <2>4. \A a \in Addr : Balanced(p, held[p], root, gref[p], a)
    BY <1>0, <1>15, RegistryAssumption DEF SyncGet, Incr, TypeOK, Shape, Borrowing, Balanced, At
  <2> QED
    BY <1>0, <2>1, <2>2, <2>3, <2>4, BalancedStep, Zenon
<1>16. ASSUME NEW p \in Proc, SyncRelease(p) PROVE Goal
  <2>1. leaked' \in [Addr -> Nat]
    BY <1>0, <1>16 DEF SyncRelease, TypeOK, Incr
  <2>2. /\ held' = [held EXCEPT ![p] = root]
        /\ ctx' = [ctx EXCEPT ![p] = None]
        /\ gref' = [gref EXCEPT ![p] = None]
    BY <1>0, <1>16 DEF SyncRelease, TypeOK
  <2>3. root \in Addr \cup {None} /\ None \in Addr \cup {None} /\ None \in Addr \cup {None}
    BY <1>0 DEF TypeOK
  <2>4. \A a \in Addr : Balanced(p, root, None, None, a)
    BY <1>0, <1>16, RegistryAssumption DEF SyncRelease, TypeOK, Shape, Borrowing, Balanced, At
  <2> QED
    BY <1>0, <2>1, <2>2, <2>3, <2>4, BalancedStep, Zenon
<1>17. ASSUME NEW p \in Proc, ForkExists(p) PROVE Goal
  <2>1. leaked' \in [Addr -> Nat]
    BY <1>0, <1>17 DEF ForkExists, TypeOK, Incr
  <2>2. /\ held' = [held EXCEPT ![p] = held[p]]
        /\ ctx' = [ctx EXCEPT ![p] = ctx[p]]
        /\ gref' = [gref EXCEPT ![p] = gref[p]]
    BY <1>0, <1>17 DEF ForkExists, TypeOK
  <2>3. held[p] \in Addr \cup {None} /\ ctx[p] \in Addr \cup {None} /\ gref[p] \in Addr \cup {None}
    BY <1>0 DEF TypeOK
  <2>4. \A a \in Addr : Balanced(p, held[p], ctx[p], gref[p], a)
    BY <1>0, <1>17, RegistryAssumption, SMTT(60) DEF ForkExists, Incr, TypeOK, Shape, Borrowing, Balanced, At
  <2> QED
    BY <1>0, <2>1, <2>2, <2>3, <2>4, BalancedStep, Zenon
<1>18. ASSUME NEW p \in Proc, ContextInit(p) PROVE Goal
  <2>f. \A b \in Fresh : b \in Addr /\ b # root /\ refs[b] = 0
    BY <1>0, FreshUnused
  <2>1. leaked' \in [Addr -> Nat]
    BY <1>0, <1>18 DEF ContextInit, TypeOK, Incr
  <2>2. /\ held' = [held EXCEPT ![p] = held[p]]
        /\ ctx' = [ctx EXCEPT ![p] = ctx[p]]
        /\ gref' = [gref EXCEPT ![p] = gref[p]]
    BY <1>0, <1>18 DEF ContextInit, TypeOK
  <2>3. held[p] \in Addr \cup {None} /\ ctx[p] \in Addr \cup {None} /\ gref[p] \in Addr \cup {None}
    BY <1>0 DEF TypeOK
  <2>4. \A a \in Addr : Balanced(p, held[p], ctx[p], gref[p], a)
    BY <2>f, <1>0, <1>18, RegistryAssumption DEF ContextInit, Incr, TypeOK, Shape, Borrowing, Balanced, At
  <2> QED
    BY <1>0, <2>1, <2>2, <2>3, <2>4, BalancedStep, Zenon
<1>19. ASSUME NEW p \in Proc, SyncCommit(p) PROVE Goal
  <2>f. \A b \in Fresh : b \in Addr /\ b # root /\ refs[b] = 0
    BY <1>0, FreshUnused
  <2>1. leaked' \in [Addr -> Nat]
    BY <1>0, <1>19 DEF SyncCommit, TypeOK, Incr
  <2>2. /\ held' = [held EXCEPT ![p] = held[p]]
        /\ ctx' = [ctx EXCEPT ![p] = ctx[p]]
        /\ gref' = [gref EXCEPT ![p] = root]
    BY <1>0, <1>19 DEF SyncCommit, TypeOK
  <2>3. held[p] \in Addr \cup {None} /\ ctx[p] \in Addr \cup {None} /\ root \in Addr \cup {None}
    BY <1>0, SMTT(60) DEF TypeOK
  <2>4. \A a \in Addr : Balanced(p, held[p], ctx[p], root, a)
    <3>1. PICK b \in Fresh : refs' = [refs EXCEPT ![b] = 1] /\ root' = b
      BY <1>19 DEF SyncCommit
    <3>2. gref[p] = None /\ leaked' = leaked
      BY <1>0, <1>19 DEF SyncCommit, Shape
    <3>3. refs \in [Addr -> Nat] /\ leaked \in [Addr -> Nat] /\ None \notin Addr
      BY <1>0, RegistryAssumption DEF TypeOK
    <3>4. b \in Addr /\ b # root /\ refs[b] = 0
      BY <2>f
    <3> QED
      BY <3>1, <3>2, <3>3, <3>4 DEF Balanced, At
  <2> QED
    BY <1>0, <2>1, <2>2, <2>3, <2>4, BalancedStep, Zenon
<1> QED
  BY <1>1, <1>2, <1>3, <1>4, <1>5, <1>6, <1>7, <1>8, <1>9, <1>10, <1>11, <1>12, <1>13, <1>14, <1>15, <1>16, <1>17, <1>18, <1>19 DEF Next, Step


\* Every step keeps the types; that the counts stay natural is CountStep.
LEMMA TypeStep ==
  ASSUME IInv, [Next]_vars
  PROVE  TypeOK'
<1> USE RegistryAssumption DEF TypeOK, goto, PCs, Statuses
<1>0. TypeOK /\ RefCount /\ Shape
  BY DEF IInv
<1>c. \A a \in Addr : refs'[a] \in Nat
  BY CountStep
<1>1. CASE UNCHANGED vars
  BY <1>0, <1>1 DEF vars
<1>2. ASSUME NEW p \in Proc, NEW m \in Modes, Begin(p, m) PROVE TypeOK'
  BY <1>0, <1>2 DEF Begin
<1>3. ASSUME NEW p \in Proc, HasContext(p) PROVE TypeOK'
  BY <1>0, <1>c, <1>3 DEF HasContext
<1>4. ASSUME NEW p \in Proc, ContextInit(p) PROVE TypeOK'
  BY <1>0, <1>c, <1>4 DEF ContextInit, Fresh, Incr
<1>5. ASSUME NEW p \in Proc, GetContexts(p) PROVE TypeOK'
  BY <1>0, <1>c, <1>5 DEF GetContexts, Shape, Incr
<1>6. ASSUME NEW p \in Proc, RunOk(p) PROVE TypeOK'
  BY <1>0, <1>c, <1>6 DEF RunOk
<1>7. ASSUME NEW p \in Proc, RunRaise(p) PROVE TypeOK'
  BY <1>0, <1>c, <1>7, SMTT(60) DEF RunRaise, Abandon, Settle, At
<1>8. ASSUME NEW p \in Proc, Free(p) PROVE TypeOK'
  BY <1>0, <1>c, <1>8 DEF Free, Shape
<1>9. ASSUME NEW p \in Proc, SyncLock(p) PROVE TypeOK'
  BY <1>0, <1>c, <1>9 DEF SyncLock
<1>10. ASSUME NEW p \in Proc, SyncGet(p) PROVE TypeOK'
  BY <1>0, <1>c, <1>10 DEF SyncGet, Shape, Incr
<1>11. ASSUME NEW p \in Proc, SyncCommit(p) PROVE TypeOK'
  <2>1. PICK a \in Fresh, c \in ResolveContext(p) :
              /\ refs' = [refs EXCEPT ![a] = 1] /\ val' = [val EXCEPT ![a] = c.val] /\ root' = a
              /\ Settle(p, IF c.ok THEN "done" ELSE "failed")
    BY <1>11 DEF SyncCommit
  <2>2. a \in Addr /\ root \in Addr /\ tx[p] \in Tx /\ held[p] \in Addr /\ ctx[p] \in Addr
    BY <1>0, <1>11 DEF SyncCommit, Shape, Borrowing, Fresh
  <2>3. c.val \in SUBSET Tx
    BY <1>0, <2>2 DEF ResolveContext
  <2>4. status' \in [Tx -> Statuses]
    BY <1>0, <2>1 DEF Settle
  <2> QED
    BY <1>0, <1>11, <2>1, <2>2, <2>3, <2>4 DEF SyncCommit
<1>12. ASSUME NEW p \in Proc, OutOfMemory(p) PROVE TypeOK'
  BY <1>0, <1>c, <1>12, SMTT(60) DEF OutOfMemory, Abandon, Settle, At
<1>13. ASSUME NEW p \in Proc, SyncRelease(p) PROVE TypeOK'
  BY <1>0, <1>c, <1>13 DEF SyncRelease, Shape, At
<1>14. ASSUME NEW p \in Proc, Unlock(p) PROVE TypeOK'
  BY <1>0, <1>c, <1>14 DEF Unlock
<1>15. ASSUME NEW p \in Proc, Notify(p) PROVE TypeOK'
  BY <1>0, <1>c, <1>15 DEF Notify
<1>16. ASSUME NEW p \in Proc, NotifyRaise(p) PROVE TypeOK'
  BY <1>0, <1>c, <1>16, SMTT(60) DEF NotifyRaise, Abandon, Settle, At
<1>17. ASSUME NEW p \in Proc, ForkExists(p) PROVE TypeOK'
  BY <1>0, <1>c, <1>17, SMTT(60) DEF ForkExists, Incr
<1>18. ASSUME NEW p \in Proc, Crash(p) PROVE TypeOK'
  BY <1>0, <1>c, <1>18, SMTT(60) DEF Crash, Abandon, Settle, At
<1>19. ASSUME NEW p \in Proc, NEW t \in Tx, Continue(p, t) PROVE TypeOK'
  BY <1>0, <1>19 DEF Continue
<1> QED
  BY <1>1, <1>2, <1>3, <1>4, <1>5, <1>6, <1>7, <1>8, <1>9, <1>10, <1>11, <1>12, <1>13, <1>14, <1>15, <1>16, <1>17, <1>18, <1>19 DEF Next, Step

\* The invariant holds when the processes start: one reference, the global one.
LEMMA InitInv == Init => IInv
<1> SUFFICES ASSUME Init PROVE IInv
  OBVIOUS
<1>1. TypeOK /\ Shape /\ LockInv /\ InitialisedInv
  BY RegistryAssumption DEF Init, TypeOK, Shape, LockInv, InitialisedInv, PCs, Borrowing, Statuses,
                            AllModes, At
<1>2. \A a \in Addr : Owners(held, a) = {} /\ Owners(ctx, a) = {} /\ Owners(gref, a) = {}
  BY RegistryAssumption DEF Init, Owners
<1>3. \A a \in Addr : refs[a] = At(root, a) /\ leaked[a] = 0
  BY RegistryAssumption DEF Init, At
<1>4. Cardinality({}) = 0
  BY FS_EmptySet
<1>5. RefCount
  BY <1>2, <1>3, <1>4, SMTT(60) DEF RefCount, At
<1> QED
  BY <1>1, <1>5 DEF IInv

\* No step of a call, no crash and no forkExists breaks the invariant.
LEMMA IInvStep == IInv /\ [Next]_vars => IInv'
BY TypeStep, CountStep, ControlStep DEF IInv

(* Along every behaviour of the registry the invariant holds. *)
THEOREM RegistryInv == Spec => []IInv
BY InitInv, IInvStep, PTL DEF Spec


(* Every address counts exactly the references there are to it, whatever the
   interleaving of commits, frees, errors and crashes. *)
THEOREM RefCountTheorem == Spec => []RefCount
BY RegistryInv, PTL DEF IInv

(* Every variable keeps its type; above all, no sk_free_root takes a count below
   zero: TypeOK. *)
THEOREM TypeTheorem == Spec => []TypeOK
BY RegistryInv, PTL DEF IInv


-----------------------------------------------------------------------------
(* What follows from the exact counts *)

\* A borrowed snapshot is counted.
LEMMA PointerCounted ==
  ASSUME TypeOK, RefCount, NEW f \in {held, ctx}, NEW p \in Proc, f[p] \in Addr
  PROVE  refs[f[p]] > 0
<1> DEFINE a == f[p]
           h == Cardinality(Owners(held, a))
           c == Cardinality(Owners(ctx, a))
           g == Cardinality(Owners(gref, a))
           r == At(root, a)
           l == leaked[a]
<1>1. h \in Nat /\ c \in Nat /\ g \in Nat
  <2>1. IsFiniteSet(Owners(held, a)) /\ IsFiniteSet(Owners(ctx, a)) /\ IsFiniteSet(Owners(gref, a))
    BY RegistryAssumption, FS_Subset DEF Owners
  <2> QED
    BY <2>1, FS_CardinalityType
<1>2. refs[a] = r + h + c + g + l
  BY DEF RefCount
<1>3. l \in Nat /\ r \in Nat
  BY DEF TypeOK, At
<1>4. h # 0 \/ c # 0
  <2>1. held \in [Proc -> Addr \cup {None}] /\ ctx \in [Proc -> Addr \cup {None}]
    BY DEF TypeOK
  <2> QED
    BY <2>1, CountPositive
<1> HIDE DEF a, h, c, g, r, l
<1>5. refs[a] > 0
  BY <1>1, <1>2, <1>3, <1>4
<1> QED
  BY <1>5 DEF a

(* No use after free, in every behaviour: BorrowedAlive. *)
THEOREM BorrowedAliveTheorem == Spec => []BorrowedAlive
<1>1. IInv => BorrowedAlive
  <2> SUFFICES ASSUME IInv PROVE BorrowedAlive
    OBVIOUS
  <2>1. TypeOK /\ RefCount
    BY DEF IInv
  <2>2. root # None => refs[root] > 0
    BY <2>1, RootCounted DEF TypeOK
  <2>3. \A p \in Proc : held[p] # None => refs[held[p]] > 0
    BY <2>1, PointerCounted DEF TypeOK
  <2>4. \A p \in Proc : ctx[p] # None => refs[ctx[p]] > 0
    BY <2>1, PointerCounted, SMTT(60) DEF TypeOK
  <2> QED
    BY <2>2, <2>3, <2>4 DEF BorrowedAlive
<1> QED
  BY <1>1, RegistryInv, PTL

\* Only the two steps that intern a context write to the heap, at a fresh address.
LEMMA HeapWrites ==
  ASSUME [Next]_vars
  PROVE  \/ UNCHANGED <<root, val>>
         \/ \E p \in Proc : ContextInit(p) \/ SyncCommit(p)
<1>1. CASE UNCHANGED vars
  BY <1>1 DEF vars
<1>2. ASSUME NEW p \in Proc, NEW m \in Modes, Begin(p, m) PROVE UNCHANGED <<root, val>>
  BY <1>2 DEF Begin
<1>3. ASSUME NEW p \in Proc, HasContext(p) \/ GetContexts(p) \/ RunOk(p) \/ Free(p)
      PROVE  UNCHANGED <<root, val>>
  BY <1>3 DEF HasContext, GetContexts, RunOk, Free
<1>4. ASSUME NEW p \in Proc, SyncLock(p) \/ SyncGet(p) \/ SyncRelease(p) \/ Unlock(p) \/ Notify(p)
      PROVE  UNCHANGED <<root, val>>
  BY <1>4 DEF SyncLock, SyncGet, SyncRelease, Unlock, Notify
<1>5. ASSUME NEW p \in Proc, RunRaise(p) \/ OutOfMemory(p) \/ NotifyRaise(p) \/ ForkExists(p) \/ Crash(p)
      PROVE  UNCHANGED <<root, val>>
  BY <1>5 DEF RunRaise, OutOfMemory, NotifyRaise, ForkExists, Crash, Abandon
<1>6. ASSUME NEW p \in Proc, NEW t \in Tx, Continue(p, t) PROVE UNCHANGED <<root, val>>
  BY <1>6 DEF Continue
<1> QED
  BY <1>1, <1>2, <1>3, <1>4, <1>5, <1>6 DEF Next, Step

(* A borrowed snapshot never changes under its reader: SnapshotStable. *)
THEOREM SnapshotStableTheorem == Spec => SnapshotStable
<1>1. IInv /\ [Next]_vars =>
        [\A p \in Proc :
           held[p] # None /\ held'[p] = held[p] => val'[held[p]] = val[held[p]]]_vars
  <2> SUFFICES ASSUME IInv, [Next]_vars, NEW p \in Proc, held[p] # None
               PROVE  val'[held[p]] = val[held[p]]
    OBVIOUS
  <2>0. TypeOK /\ RefCount
    BY DEF IInv
  <2>1. CASE UNCHANGED val
    BY <2>1
  <2>2. ASSUME NEW q \in Proc, ContextInit(q) \/ SyncCommit(q)
        PROVE  val'[held[p]] = val[held[p]]
    <3>2. \A b \in Fresh : held[p] # b
      BY <2>0, FreshUnused
    <3>3. held[p] \in Addr
      BY <2>0 DEF TypeOK
    <3>4. PICK b \in Fresh : \E v : val' = [val EXCEPT ![b] = v]
      <4>1. CASE ContextInit(q)
        BY <4>1 DEF ContextInit
      <4>2. CASE SyncCommit(q)
        BY <4>2 DEF SyncCommit
      <4> QED
        BY <2>2, <4>1, <4>2
    <3>5. val \in [Addr -> SUBSET Tx]
      BY <2>0 DEF TypeOK
    <3> QED
      BY <3>2, <3>3, <3>4, <3>5
  <2> QED
    BY <2>1, <2>2, HeapWrites
<1> QED
  BY <1>1, RegistryInv, PTL DEF Spec, SnapshotStable

(* resolveContext never finds a concurrent access: NoConcurrentAccess. *)
THEOREM NoConcurrentAccessTheorem == Spec => []NoConcurrentAccess
<1>1. Init => NoConcurrentAccess
  BY DEF Init, NoConcurrentAccess
<1>2. IInv /\ NoConcurrentAccess /\ [Next]_vars => NoConcurrentAccess'
  <2> SUFFICES ASSUME IInv, NoConcurrentAccess, [Next]_vars
               PROVE  NoConcurrentAccess'
    OBVIOUS
  <2>0. TypeOK /\ LockInv
    BY DEF IInv
  <2>1. ASSUME NEW p \in Proc, SyncGet(p)
        PROVE  NoConcurrentAccess'
    BY <2>0, <2>1, SMTT(60) DEF SyncGet, goto, NoConcurrentAccess, TypeOK, LockInv
  <2>p. pc \in [Proc -> PCs]
    BY <2>0 DEF TypeOK
  <2> USE <2>p DEF NoConcurrentAccess, goto
  <2>2. CASE UNCHANGED vars
    BY <2>2 DEF vars
  <2>3. ASSUME NEW p \in Proc, NEW m \in Modes, Begin(p, m)
        PROVE  NoConcurrentAccess'
    BY <2>3 DEF Begin
  <2>4. ASSUME NEW p \in Proc, HasContext(p) \/ GetContexts(p) \/ RunOk(p) \/ Free(p)
        PROVE  NoConcurrentAccess'
    BY <2>4, SMTT(60) DEF HasContext, GetContexts, RunOk, Free
  <2>5. ASSUME NEW p \in Proc, SyncLock(p) \/ SyncRelease(p) \/ Unlock(p) \/ Notify(p)
        PROVE  NoConcurrentAccess'
    BY <2>5, SMTT(60) DEF SyncLock, SyncRelease, Unlock, Notify
  <2>6. ASSUME NEW p \in Proc, ContextInit(p) \/ SyncCommit(p)
        PROVE  NoConcurrentAccess'
    <3>1. goto(p, "get") \/ goto(p, "release")
      BY <2>6 DEF ContextInit, SyncCommit
    <3> QED
      BY <3>1
  <2>7. ASSUME NEW p \in Proc, NEW t \in Tx, Continue(p, t)
        PROVE  NoConcurrentAccess'
    <3>1. goto(p, "run")
      BY <2>7 DEF Continue
    <3> QED
      BY <3>1
  <2>8. ASSUME NEW p \in Proc, RunRaise(p)
        PROVE  NoConcurrentAccess'
    BY <2>8 DEF RunRaise, Abandon
  <2>9. ASSUME NEW p \in Proc, OutOfMemory(p) \/ NotifyRaise(p) \/ ForkExists(p) \/ Crash(p)
        PROVE  NoConcurrentAccess'
    <3>1. goto(p, "idle") \/ UNCHANGED pc
      BY <2>9 DEF OutOfMemory, NotifyRaise, ForkExists, Crash, Abandon
    <3> QED
      BY <3>1
  <2> HIDE DEF NoConcurrentAccess, goto
  <2> QED
    BY <2>1, <2>2, <2>3, <2>4, <2>5, <2>6, <2>7, <2>8, <2>9 DEF Next, Step
<1> QED
  BY <1>1, <1>2, RegistryInv, PTL DEF Spec

(* What resolveContext leaves in the new context, when the root is the one it was
   given: the root's transactions, with its own if it reports success. *)
LEMMA ResolvedVal ==
  ASSUME NEW p \in Proc, NEW c \in ResolveContext(p),
         ctx[p] = root, ~ mode[p].sync => held[p] = root
  PROVE  /\ c.val = val[root] \cup {tx[p]} \/ c.val = val[root]
         /\ c.ok => c.val = val[root] \cup {tx[p]}
<1> DEFINE new == val[root] \cup {tx[p]}
<1>1. c = [ok |-> TRUE, val |-> new] \/ c = [ok |-> FALSE, val |-> val[root]]
  <2>1. CASE mode[p].sync
    BY <2>1 DEF ResolveContext
  <2>2. CASE ~ mode[p].sync
    BY <2>2 DEF ResolveContext
  <2> QED
    BY <2>1, <2>2
<1> HIDE DEF new
<1>2. (c.val = new \/ c.val = val[root]) /\ (c.ok => c.val = new)
  BY <1>1
<1> QED
  BY <1>2 DEF new


(* On an initialised registry, the processes together implement AtomicStore. *)
THEOREM AtomicStoreTheorem ==
  ASSUME Initialised
  PROVE  Spec => ImplementsAtomicStore
<1> DEFINE db == IF root = None THEN {} ELSE val[root]
<1>1. Init => Store!Init
  BY DEF Init, Store!Init
<1>2. IInv /\ [Next]_vars => [Store!Next]_db
  <2> SUFFICES ASSUME IInv, [Next]_vars
               PROVE  [Store!Next]_db
    OBVIOUS
  <2>0. TypeOK /\ Shape /\ LockInv /\ InitialisedInv
    BY DEF IInv
  <2>1. CASE UNCHANGED <<root, val>>
    BY <2>1
  <2>2. ASSUME NEW p \in Proc, ContextInit(p)
        PROVE  FALSE
    BY <2>0, <2>2, SMTT(60) DEF ContextInit, Shape
  <2>3. ASSUME NEW p \in Proc, SyncCommit(p)
        PROVE  [Store!Next]_db
    <3>1. PICK a \in Fresh, c \in ResolveContext(p) : val' = [val EXCEPT ![a] = c.val] /\ root' = a
      BY <2>3 DEF SyncCommit
    <3>2. a \in Addr /\ tx[p] \in Tx /\ ctx[p] = root /\ root \in Addr
          /\ (~ mode[p].sync => held[p] = root)
      BY <2>0, <2>3 DEF SyncCommit, Fresh, Shape, LockInv
    <3>3. c.val = val[root] \cup {tx[p]} \/ c.val = val[root]
      BY <3>2, ResolvedVal
    <3>4. db' = c.val /\ db = val[root]
      BY <2>0, <3>1, <3>2, RegistryAssumption DEF TypeOK
    <3> QED
      BY <3>2, <3>3, <3>4 DEF Store!Next, Store!Commit
  <2> QED
    BY <2>1, <2>2, <2>3, HeapWrites
<1> QED
  BY <1>1, <1>2, RegistryInv, PTL DEF Spec, ImplementsAtomicStore, Store!Spec


(* On an initialised registry, a transaction reported as committed stays in the
   root for ever: CommittedKept. *)
THEOREM CommittedKeptTheorem ==
  ASSUME Initialised
  PROVE  Spec => []CommittedKept
<1>1. Init => CommittedKept
  BY DEF Init, CommittedKept
<1>2. IInv /\ CommittedKept /\ [Next]_vars => CommittedKept'
  <2> SUFFICES ASSUME IInv, CommittedKept, [Next]_vars, NEW t \in Tx, status'[t] = "done"
               PROVE  root' # None /\ t \in val'[root']
    BY DEF CommittedKept
  <2>0. TypeOK /\ Shape /\ LockInv /\ InitialisedInv
    BY DEF IInv
  <2>1. ASSUME NEW p \in Proc, ContextInit(p)
        PROVE  FALSE
    BY <2>0, <2>1 DEF ContextInit, Shape
  <2>2. ASSUME NEW p \in Proc, SyncCommit(p)
        PROVE  root' # None /\ t \in val'[root']
    <3>1. PICK a \in Fresh, c \in ResolveContext(p) :
            /\ val' = [val EXCEPT ![a] = c.val] /\ root' = a
            /\ Settle(p, IF c.ok THEN "done" ELSE "failed")
      BY <2>2 DEF SyncCommit
    <3>2. a \in Addr /\ ctx[p] = root /\ root \in Addr /\ (~ mode[p].sync => held[p] = root)
      BY <2>0, <2>2 DEF SyncCommit, Fresh, Shape, LockInv
    <3>3. val[root] \subseteq c.val /\ (c.ok => tx[p] \in c.val)
      BY <3>2, ResolvedVal
    <3>4. val'[root'] = c.val /\ root' # None
      <4>1. a \in DOMAIN val /\ a # None
        BY <2>0, <3>2, RegistryAssumption DEF TypeOK
      <4> QED
        BY <3>1, <4>1
    <3>5. CASE tx[p] = t
      BY <3>1, <3>3, <3>4, <3>5 DEF Settle
    <3>6. CASE tx[p] # t
      BY <3>1, <3>3, <3>4, <3>6 DEF Settle, CommittedKept
    <3> QED
      BY <3>5, <3>6
  <2>3. CASE UNCHANGED <<root, val>> /\ status[t] = "done"
    BY <2>3 DEF CommittedKept
  <2>4. CASE \A p \in Proc : ~ ContextInit(p) /\ ~ SyncCommit(p)
    <3>1. UNCHANGED <<root, val>>
      BY <2>4, HeapWrites
    <3>2. status[t] = "done"
      <4>1. CASE UNCHANGED status
        BY <4>1
      <4>2. ASSUME NEW p \in Proc, NEW m \in Modes, Begin(p, m)
            PROVE  status[t] = "done"
        BY <2>0, <4>2 DEF Begin, TypeOK
      <4>3. ASSUME NEW p \in Proc, NEW u \in Tx, Continue(p, u)
            PROVE  status[t] = "done"
        BY <2>0, <4>3, SMTT(60) DEF Continue, TypeOK
      <4>4. ASSUME NEW p \in Proc, RunRaise(p) \/ OutOfMemory(p) \/ NotifyRaise(p)
            PROVE  status[t] = "done"
        BY <4>4, SMTT(60) DEF RunRaise, OutOfMemory, NotifyRaise, Abandon, Settle
      <4>5. ASSUME NEW p \in Proc, Crash(p)
            PROVE  status[t] = "done"
        BY <4>5 DEF Crash, Abandon, Settle
      <4> QED
        BY <2>4, <4>1, <4>2, <4>3, <4>4, <4>5
           DEF Next, Step, vars, HasContext, GetContexts, RunOk, Free, SyncLock, SyncGet, SyncRelease, Unlock, Notify, ForkExists
    <3> QED
      BY <2>3, <3>1, <3>2
  <2> QED
    BY <2>1, <2>2, <2>4
<1> QED
  BY <1>1, <1>2, RegistryInv, PTL DEF Spec


=============================================================================
