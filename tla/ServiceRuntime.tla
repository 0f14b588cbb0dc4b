----------------------------- MODULE ServiceRuntime -----------------------------
(***************************************************************************)
(* A running Skip service: the updates, resource instances and external    *)
(* subscriptions of ServiceInstance and CollectionWriter (core/src         *)
(* index.ts) over the contexts and forks of the store (Runtime.sk and      *)
(* Context.sk), with SkipExternalService as the external supplier.         *)
(*                                                                         *)
(* An update runs on a fork of the main context, awaits the external       *)
(* resources it started to use, and merges the fork, which succeeds only   *)
(* if nothing else changed the origin meanwhile.  An external supplier     *)
(* writes through a writer that forks and merges in the same way.          *)
(*                                                                         *)
(* The runtime is a single JavaScript thread.  A macrotask (a call of the  *)
(* application, an event of a stream) runs to completion, then the         *)
(* continuations it made ready, then the next macrotask: `turn' names the  *)
(* macrotask that may still make calls.                                    *)
(*                                                                         *)
(* The service modelled links each key of its input, and each resource     *)
(* instance, to an external resource of its own.                           *)
(*                                                                         *)
(* The notifiers of the clients, and the ends of subscriptions that were   *)
(* postponed, are called once the contexts are replaced.  An exception of  *)
(* one of them fails a call whose effect is there, and the rest of these   *)
(* calls is not made.                                                      *)
(***************************************************************************)
EXTENDS Integers, Sequences, FiniteSets

CONSTANTS
  Key,       \* keys of the input collection
  Res,       \* identifiers of resource instances
  Call,      \* asynchronous calls of the application, each made at most once
  None,      \* no instance, no stream
  Main,      \* the name of the main context
  MaxValue,  \* bound on the versions of an external resource
  MaxTime,   \* bound on the periods of kGarbageMillis that go by
  MaxTick,   \* bound on the tick, for the calls that may be made again and again
  Burst,     \* who may make several calls in one macrotask: "app", "stream"
  CanReload, \* may the application reload the service?
  CanFail,   \* may the connection to an external resource fail?
  Raising    \* whose callbacks may raise: "notifier", "supplier"

ASSUME RuntimeAssumption ==
  /\ {MaxValue, MaxTime, MaxTick} \subseteq Nat \ {0}
  /\ Burst \subseteq {"app", "stream"}
  /\ {CanReload, CanFail} \subseteq BOOLEAN
  /\ Raising \subseteq {"notifier", "supplier"}

VARIABLES
  main,      \* the main context
  forks,     \* the forks, by the task that works on them
  sessions,  \* the resource instances that a client is subscribed to
  task,      \* the asynchronous calls
  ext,       \* the subscriptions to external resources
  externals, \* the map of this name of each service definition
  definition, \* the definition that reload derives the next one from
  remote,    \* the version of each external resource
  now,       \* the clock, in periods of kGarbageMillis
  turn       \* the macrotask that may still make calls

vars == <<main, forks, sessions, task, ext, externals, definition, remote, now, turn>>

Link == Key \cup Res              \* what uses an external resource
Inst == Link \X Call              \* a subscription, by the call that made it
Write == Inst \X (1..MaxValue)    \* a writer's update, by the version it writes
Task == Call \cup Write
Definition == Call \cup {Main}    \* a definition, by the reload that derived it

\* A context: its tick, the service definition, the input, the resource instances and the time at which
\* each was marked as garbage (0: it is not), the directory of each external
\* collection (by the subscription that feeds it) and its value, and, as a
\* history, the calls whose effect it contains.
Context ==
  [tick : Nat, service : Definition, input : SUBSET Key, res : SUBSET Res, garbage : [Res -> 0..MaxTime],
   link : [Link -> Inst \cup {None}], val : [Link -> 0..MaxValue], done : SUBSET Call]

Fork == [ctx : Context, from : Nat, parent : Task \cup {Main}, postponed : SUBSET Inst]

NewTask == [st |-> "idle", kind |-> "none", res |-> None, wait |-> {}, close |-> {}]

\* A subscription: `service' is the definition that made it, `fork' the writer's
\* forkName, `queue' the events on their way and, as a history, `lost' says that
\* an exception kept its end from being performed.
NewSubscription(tick, name, service) ==
  [conn |-> "connecting", created |-> tick, fork |-> name, service |-> service,
   queue |-> <<>>, lost |-> FALSE]

Init ==
  /\ main = [tick |-> 0, service |-> Main,
             input |-> {}, res |-> {}, garbage |-> [r \in Res |-> 0],
             link |-> [l \in Link |-> None], val |-> [l \in Link |-> 0], done |-> {}]
  /\ forks = <<>>
  /\ sessions = {}
  /\ task = [t \in Task |-> NewTask]
  /\ ext = [i \in Inst |-> [NewSubscription(0, Main, Main) EXCEPT !.conn = "none"]]
  /\ externals = [s \in Definition |-> {}]
  /\ definition = Main
  /\ remote = [l \in Link |-> 1]
  /\ now = 1
  /\ turn = None

-----------------------------------------------------------------------------
(* Contexts *)

Used(c) == c.input \cup c.res

Links(c) == {c.link[l] : l \in Link} \ {None}

\* context.update(): the graph is recomputed and the tick moves on.  A link that
\* came into use gets a directory and a subscription, and so does one whose
\* external service is reloaded; one that is no longer used loses its directory.
update(c, t, reloaded) ==
  LET new == {l \in Used(c) : c.link[l] = None \/ l \in reloaded}
      old == Used(c) \ new
  IN  [c EXCEPT !.tick = @ + 1,
                !.link = [l \in Link |-> IF l \in new THEN <<l, t>>
                                         ELSE IF l \in old THEN c.link[l] ELSE None],
                !.val = [l \in Link |-> IF l \in old THEN c.val[l] ELSE 0]]

\* The instances that were marked more than kGarbageMillis ago are destroyed.
checkGarbage(c, t) ==
  LET destroyed == {r \in Res : c.garbage[r] # 0 /\ now > c.garbage[r]}
  IN  IF destroyed = {} THEN c
      ELSE update([c EXCEPT !.res = @ \ destroyed,
                            !.garbage = [r \in Res |-> IF r \in destroyed THEN 0 ELSE @[r]]],
                  t, {})

updateContext(c, t, reloaded) == checkGarbage(update(c, t, reloaded), t)

\* Mutant: the mark is the time of the destruction.
markGarbage_Expiry(c, r) ==
  IF c.garbage[r] # 0 THEN c ELSE updateContext([c EXCEPT !.garbage[r] = now + 1], None, {})

\* closeReactiveResource, once the session is closed.
markGarbage(c, r) ==
  IF c.garbage[r] # 0 THEN c ELSE updateContext([c EXCEPT !.garbage[r] = now], None, {})

\* Mutant: a writer that was made in a fork does not find it again.
Exists_MainOnly(name) == name = Main

Exists(name) == name = Main \/ name \in DOMAIN forks

ContextOf(name) == IF name = Main THEN main ELSE forks[name].ctx

\* Mutant: the end of a subscription is not postponed.
Since_Always(tick, i) == TRUE

\* Mutant: what was created in the first update of a fork is taken for older.
Since_After(tick, i) == ext[i].created > tick

\* FPostponable.check: may the postponed end of subscription i be performed in a
\* context that was forked at this tick?  Only what was created since then.
Since(tick, i) == ext[i].created >= tick

-----------------------------------------------------------------------------
(* Subscriptions to external resources *)

\* The subscription is in the `externals' of the definition that made it: it may
\* be unsubscribed there.
Known(i) == i \in externals[ext[i].service]

\* SkipExternalService.unsubscribe closes a stream that is open and does nothing
\* about one that is not yet.
unsubscribe(e) ==
  [e EXCEPT !.conn = IF @ = "open" THEN "closed" ELSE @,
            !.queue = <<>>]

\* What the subscriptions become when context c of `name' is committed as d, given
\* the ones that are ended and those whose end is lost.
Subscriptions(c, d, name, ended, lost) ==
  [i \in Inst |->
     IF i \in Links(d) \ Links(c) THEN NewSubscription(c.tick, name, d.service)
     ELSE IF i \in ended THEN unsubscribe(ext[i])
     ELSE [ext[i] EXCEPT !.lost = @ \/ i \in lost]]

\* What the `externals' become, from `known': a subscription is ended on the
\* definition that made it.
Externals(c, d, known, ended) ==
  [s \in Definition |->
     (known[s] \ {i \in ended : ext[i].service = s})
        \cup (IF s = d.service THEN Links(d) \ Links(c) ELSE {})]

\* notifyAll, then the actions: the sets of ends that may have been performed when
\* all of it goes well, or when it raises.  It must raise for a session whose
\* resource instance is gone.
Performed(d, notified, ended, raised) ==
  LET broken == ~(notified \subseteq d.res)
      notifier == broken \/ (notified # {} /\ "notifier" \in Raising)
      supplier == ~broken /\ "supplier" \in Raising
  IN  IF raised
      THEN (IF notifier THEN {{}} ELSE {}) \cup (IF supplier THEN SUBSET ended \ {ended} ELSE {})
      ELSE IF broken THEN {} ELSE {ended}

\* Mutant: the postponed actions are lost.
CommitMain_Forgets(d, subs, raised) ==
  /\ ~raised
  /\ main' = d
  /\ sessions' = subs
  /\ ext' = Subscriptions(main, d, Main, {}, {})
  /\ externals' = Externals(main, d, externals, {})

\* runWithResult on the main context: every postponed action is performed, once
\* the sessions are told.
CommitMain(d, subs, raised) ==
  LET notified == IF d.tick = main.tick THEN {} ELSE subs
      ended == Links(main) \ Links(d)
  IN  /\ main' = d
      /\ sessions' = subs
      /\ \E performed \in Performed(d, notified, ended, raised) :
            /\ ext' = Subscriptions(main, d, Main, performed, ended \ performed)
            /\ externals' = Externals(main, d, externals, performed)

\* fork, then runWithResult on the new fork, which has no session.
CommitFork(t, parent, d, known) ==
  LET c == ContextOf(parent)
      gone == Links(c) \ Links(d)
      ended == {i \in gone : Since(c.tick, i)}
  IN  /\ forks' = [f \in DOMAIN forks \cup {t} |->
                     IF f = t THEN [ctx |-> d, from |-> c.tick, parent |-> parent,
                                    postponed |-> gone \ ended]
                     ELSE forks[f]]
      /\ ext' = Subscriptions(c, d, t, ended, {})
      /\ externals' = Externals(c, d, known, ended)

\* The promises that the call awaits are those of the subscriptions it made.
Await(t, kind, r, close, c, d) ==
  LET made == Links(d) \ Links(c)
  IN  task' = [task EXCEPT ![t] = [st |-> IF made = {} THEN "ready" ELSE "waiting",
                                   kind |-> kind, res |-> r, wait |-> made, close |-> close]]

-----------------------------------------------------------------------------
(* The event loop *)

Ready == {t \in Task : task[t].st \in {"ready", "failing"}}

\* A macrotask starts when no continuation is left to run; one that is running
\* may make another call.
CanRun(who, kind) == Ready = {} \/ (turn = who /\ kind \in Burst)

AppRuns == CanRun(Main, "app") /\ turn' = Main

-----------------------------------------------------------------------------
(* Calls of the application *)

\* update(collection, entries): the keys of the input become these.
Update(t, keys) ==
  LET d == update([main EXCEPT !.input = keys, !.done = @ \cup {t}], t, {})
  IN  /\ AppRuns
      /\ task[t].st = "idle"
      /\ CommitFork(t, Main, d, externals)
      /\ Await(t, "update", None, {}, main, d)
      /\ UNCHANGED <<main, sessions, definition, remote, now>>

\* derive(service): the new definition has a copy of the map of the current one.
Derive(t) == [externals EXCEPT ![t] = externals[definition]]

\* reload(service, changes): all or none of the external services are reloaded
\* and, if the resource types have changed, every resource instance is destroyed.
Reload(t, retyped, reloaded) ==
  LET gone == IF retyped THEN main.res ELSE {}
      kept == [main EXCEPT !.service = t,
                           !.res = @ \ gone,
                           !.garbage = [r \in Res |-> IF r \in gone THEN 0 ELSE @[r]],
                           !.done = @ \cup {t}]
      d == updateContext(kept, t, reloaded)
  IN  /\ CanReload
      /\ AppRuns
      /\ task[t].st = "idle"
      /\ CommitFork(t, Main, d, Derive(t))
      /\ Await(t, "reload", None, gone, main, d)
      /\ UNCHANGED <<main, sessions, definition, remote, now>>

\* getAll makes up an identifier that nobody else has.
Private(r) == \E t \in Call : task[t].kind = "getAll" /\ task[t].res = r

Unused(r) == \A t \in Call : task[t].res # r

\* instantiateResource(identifier, resource, params), by itself or for getAll:
\* it works on the main context.  After an exception nothing is awaited.
InstantiateResource(t, r, kind) ==
  LET d == checkGarbage(update([main EXCEPT !.res = @ \cup {r}], t, {}), t)
  IN  /\ AppRuns
      /\ task[t].st = "idle"
      /\ r \notin main.res
      /\ IF kind = "getAll" THEN Unused(r) ELSE ~Private(r)
      /\ \/ /\ CommitMain(d, sessions, FALSE)
            /\ Await(t, kind, r, {}, main, d)
         \/ /\ CommitMain(d, sessions, TRUE)
            /\ task' = [task EXCEPT ![t] = [@ EXCEPT !.st = "raised", !.kind = kind, !.res = r]]
      /\ UNCHANGED <<forks, definition, remote, now>>

\* The identifier is in use: ExistingResourceException.
InstantiateExisting(t, r) ==
  /\ AppRuns
  /\ task[t].st = "idle"
  /\ r \in main.res /\ ~Private(r)
  /\ task' = [task EXCEPT ![t] = [@ EXCEPT !.st = "rejected", !.kind = "create", !.res = r]]
  /\ UNCHANGED <<main, forks, sessions, ext, externals, definition, remote, now>>

\* closeResourceInstance(r), and unsubscribe(r) of a session.
CloseResource(r) ==
  /\ AppRuns
  /\ main.tick < MaxTick
  /\ ~Private(r)
  /\ \E raised \in BOOLEAN : CommitMain(markGarbage(main, r), sessions \ {r}, raised)
  /\ UNCHANGED <<forks, task, definition, remote, now>>

\* Mutant: the mark of a closed instance stays.
Subscribe_KeepsMark(r) ==
  /\ AppRuns
  /\ main.tick < MaxTick
  /\ r \notin sessions
  /\ r \in main.res /\ ~Private(r)
  /\ \E raised \in BOOLEAN : CommitMain(checkGarbage(main, None), sessions \cup {r}, raised)
  /\ UNCHANGED <<forks, task, definition, remote, now>>

\* subscribe(r, notifier): not twice, and only to an instance that exists.
Subscribe(r) ==
  LET unmarked == IF main.garbage[r] = 0 THEN main
                  ELSE update([main EXCEPT !.garbage[r] = 0], None, {})
  IN  /\ AppRuns
      /\ main.tick < MaxTick
      /\ r \notin sessions
      /\ r \in main.res /\ ~Private(r)
      /\ \E raised \in BOOLEAN :
            CommitMain(checkGarbage(unmarked, None), sessions \cup {r}, raised)
      /\ UNCHANGED <<forks, task, definition, remote, now>>

-----------------------------------------------------------------------------
(* Continuations *)

Settle(t, st) == task' = [task EXCEPT ![t].st = st, ![t].wait = {}]

Without(t) == [f \in DOMAIN forks \ {t} |-> forks[f]]

\* Mutant: the fork replaces whatever the origin became.
CanMerge_AnyTick(t) == Exists(forks[t].parent)

\* mergeForkNoGc without a synchronizer: the origin must still be there, and as
\* the fork found it.
CanMerge(t) ==
  /\ Exists(forks[t].parent)
  /\ ContextOf(forks[t].parent).tick = forks[t].from

\* The origin becomes the fork's context; its sessions stay those it has.
Replace(t, postponed) ==
  LET f == forks[t]
  IN  IF f.parent = Main
      THEN /\ main' = f.ctx
           /\ forks' = Without(t)
      ELSE /\ forks' = [Without(t) EXCEPT ![f.parent].ctx = f.ctx,
                                          ![f.parent].postponed = @ \cup postponed]
           /\ UNCHANGED main

\* merge: the origin is replaced, its sessions are told, those that reload will
\* close excepted (a fork has none), and the fork's postponed actions are
\* performed, those that the origin must postpone excepted.  reload then closes
\* the streams of what it destroyed, in one transaction, and keeps its definition.
\* An exception of any of these steps cuts the rest short and rejects the promise.
Merge(t) ==
  LET f == forks[t]
      ended == IF f.parent = Main THEN f.postponed
               ELSE {i \in f.postponed : Since(forks[f.parent].from, i)}
      notified == IF f.parent = Main THEN sessions \ task[t].close ELSE {}
      closed == sessions \cap task[t].close
      fine == Performed(f.ctx, notified, ended, FALSE)
      cut == Performed(f.ctx, notified, ended, TRUE)
               \cup (IF closed # {} /\ "notifier" \in Raising THEN fine ELSE {})
  IN  /\ task[t].st = "ready"
      /\ CanMerge(t)
      /\ Replace(t, f.postponed \ ended)
      /\ \E raised \in BOOLEAN : \E performed \in IF raised THEN cut ELSE fine :
            /\ ext' = Subscriptions(f.ctx, f.ctx, Main, performed, ended \ performed)
            /\ externals' = Externals(f.ctx, f.ctx, externals, performed)
            /\ sessions' = IF raised THEN sessions ELSE sessions \ closed
            /\ definition' = IF ~raised /\ task[t].kind = "reload" THEN t ELSE definition
            /\ Settle(t, IF raised THEN "raised" ELSE "resolved")

\* abortFork: a promise or the merge failed.  rollback ends the subscriptions
\* that were made on the fork.
AbortFork(t) ==
  LET ended == {i \in Links(forks[t].ctx) : Since(forks[t].from, i)}
  IN  /\ task[t].st = "failing" \/ ~CanMerge(t)
      /\ forks' = Without(t)
      /\ ext' = Subscriptions(main, main, Main, ended, {})
      /\ externals' = Externals(main, main, externals, ended)
      /\ Settle(t, "rejected")
      /\ UNCHANGED <<main, sessions, definition>>

\* The call on the main context returns.
Return(t) ==
  /\ task[t].kind = "create" \/ task[t].st = "failing"
  /\ Settle(t, IF task[t].st = "ready" THEN "resolved" ELSE "rejected")
  /\ UNCHANGED <<main, forks, sessions, ext, externals, definition>>

\* getAll reads the instance, unless a reload destroyed it, and closes it.
ReadAndClose(t) ==
  LET r == task[t].res
      found == r \in main.res
      read == IF found THEN updateContext(main, None, {}) ELSE main
  IN  /\ task[t].kind = "getAll" /\ task[t].st = "ready"
      /\ \E raised \in BOOLEAN :
            /\ Settle(t, IF raised THEN "raised" ELSE IF found THEN "resolved" ELSE "rejected")
            /\ CommitMain(markGarbage(read, r), sessions, raised)
      /\ UNCHANGED <<forks, definition>>

Continue(t) ==
  /\ t \in Ready
  /\ turn' = None
  /\ IF t \in DOMAIN forks THEN Merge(t) \/ AbortFork(t) ELSE Return(t) \/ ReadAndClose(t)
  /\ UNCHANGED <<remote, now>>

-----------------------------------------------------------------------------
(* The external supplier *)

\* Mutant: a rejected promise is not noticed.
SettlePromise_Fulfilled(i, fulfilled) ==
  task' = [t \in Task |->
             IF i \notin task[t].wait \/ ~fulfilled THEN task[t]
             ELSE [task[t] EXCEPT !.wait = @ \ {i},
                                  !.st = IF task[t].wait = {i} THEN "ready" ELSE @]]

\* The promise of subscription i is settled: Promise.all goes on with the last
\* one that is fulfilled, and fails with the first one that is rejected.
SettlePromise(i, fulfilled) ==
  task' = [t \in Task |->
             IF i \notin task[t].wait THEN task[t]
             ELSE IF ~fulfilled THEN [task[t] EXCEPT !.st = "failing", !.wait = {}]
             ELSE [task[t] EXCEPT !.wait = @ \ {i},
                                  !.st = IF task[t].wait = {i} THEN "ready" ELSE @]]

Connecting == {i \in Inst : ext[i].conn \in {"connecting", "retrying"}}

\* The stream opens, also after an error: the EventSource reconnects by itself.
Open(i) ==
  /\ Ready = {}
  /\ i \in Connecting
  /\ ext' = [ext EXCEPT ![i].conn = "open", ![i].queue = <<remote[i[1]]>>]
  /\ SettlePromise(i, TRUE)
  /\ turn' = None
  /\ UNCHANGED <<main, forks, sessions, externals, definition, remote, now>>

\* The request for the stream fails, or the stream has an error before it opens.
Fail(i) ==
  /\ CanFail
  /\ Ready = {}
  /\ ext[i].conn = "connecting"
  /\ \E conn \in {"refused", "retrying"} : ext' = [ext EXCEPT ![i].conn = conn]
  /\ SettlePromise(i, FALSE)
  /\ turn' = None
  /\ UNCHANGED <<main, forks, sessions, externals, definition, remote, now>>

\* The external resource changes; its open streams are told.
Change(l) ==
  /\ remote[l] < MaxValue
  /\ remote' = [remote EXCEPT ![l] = @ + 1]
  /\ ext' = [i \in Inst |-> IF i[1] = l /\ ext[i].conn = "open"
                            THEN [ext[i] EXCEPT !.queue = Append(@, remote[l] + 1)]
                            ELSE ext[i]]
  /\ UNCHANGED <<main, forks, sessions, task, externals, definition, now, turn>>

\* An event of the stream: CollectionWriter.update on a fork of the fork that
\* the writer was made in, or of the main context once that one is gone.  The
\* collection is found by its name, whichever subscription feeds it.
Deliver(i) ==
  LET l == i[1]
      v == Head(ext[i].queue)
      name == IF Exists(ext[i].fork) THEN ext[i].fork ELSE Main
      c == ContextOf(name)
      d == IF c.link[l] = None THEN c
           ELSE update([c EXCEPT !.val[l] = v], None, {})
      t == <<i, v>>
  IN  /\ CanRun(i, "stream")
      /\ turn' = i
      /\ ext[i].conn = "open"
      /\ ext[i].queue # <<>>
      /\ forks' = [f \in DOMAIN forks \cup {t} |->
                     IF f = t THEN [ctx |-> d, from |-> c.tick, parent |-> name, postponed |-> {}]
                     ELSE forks[f]]
      /\ ext' = [ext EXCEPT ![i].queue = Tail(@), ![i].fork = name]
      /\ task' = [task EXCEPT ![t] = [@ EXCEPT !.st = "ready", !.kind = "write"]]
      /\ UNCHANGED <<main, sessions, externals, definition, remote, now>>

Elapse ==
  /\ now < MaxTime
  /\ now' = now + 1
  /\ UNCHANGED <<main, forks, sessions, task, ext, externals, definition, remote, turn>>

-----------------------------------------------------------------------------
Next ==
  \/ \E t \in Call, keys \in SUBSET Key : Update(t, keys)
  \/ \E t \in Call, retyped \in BOOLEAN, reloaded \in {{}, Link} : Reload(t, retyped, reloaded)
  \/ \E t \in Call, r \in Res :
        \/ \E kind \in {"create", "getAll"} : InstantiateResource(t, r, kind)
        \/ InstantiateExisting(t, r)
  \/ \E r \in Res : CloseResource(r) \/ Subscribe(r)
  \/ \E t \in Task : Continue(t)
  \/ \E i \in Inst : Open(i) \/ Fail(i) \/ Deliver(i)
  \/ \E l \in Link : Change(l)
  \/ Elapse

Spec == Init /\ [][Next]_vars

\* The event loop goes on while a continuation is ready, and the network goes on
\* to answer requests for streams, if only with an error.  (Weak fairness, with
\* the conditions under which the steps are enabled written out.)
Fairness ==
  /\ <>[](Ready # {}) => []<><<\E t \in Task : Continue(t)>>_vars
  /\ <>[](Ready = {} /\ Connecting # {}) => []<><<\E i \in Inst : Open(i) \/ Fail(i)>>_vars

FairSpec == Spec /\ Fairness

-----------------------------------------------------------------------------
(* Properties *)

TypeOK ==
  /\ main \in Context
  /\ DOMAIN forks \subseteq Task
  /\ \A t \in DOMAIN forks : forks[t] \in Fork
  /\ sessions \subseteq Res
  /\ \A t \in Task :
        /\ task[t].st \in {"idle", "waiting", "ready", "failing",
                          "resolved", "rejected", "raised"}
        /\ task[t].kind \in {"none", "update", "reload", "create", "getAll", "write"}
        /\ task[t].res \in Res \cup {None}
        /\ task[t].wait \subseteq Inst
        /\ task[t].close \subseteq Res
  /\ \A i \in Inst :
        /\ ext[i].conn \in {"none", "connecting", "retrying", "refused", "open", "closed"}
        /\ ext[i].lost \in BOOLEAN
        /\ ext[i].created \in Nat
        /\ ext[i].service \in Definition
        /\ ext[i].fork \in Task \cup {Main}
        /\ ext[i].queue \in Seq(1..MaxValue)
  /\ externals \in [Definition -> SUBSET Inst]
  /\ definition \in Definition
  /\ remote \in [Link -> 1..MaxValue]
  /\ now \in 1..MaxTime
  /\ turn \in Inst \cup {Main, None}

Running(t) == task[t].st \in {"waiting", "ready", "failing"}

\* The promise is rejected by an exception of a callback, once the effect of the
\* call is in the main context.
Raised(t) == task[t].st = "raised"

\* An update or a reload is in the main context if and only if its promise was
\* fulfilled, or was rejected by an exception of what is called after the merge
\* (notifyAll, the postponed actions, closeResourceStreams), however calls, writers
\* and streams interleave: a fork that is merged never takes away what was merged
\* after it was made (mergeForkNoGc), and one that is aborted leaves nothing behind.
AllOrNothing ==
  \A t \in Call : task[t].kind \in {"update", "reload"} =>
     (t \in main.done <=> task[t].st = "resolved" \/ Raised(t))

Mergeable(t) ==
  /\ CanMerge(t)
  /\ forks[t].parent # Main => CanMerge(forks[t].parent)

\* The postponed actions and the rollback of forks (FPostponable.check) end a
\* subscription once, and never one that is still needed: what feeds a collection
\* of the main context or of a fork that may be merged, what such a fork will end,
\* and what aborting a fork would end, is still subscribed to.
LinkedIsLive ==
  /\ \A i \in Links(main) : Known(i)
  /\ \A t \in DOMAIN forks :
        /\ Mergeable(t) => \A i \in Links(forks[t].ctx) \cup forks[t].postponed : Known(i)
        /\ \A i \in Links(forks[t].ctx) : Since(forks[t].from, i) => Known(i)

\* Once no call is running no fork is left, and a subscription is still there, to
\* be unsubscribed on the definition that made it, if the main context uses it and
\* otherwise only if an exception kept its end from being performed: aborted
\* updates, removed keys, destroyed instances and reloads leave none behind.  The
\* definition of the service, for its shutdown, has every one that is in use, if
\* no reload was cut short by an exception.
NothingLeftBehind ==
  (\A t \in Task : ~Running(t)) =>
     /\ forks = <<>>
     /\ \A i \in Inst : Known(i) <=> (i \in Links(main) \/ ext[i].lost)
     /\ (\A t \in Call : ~(task[t].kind = "reload" /\ Raised(t))) =>
           /\ definition = main.service
           /\ Links(main) \subseteq externals[definition]

\* A resource instance that a client is subscribed to exists: neither the garbage
\* collection of closed instances nor a reload leaves a session without it, for
\* which every later notifyAll raises.  The exception is a session that a reload
\* was to close when it was cut short.
SubscribedIsAlive ==
  \A r \in sessions : r \in main.res \/ \E t \in Call : Raised(t) /\ r \in task[t].close

\* Once no call is running and no event is on its way, the collection of every open
\* stream has the version that the external resource has.
Propagated ==
  ((\A t \in Task : ~Running(t)) /\ (\A i \in Inst : ext[i].queue = <<>>)) =>
     \A i \in Links(main) : ext[i].conn = "open" => main.val[i[1]] = remote[i[1]]

\* Every call that waits for external resources is settled: a promise that is
\* neither fulfilled nor rejected would leave its fork behind for ever.
CallsSettle ==
  \A t \in Call : task[t].st = "waiting" ~> task[t].st \in {"resolved", "rejected", "raised"}

=============================================================================
