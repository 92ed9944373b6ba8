--------------------------- MODULE AssetManager ---------------------------
(* The asset manager of the drawing context: a map from a key to a weak     *)
(* pointer, behind a lock, whose entries several threads load, share and    *)
(* drop.  The loader of an asset may load others, which the asset then      *)
(* keeps alive; a retainer keeps what the last two frames used.  A step is  *)
(* one section under the lock, one initialisation of a OnceLock or one      *)
(* change of a reference count; the threads interleave between them.        *)
EXTENDS Naturals, FiniteSets, Sequences, SequencesExt

CONSTANTS
    Threads,
    Painter,        \* the thread that owns the retainer
    Keys,           \* a key with its loader function
    DependsOn,      \* for a key, the keys its loader loads, in order
    MaxLoads,       \* bound: loads that threads ask for
    MaxPanics       \* bound: loaders that panic

(* A loader that loads its own key, even through others, waits for itself. *)
ASSUME Acyclic ==
    /\ Painter \in Threads
    /\ DependsOn \in [Keys -> Seq(Keys)]
    /\ \E rank \in [Keys -> 0..Cardinality(Keys)] :
          \A k \in Keys : \A i \in DOMAIN DependsOn[k] : rank[DependsOn[k][i]] < rank[k]

ASSUME BoundsAssumption == MaxLoads \in Nat /\ MaxPanics \in Nat

VARIABLES
    asset_map,      \* key -> [id, weak]; weak is an index into entries
    entries,        \* every AssetEntry ever allocated, with its strong count
    stack,          \* per thread, the calls it is in
    held,           \* per thread, the assets its own code holds
    retained,       \* AssetRetainer::retained: entry -> is_kept
    used,           \* history: what the retainer loaded since the last reap
    used_before,    \* history: what it loaded in the frame before that
    loads, panics   \* how many there were of each

vars == <<asset_map, entries, stack, held, retained, used, used_before, loads, panics>>

NoEntry == 0
Entry == DOMAIN entries

Ops == {"fetch", "insert", "init", "loader", "unwind", "peek", "remove", "fields", "reap"}
Callers == {"user", "retainer", "loader"}

Frame(op, caller, k, e) ==
    [op |-> op, caller |-> caller, key |-> k, entry |-> e, rest |-> <<>>, keep |-> <<>>, loaded |-> 0]

TypeOK ==
    /\ DOMAIN asset_map \subseteq Keys
    /\ \A k \in DOMAIN asset_map : asset_map[k] \in [id : Nat, weak : DOMAIN entries]
    /\ entries \in Seq([key : Keys, id : Nat, strong : Nat, keep : Seq(Entry),
                        value : {"empty", "busy", "ready"}])
    /\ stack \in [Threads -> Seq([op : Ops, caller : Callers, key : Keys, entry : Entry \cup {NoEntry},
                                  rest : Seq(Entry), keep : Seq(Entry), loaded : Nat])]
    /\ held \in [Threads -> SUBSET Entry]
    /\ DOMAIN retained \subseteq Entry /\ \A e \in DOMAIN retained : retained[e] \in BOOLEAN
    /\ used \subseteq Entry /\ used_before \subseteq Entry
    /\ loads \in 0..MaxLoads /\ panics \in 0..MaxPanics

Init ==
    /\ asset_map = <<>>
    /\ entries = <<>>
    /\ stack = [t \in Threads |-> <<>>]
    /\ held = [t \in Threads |-> {}]
    /\ retained = <<>>
    /\ used = {} /\ used_before = {}
    /\ loads = 0 /\ panics = 0

-----------------------------------------------------------------------------
(* Reference counts and stacks.                                             *)

Idle(t) == stack[t] = <<>>
Top(t) == Last(stack[t])
In(t, op) == ~Idle(t) /\ Top(t).op = op

Becomes(s, frame) == Append(Front(s), frame)

(* Arc::clone, or Weak::upgrade of an entry that is alive. *)
ClonedUncounted(es, e) == es

Cloned(es, e) == [es EXCEPT ![e].strong = @ + 1]

(* The thread whose drop takes the count to zero runs Drop for AssetEntry.  *)
Released(es, e) == [es EXCEPT ![e].strong = @ - 1]

Dropping(s, es, e) ==
    IF Released(es, e)[e].strong = 0
    THEN Append(s, Frame("remove", "user", es[e].key, e))
    ELSE s

(* Weak::upgrade of the entry the map has for a key. *)
Upgrades(k) == k \in DOMAIN asset_map /\ entries[asset_map[k].weak].strong > 0

-----------------------------------------------------------------------------
(* Loading.                                                                 *)

(* A caller that holds the asset already has no reason to load it again. *)
Wants(t, k) == Idle(t) /\ \A e \in held[t] : entries[e].key # k

Calls(t, k, caller) == stack' = [stack EXCEPT ![t] = Append(@, Frame("fetch", caller, k, NoEntry))]

Load(t, k) ==
    /\ Wants(t, k)
    /\ loads < MaxLoads
    /\ loads' = loads + 1
    /\ Calls(t, k, "user")
    /\ UNCHANGED <<asset_map, entries, held, retained, used, used_before, panics>>

RetainerLoad(k) ==
    /\ Wants(Painter, k)
    /\ loads < MaxLoads
    /\ loads' = loads + 1
    /\ Calls(Painter, k, "retainer")
    /\ UNCHANGED <<asset_map, entries, held, retained, used, used_before, panics>>

Found(t, e) ==
    /\ entries' = Cloned(entries, e)
    /\ stack' = [stack EXCEPT ![t] = Becomes(@, [Top(t) EXCEPT !.op = "init", !.entry = e])]

(* The fast path: under the read lock. *)
FetchEntry(t) ==
    /\ In(t, "fetch")
    /\ IF Upgrades(Top(t).key)
       THEN Found(t, asset_map[Top(t).key].weak)
       ELSE /\ stack' = [stack EXCEPT ![t] = Becomes(@, [Top(t) EXCEPT !.op = "insert"])]
            /\ UNCHANGED entries
    /\ UNCHANGED <<asset_map, held, retained, used, used_before, loads, panics>>

(* A revived key takes the id of its new entry, so that the drop of the     *)
(* dead one does not take the new one for its own.                          *)
KeyIdKept(k, id) == IF k \in DOMAIN asset_map THEN asset_map[k].id ELSE id

KeyId(k, id) == id

(* The slow path checks again, since another thread may have been faster. *)
ReusesNever(k) == FALSE

Reuses(k) == Upgrades(k)

Insert(t) ==
    LET k == Top(t).key
        e == Len(entries) + 1
        fresh == [key |-> k, id |-> Len(entries) + 1, strong |-> 1, keep |-> <<>>, value |-> "empty"]
    IN  /\ In(t, "insert")
        /\ \/ /\ Reuses(k)
              /\ Found(t, asset_map[k].weak)
              /\ UNCHANGED asset_map
           \/ /\ ~Reuses(k)
              /\ entries' = Append(entries, fresh)
              /\ asset_map' = [x \in DOMAIN asset_map \cup {k} |->
                                  IF x = k THEN [id |-> KeyId(k, fresh.id), weak |-> e] ELSE asset_map[x]]
              /\ stack' = [stack EXCEPT ![t] = Becomes(@, [Top(t) EXCEPT !.op = "init", !.entry = e])]
        /\ UNCHANGED <<held, retained, used, used_before, loads, panics>>

(* AssetManagerTracked::load: the loader gets the asset, and the entry that *)
(* it initialises gets a pointer of its own to keep it alive.               *)
TrackedNever(es, loader, e) ==
    [entries |-> es, loader |-> [loader EXCEPT !.rest = Append(@, e)]]

Tracked(es, loader, e) ==
    [entries |-> Cloned(es, e),
     loader |-> [loader EXCEPT !.rest = Append(@, e), !.keep = Append(@, e)]]

(* AssetRetainer::push_keep_alive. *)
KeptAliveOnce(e) == [x \in DOMAIN retained \cup {e} |-> IF x \in DOMAIN retained THEN retained[x] ELSE TRUE]

KeptAlive(e) == [x \in DOMAIN retained \cup {e} |-> IF x = e THEN TRUE ELSE retained[x]]

(* The load returns entry e: to a thread's own code, through the retainer,  *)
(* or to the loader that called it.                                         *)
Returns(t, e, es) ==
    LET below == Front(stack[t]) IN
    CASE Top(t).caller = "user" ->
            /\ entries' = es
            /\ stack' = [stack EXCEPT ![t] = below]
            /\ held' = [held EXCEPT ![t] = @ \cup {e}]
            /\ UNCHANGED <<retained, used>>
      [] Top(t).caller = "retainer" ->
            /\ entries' = IF e \in DOMAIN retained THEN es ELSE Cloned(es, e)
            /\ stack' = [stack EXCEPT ![t] = below]
            /\ held' = [held EXCEPT ![t] = @ \cup {e}]
            /\ retained' = KeptAlive(e)
            /\ used' = used \cup {e}
      [] OTHER ->
            /\ LET to == Tracked(es, Last(below), e) IN
                  /\ entries' = to.entries
                  /\ stack' = [stack EXCEPT ![t] = Becomes(below, to.loader)]
            /\ UNCHANGED <<held, retained, used>>

(* OnceLock::get_or_init: of the threads that come to an empty cell one     *)
(* runs the loader, and the others wait for it.                             *)
StartsAnyway(e) == entries[e].value # "ready"

Starts(e) == entries[e].value = "empty"

BeginInit(t) ==
    LET f == Top(t) IN
    /\ In(t, "init")
    /\ Starts(f.entry)
    /\ entries' = [entries EXCEPT ![f.entry].value = "busy"]
    /\ stack' = [stack EXCEPT ![t] = Becomes(@, [f EXCEPT !.op = "loader"])]
    /\ UNCHANGED <<asset_map, held, retained, used, used_before, loads, panics>>

FindInit(t) ==
    /\ In(t, "init")
    /\ entries[Top(t).entry].value = "ready"
    /\ Returns(t, Top(t).entry, entries)
    /\ UNCHANGED <<asset_map, used_before, loads, panics>>

LoadDependency(t) ==
    LET f == Top(t) IN
    /\ In(t, "loader")
    /\ f.loaded < Len(DependsOn[f.key])
    /\ stack' = [stack EXCEPT ![t] = Append(Becomes(@, [f EXCEPT !.loaded = @ + 1]),
                                   Frame("fetch", "loader", DependsOn[f.key][f.loaded + 1], NoEntry))]
    /\ UNCHANGED <<asset_map, entries, held, retained, used, used_before, loads, panics>>

LoaderDone(f) == f.loaded = Len(DependsOn[f.key])

(* The loader returns its value and drops the assets it has used. *)
LoaderReturns(t) ==
    LET f == Top(t) IN
    /\ In(t, "loader")
    /\ LoaderDone(f)
    /\ f.rest # <<>>
    /\ entries' = Released(entries, Head(f.rest))
    /\ stack' = [stack EXCEPT ![t] =
          Dropping(Becomes(@, [f EXCEPT !.rest = Tail(@)]), entries, Head(f.rest))]
    /\ UNCHANGED <<asset_map, held, retained, used, used_before, loads, panics>>

FinishInit(t) ==
    LET f == Top(t) IN
    /\ In(t, "loader")
    /\ LoaderDone(f)
    /\ f.rest = <<>>
    /\ Returns(t, f.entry, [entries EXCEPT ![f.entry].value = "ready", ![f.entry].keep = f.keep])
    /\ UNCHANGED <<asset_map, used_before, loads, panics>>

-----------------------------------------------------------------------------
(* A loader that panics: the unwinding drops what it has kept alive, leaves *)
(* the cell empty for the next thread, drops the entry and goes on through  *)
(* the loader that called it.                                               *)

Unwound(f) == [f EXCEPT !.op = "unwind", !.rest = @ \o f.keep]

LoaderPanics(t) ==
    /\ In(t, "loader")
    /\ Top(t).rest = Top(t).keep
    /\ panics < MaxPanics
    /\ panics' = panics + 1
    /\ stack' = [stack EXCEPT ![t] = Becomes(@, Unwound(Top(t)))]
    /\ UNCHANGED <<asset_map, entries, held, retained, used, used_before, loads>>

(* The state an initialisation that panicked leaves the cell in. *)
AfterPanicBusy == "busy"

AfterPanic == "empty"

Unwind(t) ==
    LET f == Top(t)
        below == Front(stack[t])
        caller == IF f.caller = "loader" THEN Becomes(below, Unwound(Last(below))) ELSE below
        reset == [entries EXCEPT ![f.entry].value = AfterPanic]
    IN  /\ In(t, "unwind")
        /\ \/ /\ f.rest # <<>>
              /\ entries' = Released(entries, Head(f.rest))
              /\ stack' = [stack EXCEPT ![t] =
                    Dropping(Becomes(@, [f EXCEPT !.rest = Tail(@)]), entries, Head(f.rest))]
           \/ /\ f.rest = <<>>
              /\ entries' = Released(reset, f.entry)
              /\ stack' = [stack EXCEPT ![t] = Dropping(caller, reset, f.entry)]
        /\ UNCHANGED <<asset_map, held, retained, used, used_before, loads, panics>>

-----------------------------------------------------------------------------
(* Fetching what is there already.  The entry may still be loading: then    *)
(* the pointer is dropped again, and this thread may be the last to do so.  *)

FetchUntracked(t, k) ==
    /\ Wants(t, k)
    /\ Upgrades(k)
    /\ LET e == asset_map[k].weak IN
          /\ entries' = Cloned(entries, e)
          /\ stack' = [stack EXCEPT ![t] = Append(@, Frame("peek", "user", k, e))]
    /\ UNCHANGED <<asset_map, held, retained, used, used_before, loads, panics>>

UsableAlways(e) == TRUE

Usable(e) == entries[e].value = "ready"

Peek(t) ==
    LET e == Top(t).entry IN
    /\ In(t, "peek")
    /\ \/ /\ Usable(e)
          /\ stack' = [stack EXCEPT ![t] = Front(@)]
          /\ held' = [held EXCEPT ![t] = @ \cup {e}]
          /\ UNCHANGED entries
       \/ /\ ~Usable(e)
          /\ entries' = Released(entries, e)
          /\ stack' = [stack EXCEPT ![t] = Dropping(Front(@), entries, e)]
          /\ UNCHANGED held
    /\ UNCHANGED <<asset_map, retained, used, used_before, loads, panics>>

-----------------------------------------------------------------------------
(* Dropping.                                                                *)

Drop(t, e) ==
    /\ Idle(t)
    /\ e \in held[t]
    /\ held' = [held EXCEPT ![t] = @ \ {e}]
    /\ entries' = Released(entries, e)
    /\ stack' = [stack EXCEPT ![t] = Dropping(@, entries, e)]
    /\ UNCHANGED <<asset_map, retained, used, used_before, loads, panics>>

(* Drop for AssetEntry: under the write lock, the pair with this entry's id *)
(* is taken out of the map.                                                 *)
IsOwnByKey(e) == entries[e].key \in DOMAIN asset_map

IsOwnUpgraded(e) == Upgrades(entries[e].key) /\ asset_map[entries[e].key].id = entries[e].id

IsOwn(e) ==
    /\ entries[e].key \in DOMAIN asset_map
    /\ asset_map[entries[e].key].id = entries[e].id

RemoveEntry(t) ==
    LET e == Top(t).entry IN
    /\ In(t, "remove")
    /\ asset_map' = IF IsOwn(e) THEN [k \in DOMAIN asset_map \ {entries[e].key} |-> asset_map[k]]
                    ELSE asset_map
    /\ stack' = [stack EXCEPT ![t] = Becomes(@, [Top(t) EXCEPT !.op = "fields", !.rest = entries[e].keep])]
    /\ entries' = [entries EXCEPT ![e].keep = <<>>]
    /\ UNCHANGED <<held, retained, used, used_before, loads, panics>>

(* The entry's own fields go after it, and with them what it kept alive. *)
DropFields(t) ==
    LET f == Top(t) IN
    /\ In(t, "fields")
    /\ IF f.rest = <<>>
       THEN /\ stack' = [stack EXCEPT ![t] = Front(@)]
            /\ UNCHANGED entries
       ELSE /\ entries' = Released(entries, Head(f.rest))
            /\ stack' = [stack EXCEPT ![t] =
                  Dropping(Becomes(@, [f EXCEPT !.rest = Tail(@)]), entries, Head(f.rest))]
    /\ UNCHANGED <<asset_map, held, retained, used, used_before, loads, panics>>

(* AssetRetainer::reap, at the end of a frame: it drops what this frame has *)
(* not loaded and takes the marks off the rest.                             *)
Reap ==
    /\ Idle(Painter)
    /\ retained # <<>>
    /\ stack' = [stack EXCEPT ![Painter] =
          <<[Frame("reap", "user", entries[CHOOSE e \in DOMAIN retained : TRUE].key, NoEntry)
                EXCEPT !.rest = SetToSeq(DOMAIN retained)]>>]
    /\ used_before' = used /\ used' = {}
    /\ UNCHANGED <<asset_map, entries, held, retained, loads, panics>>

ReapNext ==
    LET f == Top(Painter)
        e == Head(f.rest)
        on == Becomes(stack[Painter], [f EXCEPT !.rest = Tail(@)])
    IN  /\ In(Painter, "reap")
        /\ \/ /\ f.rest = <<>>
              /\ stack' = [stack EXCEPT ![Painter] = Front(@)]
              /\ UNCHANGED <<entries, retained>>
           \/ /\ f.rest # <<>> /\ retained[e]
              /\ retained' = [retained EXCEPT ![e] = FALSE]
              /\ stack' = [stack EXCEPT ![Painter] = on]
              /\ UNCHANGED entries
           \/ /\ f.rest # <<>> /\ ~retained[e]
              /\ retained' = [x \in DOMAIN retained \ {e} |-> retained[x]]
              /\ entries' = Released(entries, e)
              /\ stack' = [stack EXCEPT ![Painter] = Dropping(on, entries, e)]
        /\ UNCHANGED <<asset_map, held, used, used_before, loads, panics>>

-----------------------------------------------------------------------------
Works(t) ==
    \/ FetchEntry(t) \/ Insert(t) \/ BeginInit(t) \/ FindInit(t) \/ LoadDependency(t) \/ LoaderReturns(t)
    \/ FinishInit(t) \/ Unwind(t) \/ Peek(t) \/ RemoveEntry(t) \/ DropFields(t)

Next ==
    \/ \E t \in Threads :
          \/ Works(t)
          \/ LoaderPanics(t)
          \/ \E k \in Keys : Load(t, k) \/ FetchUntracked(t, k)
          \/ \E e \in held[t] : Drop(t, e)
    \/ \E k \in Keys : RetainerLoad(k)
    \/ Reap \/ ReapNext

Spec == Init /\ [][Next]_vars

(* A call that has begun goes on; which calls are made is up to the users. *)
FairSpec ==
    /\ Spec
    /\ \A t \in Threads : WF_vars(Works(t))
    /\ WF_vars(ReapNext)

-----------------------------------------------------------------------------
(* What the manager promises.                                               *)

Alive(e) == entries[e].strong > 0
Ready(e) == entries[e].value = "ready"

(* An asset that anyone still holds is the one its key leads to: loading    *)
(* the key again shares it, however the drop of an earlier asset of the     *)
(* same key and the load that revived the key have interleaved.             *)
LiveIsShared ==
    \A e \in DOMAIN entries : Alive(e) =>
        /\ entries[e].key \in DOMAIN asset_map
        /\ asset_map[entries[e].key] = [id |-> entries[e].id, weak |-> e]

(* The map keeps nothing for an asset that is gone, except while the thread *)
(* that dropped it is still on its way to take it out.                      *)
NothingLeaks ==
    \A k \in DOMAIN asset_map : LET e == asset_map[k].weak IN
        Alive(e) \/ \E t \in Threads : \E i \in DOMAIN stack[t] :
            stack[t][i].op = "remove" /\ stack[t][i].entry = e /\ entries[e].id = asset_map[k].id

(* Every asset that a thread, the retainer or another asset holds has its   *)
(* value: no one sees an entry that is loading, or whose loader panicked.   *)
HeldIsReady ==
    /\ \A t \in Threads : \A e \in held[t] : Alive(e) /\ Ready(e)
    /\ \A e \in DOMAIN retained : Alive(e) /\ Ready(e)
    /\ \A e \in DOMAIN entries : \A i \in DOMAIN entries[e].keep :
          Alive(entries[e].keep[i]) /\ Ready(entries[e].keep[i])

(* What an asset was made from lives as long as it does: its loader's       *)
(* loads, in order, are kept by it and are still what their keys lead to.   *)
DependenciesOutlive ==
    \A e \in DOMAIN entries : (Alive(e) /\ Ready(e)) =>
        \A i \in DOMAIN DependsOn[entries[e].key] :
            LET d == DependsOn[entries[e].key][i] IN Upgrades(d) /\ Ready(asset_map[d].weak)

(* One thread at a time runs the loader of an entry, and none once the      *)
(* entry has its value.                                                     *)
LoadsOnce ==
    \A e \in DOMAIN entries :
        LET running == {t \in Threads : \E i \in DOMAIN stack[t] :
                            stack[t][i].op \in {"loader", "unwind"} /\ stack[t][i].entry = e}
        IN  Cardinality(running) = IF entries[e].value = "busy" THEN 1 ELSE 0

(* Between reaps the retainer holds exactly what this frame and the one     *)
(* before it have loaded through it.                                        *)
RetainsTwoFrames ==
    (\A i \in DOMAIN stack[Painter] : stack[Painter][i].op # "reap") =>
        DOMAIN retained = used \cup used_before

(* No thread waits for ever: every load, drop and reap comes to its end,    *)
(* also when the thread whose loader it waits for panics.                   *)
CallsEnd == \A t \in Threads : ~Idle(t) ~> Idle(t)

(* The map leads to the one live asset of each key, and to nothing else.    *)
AssetsShared == TypeOK /\ LiveIsShared /\ NothingLeaks

(* What is held is loaded, once, and so is all that it was made from.       *)
HeldIsUsable == HeldIsReady /\ DependenciesOutlive /\ LoadsOnce
=============================================================================
