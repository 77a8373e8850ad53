------------------------------- MODULE ThFcache -------------------------------
(***************************************************************************)
(* The cache of open files of th_fcache.c and the responses that use it    *)
(* (th_response.c): a map from names to entries and a list of the cached   *)
(* entries in order of use.  The list and every response that serves an    *)
(* entry hold a reference to it; the map holds none.                       *)
(***************************************************************************)
EXTENDS Integers, Sequences, SequencesExt, FiniteSets

CONSTANTS
  Names,      \* th_fcache_id: a path in a directory
  Blocks,     \* the memory entries are allocated from
  Responses,  \* responses under construction or being written
  Nothing,    \* no entry
  MaxCached,  \* cache->max_cached
  MaxLost     \* bound: references overwritten by a second body from a file

ASSUME FcacheAssumption ==
  /\ Nothing \notin Blocks \union Names /\ IsFiniteSet(Responses)
  /\ MaxCached \in Nat \ {0}
  /\ MaxLost \in Nat

VARIABLES
  cache,  \* see TypeOK
  held,   \* response -> response->fcache_entry
  lost,   \* entry -> references that no response can give back any more
  over    \* th_fcache_deinit was called

vars == <<cache, held, lost, over>>

(***************************************************************************)
(* map, list, num: cache->map, list and num_cached; refs: the entries'     *)
(* refcount, 0 for a free block; name: the entries' path and dir; stale:   *)
(* entries whose file's stat hash is no longer entry->stat_hash; broken:   *)
(* an assertion failed, or in a release build memory is corrupt.           *)
(***************************************************************************)
TypeOK ==
  /\ DOMAIN cache.map \subseteq Names /\ Range(cache.map) \subseteq Blocks
  /\ cache.list \in Seq(Blocks)
  /\ cache.num \in Int /\ (~cache.broken => cache.num \in 0 .. MaxCached)
  /\ cache.refs \in [Blocks -> Nat]
  /\ cache.name \in [Blocks -> Names \union {Nothing}]
  /\ cache.stale \subseteq Blocks
  /\ cache.broken \in BOOLEAN
  /\ held \in [Responses -> Blocks \union {Nothing}]
  /\ lost \in [Blocks -> 0 .. MaxLost]
  /\ over \in BOOLEAN

Init ==
  /\ cache = [map |-> << >>, list |-> <<>>, num |-> 0,
              refs |-> [e \in Blocks |-> 0], name |-> [e \in Blocks |-> Nothing],
              stale |-> {}, broken |-> FALSE]
  /\ held = [r \in Responses |-> Nothing]
  /\ lost = [e \in Blocks |-> 0]
  /\ over = FALSE

-----------------------------------------------------------------------------
(* The functions of th_fcache.c, from the cache before to the cache after. *)

Listed(c, e) == e \in ToSet(c.list)
Live(c, e) == c.refs[e] > 0

Without(map, n) == [m \in DOMAIN map \ {n} |-> map[m]]

(* Mutant: the slot of the map is kept.                                    *)
DestroyKeepsSlot(c, e) ==
  [c EXCEPT !.refs[e] = 0, !.name[e] = Nothing, !.stale = @ \ {e}]

(* th_fcache_entry_actual_destroy: the slot of the entry's name goes,      *)
(* whichever entry it holds.                                               *)
Destroy(c, e) ==
  [c EXCEPT !.map = Without(@, c.name[e]), !.refs[e] = 0, !.name[e] = Nothing,
            !.stale = @ \ {e}]

(* th_fcache_entry_unref: asserts that there is a reference.               *)
Unref(c, e) ==
  CASE c.refs[e] = 0 -> [c EXCEPT !.broken = TRUE]
    [] c.refs[e] = 1 -> Destroy(c, e)
    [] OTHER -> [c EXCEPT !.refs[e] = @ - 1]

(* th_fcache_list_erase: asserts that the entry is in the list.            *)
Unlink(c, e) ==
  IF Listed(c, e)
  THEN [c EXCEPT !.list = RemoveAt(@, CHOOSE i \in DOMAIN @ : @[i] = e)]
  ELSE [c EXCEPT !.broken = TRUE]

(* Mutant: the reference is kept.                                          *)
EraseKeepsRef(c, e) == [Unlink(c, e) EXCEPT !.num = @ - 1]

(* th_fcache_erase                                                         *)
Erase(c, e) == [Unref(Unlink(c, e), e) EXCEPT !.num = @ - 1]

(* th_fcache_try_get finds a slot, and the file has not been modified.     *)
Hit(n) == n \in DOMAIN cache.map /\ cache.map[n] \notin cache.stale

(* th_fcache_try_get without a hit: an outdated entry is erased.           *)
Missed(n) ==
  IF n \in DOMAIN cache.map THEN Erase(cache, cache.map[n]) ELSE cache

(* th_fcache_insert, up to the write to the map: make room.                *)
MakeRoom(c) ==
  IF c.num # MaxCached THEN c
  ELSE IF c.list = <<>> THEN [c EXCEPT !.broken = TRUE]
  ELSE Erase(c, Head(c.list))

Enter(c, e) ==
  [c EXCEPT !.map = [m \in DOMAIN @ \union {c.name[e]} |->
                       IF m = c.name[e] THEN e ELSE @[m]],
            !.list = Append(@, e), !.num = @ + 1, !.refs[e] = @ + 1]

(* th_fcache_entry_init and th_fcache_entry_open.                          *)
Opened(c, e, n) ==
  [c EXCEPT !.refs[e] = 1, !.name[e] = n, !.stale = @ \ {e}]

-----------------------------------------------------------------------------
(* th_response_set_body_from_file: the entry it gets replaces the one that *)
(* an earlier call put into the response, whose reference is lost.         *)

Hold(r, e) ==
  /\ held' = [held EXCEPT ![r] = e]
  /\ lost' = IF held[r] = Nothing THEN lost ELSE [lost EXCEPT ![held[r]] = @ + 1]
  /\ UNCHANGED over

Sound == ~cache.broken
Running == ~over /\ Sound

MayGet(r) == Running /\ (held[r] # Nothing => lost[held[r]] < MaxLost)

GetCached(r, n) ==
  /\ MayGet(r)
  /\ Hit(n)
  /\ LET e == cache.map[n] IN
     /\ cache' = [Unlink(cache, e) EXCEPT !.list = Append(@, e), !.refs[e] = @ + 1]
     /\ Hold(r, e)

(* No memory for the entry, or the file cannot be opened.                  *)
GetFails(r, n) ==
  /\ MayGet(r)
  /\ ~Hit(n)
  /\ cache' = Missed(n)
  /\ UNCHANGED <<held, lost, over>>

GetOpened(r, n) ==
  /\ MayGet(r)
  /\ ~Hit(n)
  /\ \E e \in Blocks :
       /\ ~Live(Missed(n), e)
       /\ cache' = Enter(MakeRoom(Opened(Missed(n), e, n)), e)
       /\ Hold(r, e)

(* The map has no room for the entry and no memory: it is dropped again.   *)
GetNotInserted(r, n) ==
  /\ MayGet(r)
  /\ ~Hit(n)
  /\ \E e \in Blocks :
       /\ ~Live(Missed(n), e)
       /\ cache' = Unref(MakeRoom(Opened(Missed(n), e, n)), e)
  /\ UNCHANGED <<held, lost, over>>

(* th_response_reset, th_response_deinit, and th_response_set_body_from_file *)
(* when it cannot set the content type.                                    *)
Release(r) ==
  /\ Running
  /\ held[r] # Nothing
  /\ cache' = Unref(cache, held[r])
  /\ held' = [held EXCEPT ![r] = Nothing]
  /\ UNCHANGED <<lost, over>>

(* The file under a name is modified in place.                             *)
Modify(n) ==
  /\ Running
  /\ cache' = [cache EXCEPT !.stale =
                 @ \union {e \in Blocks : Live(cache, e) /\ cache.name[e] = n}]
  /\ UNCHANGED <<held, lost, over>>

(* th_fcache_deinit, an entry at a time: the server has destroyed all      *)
(* connections, and nothing else uses the cache any more.                  *)
Deinit ==
  /\ Sound
  /\ \A r \in Responses : held[r] = Nothing
  /\ cache.list # <<>>
  /\ cache' = Unref([cache EXCEPT !.list = Tail(@)], Head(cache.list))
  /\ over' = TRUE
  /\ UNCHANGED <<held, lost>>

Next ==
  \/ \E r \in Responses, n \in Names :
       GetCached(r, n) \/ GetFails(r, n) \/ GetOpened(r, n) \/ GetNotInserted(r, n)
  \/ \E n \in Names : Modify(n)
  \/ \E r \in Responses : Release(r)
  \/ Deinit

Spec == Init /\ [][Next]_vars

-----------------------------------------------------------------------------
(* Nobody serves a file from freed memory and nothing is kept open for     *)
(* ever: a block is referenced exactly by the list, by the responses that  *)
(* serve it, and by references that were overwritten.  The count of cached *)
(* files is the length of the list, so that a full cache always has a      *)
(* first entry to evict.                                                   *)
RefsExact ==
  /\ TypeOK
  /\ Sound => \A e \in Blocks :
       cache.refs[e] = Cardinality({r \in Responses : held[r] = e}) + lost[e]
                       + (IF Listed(cache, e) THEN 1 ELSE 0)
  /\ Running => /\ cache.num = Len(cache.list) /\ cache.num <= MaxCached
                /\ IsInjective(cache.list)

(* The map holds no reference, yet it never leads to a freed entry or to   *)
(* the entry of another name, whatever order entries are evicted, replaced *)
(* and released in.                                                        *)
SlotsAreLive ==
  Sound => \A n \in DOMAIN cache.map :
    Live(cache, cache.map[n]) /\ cache.name[cache.map[n]] = n

=============================================================================
