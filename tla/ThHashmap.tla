------------------------------- MODULE ThHashmap -------------------------------
(***************************************************************************)
(* The open-addressing hash map of th_hashmap.h: linear probing, growth by *)
(* doubling in place, and deletion that closes the hole.  The operators    *)
(* take a map and give the map after the call.  A map is a record of the   *)
(* struct's slots, capacity, size, begin and end, and broken: a read out   *)
(* of bounds was made.                                                     *)
(***************************************************************************)
EXTENDS Integers, Sequences, SequencesExt, FiniteSets

CONSTANTS
  HashOf,  \* the hash of every key
  Empty    \* the slot's key is K_NULL

NewMap ==
  [slots |-> [i \in 0 .. 0 - 1 |-> Empty], capacity |-> 0, size |-> 0,
   begin |-> 0, end |-> 0, broken |-> FALSE]

-----------------------------------------------------------------------------
Used(m, i) == m.slots[i] # Empty
KeyAt(m, i) == m.slots[i][1]
Home(m, k) == HashOf[k] % m.capacity

UsedIn(m, first, last) == {i \in first .. last : Used(m, i)}

(* _update_begin_end, with the size after the insertion.                   *)
Widened(m, i) ==
  IF m.size = 1 THEN [m EXCEPT !.begin = i, !.end = i + 1]
  ELSE [m EXCEPT !.begin = IF i < @ THEN i ELSE @,
                 !.end = IF i + 1 > @ THEN i + 1 ELSE @]

(* _do_set: the first slot from the key's home on, around the end, that is *)
(* empty or holds the key.                                                 *)
DoSet(m, k, v) ==
  LET slot(j) == (Home(m, k) + j) % m.capacity
      found == {j \in 0 .. m.capacity - 1 :
                  ~Used(m, slot(j)) \/ KeyAt(m, slot(j)) = k}
      i == slot(Min(found))
      written == [m EXCEPT !.slots[i] = <<k, v>>]
  IN IF found = {} THEN m
     ELSE IF Used(m, i) THEN written
     ELSE Widened([written EXCEPT !.size = @ + 1], i)

(* _prev, the index from which _fix_hole computes the end: the loop reads  *)
(* out of bounds if it begins or gets below 0.                             *)
Prev(m, i) ==
  LET below == UsedIn(m, m.begin, i - 1)
  IN IF below # {} THEN Max(below)
     ELSE IF i = 0 \/ m.begin = 0 \/ m.begin = m.end THEN 0 - 1
     ELSE m.begin

Next_(m, i) ==
  LET above == UsedIn(m, i + 1, m.end - 1)
  IN IF above # {} THEN Min(above) ELSE 0 - 1

(* Mutant of the loop of _fix_hole: an entry whose home is the hole stays. *)
CloseHoleStrictly(m, hole) ==
  LET stop == Min({i \in hole + 1 .. m.end - 1 : ~Used(m, i)} \union {m.end})
      Move(s, i) ==
        IF Home(m, KeyAt(m, i)) < s.last
        THEN [slots |-> [s.slots EXCEPT ![s.last] = m.slots[i], ![i] = Empty], last |-> i]
        ELSE s
  IN FoldLeft(Move, [slots |-> m.slots, last |-> hole],
              [j \in 1 .. stop - hole - 1 |-> hole + j])

(* The loop of _fix_hole: up to the next empty slot, entries whose home is *)
(* not above the hole move into it and leave a hole of their own.          *)
CloseHole(m, hole) ==
  LET stop == Min({i \in hole + 1 .. m.end - 1 : ~Used(m, i)} \union {m.end})
      Move(s, i) ==
        IF Home(m, KeyAt(m, i)) <= s.last
        THEN [slots |-> [s.slots EXCEPT ![s.last] = m.slots[i], ![i] = Empty], last |-> i]
        ELSE s
  IN FoldLeft(Move, [slots |-> m.slots, last |-> hole],
              [j \in 1 .. stop - hole - 1 |-> hole + j])

(* Mutant: begin and end are left alone unless the map is empty.           *)
FixHoleLazily(m, hole) ==
  LET closed == [m EXCEPT !.slots = CloseHole(m, hole).slots]
  IN IF m.size = 0 THEN [closed EXCEPT !.begin = 0, !.end = 0] ELSE closed

(* _fix_hole, after the size was decreased.                                *)
FixHole(m, hole) ==
  LET last == CloseHole(m, hole).last
      closed == [m EXCEPT !.slots = CloseHole(m, hole).slots]
      bound(i, below, above) ==
        IF i < 0 THEN [closed EXCEPT !.broken = TRUE]
        ELSE [closed EXCEPT !.begin = below, !.end = above]
  IN IF m.size = 0 THEN [closed EXCEPT !.begin = 0, !.end = 0]
     ELSE IF last = m.end - 1
          THEN bound(Prev(closed, last), m.begin, Prev(closed, last) + 1)
     ELSE IF last = m.begin
          THEN bound(Next_(closed, last), Next_(closed, last), m.end)
     ELSE closed

Removed(m, i) == FixHole([m EXCEPT !.slots[i] = Empty, !.size = @ - 1], i)

(* _reserve with room for twice as many entries.                           *)
Reserved(m) ==
  LET capacity == IF m.capacity = 0 THEN 1 ELSE m.capacity * 2
  IN [m EXCEPT !.capacity = capacity,
               !.slots = [i \in 0 .. capacity - 1 |->
                            IF i < m.capacity THEN m.slots[i] ELSE Empty]]

(* _expand: every slot of the old part is emptied and its entry set again. *)
Expand(m) ==
  LET Rehash(n, i) ==
        IF ~Used(n, i) THEN n
        ELSE DoSet(Removed(n, i), n.slots[i][1], n.slots[i][2])
  IN FoldLeft(Rehash, Reserved(m), [j \in 1 .. m.capacity |-> j - 1])

NeedsRoom(m) == m.size >= m.capacity \div 2

(* _set *)
Set(m, k, v) == DoSet(IF NeedsRoom(m) THEN Expand(m) ELSE m, k, v)

(* _find: the slot of the key, or -1; only slots from begin to end are     *)
(* looked at.                                                              *)
Find(m, k) ==
  LET home == Home(m, k)
      Stops(i) == ~Used(m, i) \/ KeyAt(m, i) = k
      upper == {i \in home .. m.end - 1 : Stops(i)}
      lower == {i \in m.begin .. home - 1 : Stops(i)}
      i == IF upper # {} THEN Min(upper) ELSE Min(lower)
  IN IF m.size = 0 \/ upper \union lower = {} THEN 0 - 1
     ELSE IF Used(m, i) THEN i ELSE 0 - 1

-----------------------------------------------------------------------------
(* The map m holds the pairs of dict and no other, none of them twice, and *)
(* size counts them.                                                       *)
Holds(m, dict) ==
  /\ {m.slots[i] : i \in UsedIn(m, 0, m.capacity - 1)}
       = {<<k, dict[k]>> : k \in DOMAIN dict}
  /\ Cardinality(UsedIn(m, 0, m.capacity - 1)) = Cardinality(DOMAIN dict)
  /\ m.size = Cardinality(DOMAIN dict)

(* begin and end are those of the used slots, and no read went beyond.     *)
IsTight(m) ==
  /\ ~m.broken
  /\ UsedIn(m, 0, m.capacity - 1) # {} =>
       /\ m.begin = Min(UsedIn(m, 0, m.capacity - 1))
       /\ m.end = Max(UsedIn(m, 0, m.capacity - 1)) + 1
=============================================================================
