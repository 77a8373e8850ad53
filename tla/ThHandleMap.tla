------------------------------ MODULE ThHandleMap ------------------------------
(***************************************************************************)
(* The handles of the poll reactor by descriptor, th_poll_handle_map of    *)
(* th_poll.c: a dense array of handles and a hash map from descriptors to  *)
(* indices of the array.  A handle is the descriptor it was made for.      *)
(***************************************************************************)
EXTENDS Integers, Sequences, SequencesExt

CONSTANTS
  Fds,         \* descriptors the kernel hands out
  Empty,
  AllocFails,  \* the allocator may fail
  MaxCapacity  \* bound: capacity of the hash map

ASSUME HandleMapAssumption ==
  /\ Fds \subseteq Nat /\ Empty \notin Fds
  /\ AllocFails \in BOOLEAN
  /\ MaxCapacity \in Nat

VARIABLES
  map,      \* fd_to_idx_map
  handles,  \* handles[0 .. size - 1]
  open,     \* history: the descriptors that have a handle
  untold,   \* history: descriptors for which no memory was found
  failed    \* an assertion failed

vars == <<map, handles, open, untold, failed>>

(* th_poll_fd_hash is the descriptor.                                      *)
H == INSTANCE ThHashmap WITH HashOf <- [fd \in Fds |-> fd]

Init ==
  /\ map = H!NewMap
  /\ handles = <<>>
  /\ open = {}
  /\ untold = {}
  /\ failed = FALSE

IndexOf(fd) == IF H!Find(map, fd) < 0 THEN 0 - 1 ELSE map.slots[H!Find(map, fd)][2]

(* th_poll_handle_map_try_get                                              *)
TryGet(fd) == IF IndexOf(fd) < 0 THEN Empty ELSE handles[IndexOf(fd) + 1]

(***************************************************************************)
(* th_poll_reactor_create_handle: th_poll_handle_map_set for a descriptor  *)
(* the kernel has just opened.                                             *)
(***************************************************************************)
Create(fd) ==
  /\ ~failed
  /\ fd \notin open
  /\ open' = open \union {fd}
  /\ IF IndexOf(fd) >= 0
     THEN /\ handles' = [handles EXCEPT ![IndexOf(fd) + 1] = fd]
          /\ UNCHANGED map
     ELSE /\ H!NeedsRoom(map) => map.capacity * 2 <= MaxCapacity
          /\ handles' = Append(handles, fd)
          /\ map' = H!Set(map, fd, Len(handles))
  /\ UNCHANGED <<untold, failed>>

(* The same without memory for the array or the map; nobody is told.       *)
CreateFails(fd) ==
  /\ ~failed
  /\ AllocFails
  /\ fd \notin open
  /\ IndexOf(fd) < 0
  /\ open' = open \union {fd}
  /\ untold' = untold \union {fd}
  /\ \/ UNCHANGED handles
     \/ H!NeedsRoom(map) /\ handles' = Append(handles, fd)
  /\ UNCHANGED <<map, failed>>

(***************************************************************************)
(* th_poll_handle_destroy: th_poll_handle_map_remove puts the last handle  *)
(* of the array into the place of the removed one.                         *)
(***************************************************************************)
Destroy(fd) ==
  LET idx == IndexOf(fd)
      last == handles[Len(handles)]
      erased == H!Removed(map, H!Find(map, fd))
      moved == H!Find(erased, last)
  IN /\ ~failed
     /\ fd \in open
     /\ open' = open \ {fd}
     /\ UNCHANGED untold
     /\ IF idx < 0
        THEN failed' = TRUE /\ UNCHANGED <<map, handles>>
        ELSE IF idx = Len(handles) - 1
        THEN map' = erased /\ handles' = Front(handles) /\ UNCHANGED failed
        ELSE /\ failed' = (moved < 0)
             /\ map' = IF moved < 0 THEN erased
                       ELSE [erased EXCEPT !.slots[moved] = <<last, idx>>]
             /\ handles' = Front([handles EXCEPT ![idx + 1] = last])

Next == \E fd \in Fds : Create(fd) \/ CreateFails(fd) \/ Destroy(fd)

Spec == Init /\ [][Next]_vars

-----------------------------------------------------------------------------
(* What th_poll_handle_map_try_get finds is the handle of the descriptor,  *)
(* which is open, however removals have moved handles and entries about;   *)
(* and as long as there was memory for every handle it finds every open    *)
(* descriptor's.                                                           *)
LookupIsExact ==
  /\ \A fd \in Fds : TryGet(fd) # Empty => fd \in open /\ TryGet(fd) = fd
  /\ untold = {} => \A fd \in open : TryGet(fd) = fd

(* Handles and entries are of their types.                                 *)
TypeOK ==
  /\ handles \in Seq(Fds)
  /\ open \subseteq Fds
  /\ failed \in BOOLEAN
  /\ map.size \in 0 .. Len(handles)

(* The table holds the index of every handle, once and nothing else, and   *)
(* its bounds begin and end are those of the slots in use, from which      *)
(* erasing and growing start.                                              *)
TableIsSound ==
  /\ TypeOK
  /\ ~failed /\ untold = {} =>
       H!Holds(map, [fd \in open |-> SelectInSeq(handles, LAMBDA x : x = fd) - 1])
  /\ H!IsTight(map)

(* th_poll.c:144, :150: "Must not remove a non-existent handle", "Last     *)
(* handle's fd must be present in the map".                                *)
HandlesArePresent == untold = {} => ~failed
=============================================================================
