---------------------------- MODULE PlayerFilter ----------------------------
(***************************************************************************)
(* How the API drops the nameless entries of a game server's player list:  *)
(* the nil ones, and those whose id is empty or "0". The loop ranges over  *)
(* the slice as it was, so it takes as many turns as there were entries,   *)
(* while each removal shifts the rest of the backing array down and leaves *)
(* a shorter slice on the same array: the entry after a removed one is     *)
(* never looked at, and the places past the shorter slice are. An entry is *)
(* named by the place it had in the list. Names carry a prefix because the *)
(* proofs extend this module next to the others.                           *)
(***************************************************************************)
EXTENDS Naturals

VARIABLES
    size,        \* the length of the list that came, of which range keeps a copy
    nameless,    \* the entries without a player
    slots,       \* the backing array: the entry at each place
    length,      \* len(players)
    turn,        \* i + 1, for the i of the loop
    loop         \* "running", "done", or "panic": slice bounds out of range

filterVars == <<size, nameless, slots, length, turn, loop>>

FilterTypeOK ==
    /\ size \in Nat /\ length \in 0..size /\ turn \in 1..(size + 1)
    /\ nameless \subseteq 1..size
    /\ slots \in [1..size -> 1..size]
    /\ loop \in {"running", "done", "panic"}

FilterInit ==
    /\ size \in Nat
    /\ nameless \in SUBSET (1..size)
    /\ slots = [k \in 1..size |-> k]
    /\ length = size /\ turn = 1 /\ loop = "running"

\* The next turn of the loop, which reads an entry from the array as it is now.
Turn == loop = "running" /\ turn <= size

\* append(players[:i], players[i+1:]...), in place.
Removed(i) == [k \in 1..size |-> IF k \in i..(length - 1) THEN slots[k + 1] ELSE slots[k]]

KeepPlayer ==
    /\ Turn /\ slots[turn] \notin nameless
    /\ turn' = turn + 1
    /\ UNCHANGED <<size, nameless, slots, length, loop>>

RemoveNameless ==
    /\ Turn /\ slots[turn] \in nameless /\ turn <= length
    /\ slots' = Removed(turn) /\ length' = length - 1
    /\ turn' = turn + 1
    /\ UNCHANGED <<size, nameless, loop>>

\* players[i+1:] starts past the end of the slice.
SlicePanic ==
    /\ Turn /\ slots[turn] \in nameless /\ turn > length
    /\ loop' = "panic"
    /\ UNCHANGED <<size, nameless, slots, length, turn>>

EndLoop ==
    /\ loop = "running" /\ turn > size
    /\ loop' = "done"
    /\ UNCHANGED <<size, nameless, slots, length, turn>>

FilterNext == KeepPlayer \/ RemoveNameless \/ SlicePanic \/ EndLoop

FilterSpec == FilterInit /\ [][FilterNext]_filterVars

-----------------------------------------------------------------------------
(* What the loop leaves in the slice. *)

\* Every player of the list that came is in the list that is stored, and the entries of that
\* list are distinct and in their order: shifting the array under the loop neither loses nor
\* repeats a player, although the array repeats its last entry past the slice.
PlayersKept ==
    loop = "done" =>
        /\ \A e \in 1..size : e \notin nameless => \E k \in 1..length : slots[k] = e
        /\ \A j, k \in 1..length : j < k => slots[j] < slots[k]

\* A nameless entry stays, and is counted as a player, only if the entry before it in the list
\* was nameless too: the one the loop stepped over when it removed that one.
OnlyFollowersStay ==
    loop = "done" =>
        \A k \in 1..length : slots[k] \in nameless => slots[k] - 1 \in nameless

\* The loop panics exactly for the lists whose last entry is nameless and not the only one:
\* after a removal the place of the last entry, which still holds it, is past the slice.
LastAndOther == size \in nameless /\ nameless # {size}
PanicsExactly ==
    /\ loop = "panic" => LastAndOther
    /\ loop = "done" => ~LastAndOther
=============================================================================
