----------------------------- MODULE MsgWindow -----------------------------
(***************************************************************************)
(* The message window of openvpn/common/msgwin.hpp, the lowest-level       *)
(* object of the OpenVPN reliability layer.  A window is a head id and a   *)
(* queue of message objects, one per id from the head on.  The queue is    *)
(* kept here as a function from ids to slots: a slot the code has not yet  *)
(* grown and a grown, default-constructed one are not distinguished by any *)
(* operation of the class, and both are Undef.  Slots below the head are   *)
(* the popped ones; no operation looks at them.                            *)
(***************************************************************************)
EXTENDS Naturals

CONSTANTS
    Payload,   \* what a packet carries above the reliability layer
    MaxId      \* bound on the message ids (32-bit in the code)

ASSUME MaxIdAssumption == MaxId \in Nat

Undef  == "undef"    \* default-constructed object: neither defined nor erased
Erased == "erased"   \* erase() was called: erased() holds, no packet

ASSUME PayloadAssumption == Undef \notin Payload /\ Erased \notin Payload

Ids == 0 .. MaxId

Slots == Payload \cup {Undef, Erased}

Windows == [head : Ids, slot : [Ids -> Slots]]

Window(h, s) == [head |-> h, slot |-> s]

\* init(starting_head_id, span): an empty window.
EmptyWindow == Window(0, [i \in Ids |-> Undef])

InWindow(w, span, id) == id >= w.head /\ id < w.head + span

\* Mutant: an id that was popped already is taken for one after the window.
PreWindowNever(w, id) == FALSE

PreWindow(w, id) == id < w.head

Defined(w, id) == w.slot[id] \in Payload

\* The ids in the window whose object holds a packet.
DefinedIds(w, span) == {i \in Ids : InWindow(w, span, i) /\ Defined(w, i)}

\* Mutant: the packet is kept only if it is the next one.
StoreNextOnly(w, id, m) == IF id = w.head THEN Window(w.head, [w.slot EXCEPT ![id] = m]) ELSE w

\* ref_by_id(id), through which the caller stores packet m.
Store(w, id, m) == Window(w.head, [w.slot EXCEPT ![id] = m])

(***************************************************************************)
(* rm_by_id for every id of a set: the ids outside the window are no-ops.  *)
(* One purge() at the end reaches the same window as one after each erase: *)
(* purge only moves the head over erased objects, and an id is refused by  *)
(* in_window because of a moved head only if it was erased already.        *)
(***************************************************************************)
EraseIds(w, span, ids) ==
    Window(w.head, [i \in Ids |-> IF i \in ids /\ InWindow(w, span, i)
                                     THEN Erased
                                     ELSE w.slot[i]])

\* h is where purge() leaves the head: the first object not erased.
PurgesTo(w, h) ==
    /\ h >= w.head
    /\ \A i \in Ids : i >= w.head /\ i < h => w.slot[i] = Erased
    /\ w.slot[h] # Erased

=============================================================================
