----------------------------- MODULE BufferPool -----------------------------
(***************************************************************************)
(* The pool of shared-memory buffers of one surface (renderer/src/shm.rs): *)
(* at most two slots, each handed to the compositor by a commit and given  *)
(* back by wl_buffer.release.  The picture has two regions: the prompt,    *)
(* which a keystroke redraws alone, and the rest of it.  The compositor    *)
(* takes the damaged regions of the newest buffer when it pleases.         *)
(***************************************************************************)
EXTENDS Naturals, Sequences, FiniteSetsExt

CONSTANT ByteLens  \* the lengths in bytes that a frame may have

ASSUME ByteLenAssumption == ByteLens \subseteq Nat \ {0}

VARIABLES
    pool,    \* [len, slots, next]: SurfaceBufferPool; the buffer of a slot is
             \* "busy", its release was "sent", or it is "released"
    memory,  \* the regions that are current in the memory of each slot
    front,   \* [slot, damage, reads]: the slot committed last, the regions that the
             \* compositor has not taken from it, and the slot it took last and holds
    shown,   \* the regions that are current on the screen
    odd      \* history: "overtaken", a partial frame came before the full one was
             \* taken; "torn", a frame was drawn over the one on the screen in vain

poolVars == <<pool, memory, front, shown, odd>>

MaxBufferSlots == 2
Region == {"prompt", "rest"}
NoSlot == 0

-----------------------------------------------------------------------------
(* SurfaceBufferPool::next_buffer_slot *)

Released(slots) == {k \in DOMAIN slots : slots[k] = "released"}

\* A released slot at the end is given up, unless it is the only one.
Compacted(slots) ==
    IF Len(slots) > 1 /\ Len(slots) \in Released(slots)
    THEN SubSeq(slots, 1, Len(slots) - 1) ELSE slots

After(k, slots) == (k % Len(slots)) + 1

UsingNeverReset(p, k) ==
    LET slots == IF k \in DOMAIN p.slots THEN p.slots ELSE Append(p.slots, "busy")
    IN  [len |-> p.len, slots |-> slots, next |-> After(k, slots)]

\* The pool with slot k busy: reused, taken from the compositor, or new.
Using(p, k) ==
    LET slots == IF k \in DOMAIN p.slots THEN [p.slots EXCEPT ![k] = "busy"]
                                         ELSE Append(p.slots, "busy")
    IN  [len |-> p.len, slots |-> slots, next |-> After(k, slots)]

NextBufferSlot(p) ==
    IF Released(p.slots) # {} THEN Min(Released(p.slots))
    ELSE IF Len(p.slots) < MaxBufferSlots THEN Len(p.slots) + 1
    ELSE p.next

\* The pool that a draw of this length starts from.
PoolFor(bytes) ==
    LET slots == IF pool.len = bytes THEN Compacted(pool.slots) ELSE <<>>
    IN  [len |-> bytes,
         slots |-> slots,
         next |-> IF slots = <<>> THEN 1 ELSE ((pool.next - 1) % Len(slots)) + 1]

-----------------------------------------------------------------------------
\* A draw over what the compositor reads is for nothing if it had released
\* another slot, or if it is the newest frame that is lost.
TornBy(k) ==
    /\ k = front.reads
    /\ k = front.slot \/ Released(pool.slots) # {}

\* What a commit of slot k with this damage makes of screen and history.
Commits(k, damage, resized, overtakes) ==
    /\ front' = [slot |-> k, damage |-> front.damage \cup damage,
                 reads |-> IF resized THEN NoSlot ELSE front.reads]
    /\ shown' = shown \ damage
    /\ odd' = (odd \ (IF damage = Region THEN {"overtaken"} ELSE {}))
              \cup (IF overtakes THEN {"overtaken"} ELSE {})
              \cup (IF ~resized /\ TornBy(k) THEN {"torn"} ELSE {})

\* render_buffer and commit_buffer: every pixel is written and damaged, and
\* what the other slot holds is of the past.
RenderBuffer(bytes) ==
    LET p == PoolFor(bytes)
        k == NextBufferSlot(p)
    IN  /\ pool' = Using(p, k)
        /\ memory' = [j \in DOMAIN memory |-> IF j = k THEN Region ELSE {}]
        /\ Commits(k, Region, bytes # pool.len, FALSE)

WholeDamage == Region
RegionDamage == {"prompt"}

\* render_buffer_region: the prompt is restored from the scene and drawn again
\* in whatever slot comes next, whose other pixels stay as they are.
RenderBufferRegion ==
    LET p == PoolFor(pool.len)
        k == NextBufferSlot(p)
    IN  /\ front.slot # NoSlot  \* a full frame made the pool
        /\ pool' = Using(p, k)
        /\ memory' = [j \in DOMAIN memory |->
                          IF j = k THEN memory[j] \cup {"prompt"} ELSE memory[j] \ {"prompt"}]
        /\ Commits(k, RegionDamage, FALSE, "rest" \in front.damage)

-----------------------------------------------------------------------------
(* The compositor. *)

Take ==
    /\ front.damage # {}
    /\ shown' = shown \cup (front.damage \cap memory[front.slot])
    /\ front' = [front EXCEPT !.damage = {}, !.reads = front.slot]
    /\ UNCHANGED <<pool, memory, odd>>

\* wl_buffer.release: of an older buffer, or of the newest once it was read.
Release(k) ==
    /\ pool.slots[k] = "busy"
    /\ k = front.slot => front.damage = {}
    /\ pool' = [pool EXCEPT !.slots[k] = "sent"]
    /\ front' = [front EXCEPT !.reads = IF @ = k THEN NoSlot ELSE @]
    /\ UNCHANGED <<memory, shown, odd>>

\* The event reaches ShmBufferRelease::mark_released.  Events for a buffer
\* that was destroyed or whose slot was dropped change nothing in the pool.
MarkReleased(k) ==
    /\ pool.slots[k] = "sent"
    /\ pool' = [pool EXCEPT !.slots[k] = "released"]
    /\ UNCHANGED <<memory, front, shown, odd>>

PoolInit ==
    /\ \E bytes \in ByteLens : pool = [len |-> bytes, slots |-> <<>>, next |-> 1]
    /\ memory = [k \in 1 .. MaxBufferSlots |-> {}]
    /\ front = [slot |-> NoSlot, damage |-> {}, reads |-> NoSlot]
    /\ shown = {}
    /\ odd = {}

PoolNext ==
    \/ \E bytes \in ByteLens : RenderBuffer(bytes)
    \/ RenderBufferRegion
    \/ Take
    \/ \E k \in DOMAIN pool.slots : Release(k) \/ MarkReleased(k)

PoolSpec == PoolInit /\ [][PoolNext]_poolVars

-----------------------------------------------------------------------------
\* Once the compositor has taken a frame, the screen is current everywhere,
\* although the buffer of a partial frame seldom holds the whole picture, and
\* whatever the compositor holds on to.  A partial frame that overtakes a full
\* one is the exception, until the next full one.  And no frame is drawn over
\* the one that the compositor reads while another slot is to be had, nor ever
\* over the newest.
PictureIsWhole ==
    /\ front.damage = {} /\ front.slot # NoSlot /\ "overtaken" \notin odd => shown = Region
    /\ "torn" \notin odd
=============================================================================
