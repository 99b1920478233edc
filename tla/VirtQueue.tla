----------------------------- MODULE VirtQueue -----------------------------
(***************************************************************************)
(* The two virtqueues between a remote processor (the slave) and its host. *)
(* The slave's side is packages/ti/ipc/family/omap54xx/VirtQueue.c, the    *)
(* host's qnx/src/ipc3x_dev/ti/syslink/ipc/hlos/knl/transports/virtio/     *)
(* VirtQueue.c.  A queue has Num buffers that go round: the host offers    *)
(* them in the avail ring, the slave gives them back in the used ring.     *)
(* Each operator is one step of an operation, up to one access that the    *)
(* other processor can see; who runs when is up to the composing module.   *)
(***************************************************************************)
EXTENDS Naturals

CONSTANTS Num,          \* vring.num: the buffers of a queue
          Width,        \* indices are UInt16: they count modulo 2^16
          Messages,     \* what a buffer may hold
          NoMsg         \* what it holds at first

\* "must be power of two": the index of the ring must not jump when the counter wraps.
ASSUME RingAssumption == Num \in Nat \ {0} /\ Width \in Nat /\ Width % Num = 0 /\ Width > Num
ASSUME NoMsgAssumption == NoMsg \notin Messages

Tokens  == 0 .. Num - 1         \* descriptors, each with its buffer
Indices == 0 .. Width - 1
VirtQueues == {"toHost", "fromHost"}

VARIABLE vq             \* both rings, and what each side keeps about them

VirtQueueTypeOK ==
    vq \in [VirtQueues ->
        [buf : [Tokens -> Messages \cup {NoMsg}],
         avail : [Tokens -> Tokens], availIdx : Indices,
         used : [Tokens -> Tokens], usedIdx : Indices,
         noNotify : BOOLEAN,        \* VRING_USED_F_NO_NOTIFY, written by the slave
         lastAvail : Indices,       \* last_avail_idx of the slave
         lastUsed : Indices,        \* last_used_idx of the host
         numFree : 0 .. Num + 1]]   \* num_free of the host

\* The host has primed the queues: it has offered all buffers of "toHost", and made all
\* buffers of "fromHost" look as if the slave had given them back.
Primed(q) ==
    [buf |-> [t \in Tokens |-> NoMsg],
     avail |-> [t \in Tokens |-> t], availIdx |-> IF q = "toHost" THEN Num ELSE 0,
     used |-> [t \in Tokens |-> t], usedIdx |-> IF q = "toHost" THEN 0 ELSE Num,
     noNotify |-> FALSE, lastAvail |-> 0, lastUsed |-> 0,
     numFree |-> IF q = "toHost" THEN 0 ELSE Num]

VirtQueueInit == vq = [q \in VirtQueues |-> Primed(q)]

Inc(i) == (i + 1) % Width

-----------------------------------------------------------------------------
(* The slave: getAvailBuf in two steps, addUsedBuf in two                   *)

\* "clearing it means that we want to receive an interrupt"
ClearNoNotify(q) == vq' = [vq EXCEPT ![q].noNotify = FALSE]

HasAvail(q)  == vq[q].lastAvail # vq[q].availIdx
NextAvail(q) == vq[q].avail[vq[q].lastAvail % Num]

TakeAvail(q) == vq' = [vq EXCEPT ![q].noNotify = TRUE, ![q].lastAvail = Inc(@)]

\* Mutant: the entry goes to the place after its own.
WriteUsed_next(q, t, m) == vq' = [vq EXCEPT ![q].buf[t] = m, ![q].used[Inc(vq[q].usedIdx) % Num] = t]

\* The buffer, filled by its owner before, and its entry in the used ring.
WriteUsed(q, t, m) == vq' = [vq EXCEPT ![q].buf[t] = m, ![q].used[vq[q].usedIdx % Num] = t]
PublishUsed(q)     == vq' = [vq EXCEPT ![q].usedIdx = Inc(@)]

-----------------------------------------------------------------------------
(* The host: getUsedBuf in one step, addAvailBuf in two                     *)

HasUsed(q)  == vq[q].lastUsed # vq[q].usedIdx
NextUsed(q) == vq[q].used[vq[q].lastUsed % Num]

\* Mutant: the place is not counted as free.
TakeUsed_noFree(q) == vq' = [vq EXCEPT ![q].lastUsed = Inc(@)]

TakeUsed(q) == vq' = [vq EXCEPT ![q].lastUsed = Inc(@), ![q].numFree = @ + 1]

WriteAvail(q, t, m) ==
    /\ vq[q].numFree > 0
    /\ vq' = [vq EXCEPT ![q].numFree = @ - 1, ![q].buf[t] = m,
                        ![q].avail[vq[q].availIdx % Num] = t]
PublishAvail(q) == vq' = [vq EXCEPT ![q].availIdx = Inc(@)]

-----------------------------------------------------------------------------
(* The buffers a ring holds: published, and not yet taken                   *)

Between(ring, from, to) == {ring[(from + k) % Num] : k \in 0 .. ((to + Width - from) % Width) - 1}
InAvail(q) == Between(vq[q].avail, vq[q].lastAvail, vq[q].availIdx)
InUsed(q)  == Between(vq[q].used, vq[q].lastUsed, vq[q].usedIdx)
=============================================================================
