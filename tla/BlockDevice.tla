----------------------------- MODULE BlockDevice -----------------------------
(***************************************************************************)
(* What the layers above a SectorCache are promised: a device that behaves *)
(* like one flat array.  A read returns the last bytes written, whatever   *)
(* was loaded, evicted or failed in between; a failed call changes no byte *)
(* a later read can see; a successful flush leaves everything written so   *)
(* far on the device below; and the device below only ever receives what a *)
(* read would have returned.                                               *)
(***************************************************************************)
EXTENDS SectorBytes

VARIABLES
    store,    \* what a read of each sector returns
    backing,  \* what the device below holds
    pos,      \* position of the next read or write
    reply,    \* outcome of the last call
    open      \* FALSE once the device has been let go

vars == <<store, backing, pos, reply, open>>

Init ==
    /\ store   \in [LBA -> Sector]
    /\ backing = store
    /\ pos     = StartPos
    /\ reply   = [call |-> "none"]
    /\ open    = TRUE

\* Any set of sectors may reach the device below during a call, each with what
\* a read of it would have returned before the call.
WriteBack ==
    \E W \in SUBSET LBA :
        backing' = [l \in LBA |-> IF l \in W THEN store[l] ELSE backing[l]]

Seek ==
    /\ pos' \in Position \cup {EndPos}
    /\ reply' = [call |-> "seek"]
    /\ UNCHANGED <<store, backing, open>>

Write(len, data) ==
    LET n == Moved(pos, len) IN
    /\ pos \in Position
    /\ store' = [store EXCEPT ![pos.lba] = Patch(@, pos.inner, n, data)]
    /\ pos' = Advance(pos, n)
    /\ reply' = [call |-> "write", n |-> n]
    /\ WriteBack
    /\ UNCHANGED open

Read(len) ==
    LET n == Moved(pos, len) IN
    /\ pos \in Position
    /\ pos' = Advance(pos, n)
    /\ reply' = [call |-> "read", got |-> Slice(store[pos.lba], pos.inner, n)]
    /\ WriteBack
    /\ UNCHANGED <<store, open>>

Flush ==
    /\ backing' = store
    /\ reply' = [call |-> "flush"]
    /\ UNCHANGED <<store, pos, open>>

\* Any call may fail; none of them loses or changes a byte by failing.
Fail ==
    /\ reply' = [call |-> "error"]
    /\ WriteBack
    /\ UNCHANGED <<store, pos, open>>

\* Letting go writes everything back, or reports that some of it is lost.
Drop ==
    /\ open' = FALSE
    /\ \/ /\ reply' = [call |-> "drop"]
          /\ backing' = store
          /\ UNCHANGED store
       \/ /\ reply' = [call |-> "lost"]
          /\ WriteBack
          /\ store' = backing'
    /\ UNCHANGED pos

Next ==
    /\ open
    /\ \/ Seek
       \/ \E len \in Lengths : \E data \in Data(len) : Write(len, data)
       \/ \E len \in Lengths : Read(len)
       \/ Flush
       \/ Fail
       \/ Drop

Spec == Init /\ [][Next]_vars
=============================================================================
