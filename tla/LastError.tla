----------------------------- MODULE LastError ------------------------------
(***************************************************************************)
(* The error slot of lib.rs: set_last_error, called by failing entry       *)
(* points and by the core's own task, and sslocal_last_error, which hands  *)
(* a pointer out of the library.  The NAPI shim copies the text behind the *)
(* pointer after the call has returned and every lock is free again.       *)
(*                                                                         *)
(* A CString is a heap buffer; replacing the value in a slot frees the     *)
(* buffer, and the allocator may hand the same address out at once.        *)
(***************************************************************************)
EXTENDS Naturals, FiniteSets

CONSTANTS Threads,      \* callers of sslocal_last_error
          Bufs,         \* heap addresses
          MaxErrors,    \* bound: errors recorded in a behaviour
          Null, NoMsg

ASSUME BoundAssumption == MaxErrors \in Nat
ASSUME NullAssumption == Null \notin Bufs /\ NoMsg \notin Nat

VARIABLES
  recorded,     \* number of errors recorded so far: message n is the n-th
  heap,         \* what is stored at each address; NoMsg when it is free
  LAST_ERROR,   \* address of the recorded message
  HANDED_OUT,   \* LAST_ERROR_HANDED_OUT
  pc,           \* "idle", "cloned" (between the two locks), "reading"
  mine,         \* the local `message`, then the pointer returned
  got,          \* which message it was when sslocal_last_error cloned it
  current       \* is this thread's the latest sslocal_last_error call?

vars == <<recorded, heap, LAST_ERROR, HANDED_OUT, pc, mine, got, current>>

Init == /\ recorded = 0
        /\ heap = [b \in Bufs |-> NoMsg]
        /\ LAST_ERROR = Null /\ HANDED_OUT = Null
        /\ pc = [t \in Threads |-> "idle"]
        /\ mine = [t \in Threads |-> Null]
        /\ got = [t \in Threads |-> NoMsg]
        /\ current = [t \in Threads |-> FALSE]

Free == {b \in Bufs : heap[b] = NoMsg}

\* Mutant: the CString that was in the slot is never freed.
Replace_leaking(slot, b, m) == [heap EXCEPT ![b] = m]

\* Replacing the message in a slot drops the CString it held.
Replace(slot, b, m) ==
  [x \in Bufs |-> IF x = b THEN m ELSE IF x = slot THEN NoMsg ELSE heap[x]]

\* Any thread, the core's included, records an error: the new CString is built
\* before the lock is taken and stored under it.
set_last_error ==
  /\ recorded < MaxErrors
  /\ recorded' = recorded + 1
  /\ \E b \in Free : /\ heap' = Replace(LAST_ERROR, b, recorded')
                     /\ LAST_ERROR' = b
  /\ UNCHANGED <<HANDED_OUT, pc, mine, got, current>>

\* The first statement of sslocal_last_error clones the message and releases
\* LAST_ERROR.
CloneMessage(t) ==
  /\ pc[t] = "idle"
  /\ \/ /\ LAST_ERROR = Null
        /\ mine' = [mine EXCEPT ![t] = Null]
        /\ got' = [got EXCEPT ![t] = NoMsg]
        /\ UNCHANGED heap
     \/ /\ LAST_ERROR # Null
        /\ \E b \in Free : /\ heap' = [heap EXCEPT ![b] = heap[LAST_ERROR]]
                           /\ mine' = [mine EXCEPT ![t] = b]
        /\ got' = [got EXCEPT ![t] = heap[LAST_ERROR]]
  /\ pc' = [pc EXCEPT ![t] = "cloned"]
  /\ UNCHANGED <<recorded, LAST_ERROR, HANDED_OUT, current>>

\* Mutant: the pointer leads into LAST_ERROR, nothing is kept alive.
HandOut_borrowed(t) ==
  /\ pc[t] = "cloned"
  /\ heap' = [b \in Bufs |-> IF b = mine[t] THEN NoMsg ELSE heap[b]]
  /\ mine' = [mine EXCEPT ![t] = LAST_ERROR]
  /\ got' = [got EXCEPT ![t] = IF LAST_ERROR = Null THEN NoMsg ELSE heap[LAST_ERROR]]
  /\ current' = [u \in Threads |-> u = t]
  /\ pc' = [pc EXCEPT ![t] = "reading"]
  /\ UNCHANGED <<recorded, LAST_ERROR, HANDED_OUT>>

\* The rest of sslocal_last_error, under LAST_ERROR_HANDED_OUT: the previous
\* message handed out is freed and the pointer of the new one returned.
HandOut(t) ==
  /\ pc[t] = "cloned"
  /\ heap' = [b \in Bufs |-> IF b = HANDED_OUT THEN NoMsg ELSE heap[b]]
  /\ HANDED_OUT' = mine[t]
  /\ current' = [u \in Threads |-> u = t]
  /\ pc' = [pc EXCEPT ![t] = "reading"]
  /\ UNCHANGED <<recorded, LAST_ERROR, mine, got>>

\* napi_init.cpp LastError: the text has been copied.
Read(t) ==
  /\ pc[t] = "reading"
  /\ pc' = [pc EXCEPT ![t] = "idle"]
  /\ mine' = [mine EXCEPT ![t] = Null]
  /\ got' = [got EXCEPT ![t] = NoMsg]
  /\ current' = [current EXCEPT ![t] = FALSE]
  /\ UNCHANGED <<recorded, heap, LAST_ERROR, HANDED_OUT>>

Next == \/ set_last_error
        \/ \E t \in Threads : CloneMessage(t) \/ HandOut(t) \/ Read(t)

Spec == Init /\ [][Next]_vars

-----------------------------------------------------------------------------

\* The type of every variable.
TypeOK == /\ recorded \in 0 .. MaxErrors
          /\ heap \in [Bufs -> 1 .. MaxErrors \cup {NoMsg}]
          /\ LAST_ERROR \in Bufs \cup {Null}
          /\ HANDED_OUT \in Bufs \cup {Null}
          /\ pc \in [Threads -> {"idle", "cloned", "reading"}]
          /\ mine \in [Threads -> Bufs \cup {Null}]
          /\ got \in [Threads -> 1 .. MaxErrors \cup {NoMsg}]
          /\ current \in [Threads -> BOOLEAN]

\* sslocal_last_error: "The pointer stays valid until the next
\* `sslocal_last_error` call": until then the buffer holds the message the call
\* picked up, whatever errors other threads record meanwhile.
PointerValid ==
  \A t \in Threads : pc[t] = "reading" /\ current[t] /\ mine[t] # Null
                     => heap[mine[t]] = got[t]

\* Every address in use belongs to one owner: a slot, or the local of a call
\* between its two locks.  So no message is freed twice and none leaks.
OneOwner ==
  LET owners(b) == {o \in Threads : pc[o] = "cloned" /\ mine[o] = b}
  IN /\ LAST_ERROR # Null => LAST_ERROR # HANDED_OUT
     /\ \A b \in Bufs :
          heap[b] # NoMsg <=> \/ b = LAST_ERROR
                              \/ b = HANDED_OUT
                              \/ owners(b) # {}
     /\ \A b \in {LAST_ERROR, HANDED_OUT} \cap Bufs : owners(b) = {}
     /\ \A b \in Bufs : Cardinality(owners(b)) <= 1
=============================================================================
