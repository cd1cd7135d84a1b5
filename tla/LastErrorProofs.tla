-------------------------- MODULE LastErrorProofs ---------------------------
(***************************************************************************)
(* Proofs about the error slot, for any number of threads, addresses and   *)
(* errors.  What an address holds follows from who owns it: Owned and      *)
(* Apart say who may, Texts says that the owners of a message agree with   *)
(* the call that cloned it.                                                *)
(***************************************************************************)
EXTENDS LastError, TLAPS, FiniteSetTheorems

\* t holds the CString it has cloned and not yet handed out.
Holds(t, b) == pc[t] = "cloned" /\ mine[t] = b

\* An address is in use exactly as long as a slot or a call owns it.
Owned == \A b \in Bufs :
           heap[b] # NoMsg <=> \/ b = LAST_ERROR \/ b = HANDED_OUT
                               \/ \E t \in Threads : Holds(t, b)

\* No two of them own the same address.
Apart ==
  /\ LAST_ERROR # Null => LAST_ERROR # HANDED_OUT
  /\ \A t \in Threads, b \in Bufs :
       Holds(t, b) => b # LAST_ERROR /\ b # HANDED_OUT
  /\ \A t, u \in Threads, b \in Bufs : Holds(t, b) /\ Holds(u, b) => t = u

\* A message cloned, or handed out by the latest call, is the one that was cloned.
Texts ==
  \A t \in Threads : mine[t] # Null =>
    /\ pc[t] = "cloned" => heap[mine[t]] = got[t]
    /\ pc[t] = "reading" /\ current[t] => mine[t] = HANDED_OUT /\ heap[mine[t]] = got[t]

SlotInv == TypeOK /\ Owned /\ Apart /\ Texts

\* Nothing is recorded before the first error.
LEMMA InitSlot == Init => SlotInv
BY BoundAssumption, NullAssumption
   DEF Init, SlotInv, TypeOK, Owned, Apart, Texts, Holds

\* set_last_error stores the new message where nothing is and frees the old one.
LEMMA RecordSlot == ASSUME SlotInv, set_last_error PROVE SlotInv'
<1> USE BoundAssumption, NullAssumption DEF SlotInv, TypeOK, set_last_error, Replace, Free
<1>1. PICK b \in Bufs : /\ heap[b] = NoMsg
                        /\ heap' = Replace(LAST_ERROR, b, recorded')
                        /\ LAST_ERROR' = b
  OBVIOUS
<1>2. recorded' \in 1 .. MaxErrors
  OBVIOUS
<1>3. TypeOK'
  BY <1>1, <1>2
<1>4. Owned'
  BY <1>1, <1>2 DEF Owned, Apart, Holds
<1>5. Apart'
  BY <1>1 DEF Owned, Apart, Holds
<1>6. Texts'
  BY <1>1, <1>2 DEF Owned, Apart, Texts, Holds
<1> QED
  BY <1>3, <1>4, <1>5, <1>6

\* The clone gets an address of its own.
LEMMA CloneSlot == ASSUME SlotInv, NEW t \in Threads, CloneMessage(t) PROVE SlotInv'
<1> USE BoundAssumption, NullAssumption DEF SlotInv, TypeOK, CloneMessage, Free
<1>1. CASE LAST_ERROR = Null
  <2>1. TypeOK'
    BY <1>1
  <2>2. Owned' /\ Apart'
    BY <1>1 DEF Owned, Apart, Holds
  <2>3. Texts'
    BY <1>1 DEF Texts
  <2> QED
    BY <2>1, <2>2, <2>3
<1>2. CASE LAST_ERROR # Null
  <2>1. PICK b \in Bufs : /\ heap[b] = NoMsg
                          /\ heap' = [heap EXCEPT ![b] = heap[LAST_ERROR]]
                          /\ mine' = [mine EXCEPT ![t] = b]
    BY <1>2
  <2>2. heap[LAST_ERROR] # NoMsg
    BY <1>2 DEF Owned
  <2>3. TypeOK'
    BY <1>2, <2>1
  <2>4. Owned'
    BY <1>2, <2>1, <2>2 DEF Owned, Apart, Holds
  <2>5. Apart'
    BY <1>2, <2>1, <2>2 DEF Owned, Apart, Holds
  <2>6. Texts'
    BY <1>2, <2>1, <2>2 DEF Owned, Texts, Holds
  <2> QED
    BY <2>3, <2>4, <2>5, <2>6
<1> QED
  BY <1>1, <1>2

\* The clone becomes the message handed out; the one before it is freed, and only
\* this call's pointer is current.
LEMMA HandOutSlot == ASSUME SlotInv, NEW t \in Threads, HandOut(t) PROVE SlotInv'
<1> USE BoundAssumption, NullAssumption DEF SlotInv, TypeOK, HandOut
<1>1. TypeOK'
  OBVIOUS
<1>2. Owned'
  BY DEF Owned, Apart, Holds
<1>3. Apart'
  BY DEF Apart, Holds
<1>4. Texts'
  BY DEF Apart, Texts, Holds
<1> QED
  BY <1>1, <1>2, <1>3, <1>4

\* The shim has copied the text and forgets the pointer.
LEMMA ReadSlot == ASSUME SlotInv, NEW t \in Threads, Read(t) PROVE SlotInv'
<1> USE BoundAssumption, NullAssumption DEF SlotInv, TypeOK, Read
<1>1. TypeOK'
  OBVIOUS
<1>2. Owned' /\ Apart'
  BY DEF Owned, Apart, Holds
<1>3. Texts'
  BY DEF Texts
<1> QED
  BY <1>1, <1>2, <1>3

\* The inductive invariant of the error slot.
THEOREM SlotInvariance == Spec => []SlotInv
<1>1. SlotInv /\ [Next]_vars => SlotInv'
  <2> SUFFICES ASSUME SlotInv, [Next]_vars PROVE SlotInv'
    OBVIOUS
  <2>1. CASE set_last_error
    BY <2>1, RecordSlot
  <2>2. ASSUME NEW t \in Threads, CloneMessage(t) PROVE SlotInv'
    BY <2>2, CloneSlot
  <2>3. ASSUME NEW t \in Threads, HandOut(t) PROVE SlotInv'
    BY <2>3, HandOutSlot
  <2>4. ASSUME NEW t \in Threads, Read(t) PROVE SlotInv'
    BY <2>4, ReadSlot
  <2>5. CASE UNCHANGED vars
    BY <2>5 DEF SlotInv, TypeOK, Owned, Apart, Texts, Holds, vars
  <2> QED
    BY <2>1, <2>2, <2>3, <2>4, <2>5 DEF Next
<1> QED
  BY <1>1, InitSlot, PTL DEF Spec

\* Slots, locals and messages keep their types: what is handed out or held is an
\* address, and what an address holds is a recorded error.
THEOREM TypeCorrect == Spec => []TypeOK
<1>1. SlotInv => TypeOK
  BY DEF SlotInv
<1> QED
  BY <1>1, SlotInvariance, PTL

\* sslocal_last_error: the pointer it has returned leads to the message it cloned
\* until the next call, however many errors other threads record meanwhile.
THEOREM PointerStaysValid == Spec => []PointerValid
<1>1. SlotInv => PointerValid
  BY DEF SlotInv, Texts, PointerValid
<1> QED
  BY <1>1, SlotInvariance, PTL

\* set_last_error, sslocal_last_error: every CString has one owner, which frees it
\* once.
THEOREM MessagesOwned == Spec => []OneOwner
<1>1. SlotInv => OneOwner
  <2> SUFFICES ASSUME SlotInv PROVE OneOwner
    OBVIOUS
  <2> DEFINE owners(b) == {o \in Threads : pc[o] = "cloned" /\ mine[o] = b}
  <2>1. LAST_ERROR # Null => LAST_ERROR # HANDED_OUT
    BY DEF SlotInv, Apart
  <2>2. \A b \in Bufs : heap[b] # NoMsg <=> b = LAST_ERROR \/ b = HANDED_OUT \/ owners(b) # {}
    BY DEF SlotInv, Owned, Holds
  <2>3. \A b \in {LAST_ERROR, HANDED_OUT} \cap Bufs : owners(b) = {}
    BY DEF SlotInv, Apart, Holds
  <2>4. ASSUME NEW b \in Bufs PROVE Cardinality(owners(b)) <= 1
    <3>1. CASE owners(b) = {}
      <4>1. Cardinality({}) = 0
        BY FS_EmptySet
      <4> QED
        BY <3>1, <4>1
    <3>2. CASE owners(b) # {}
      <4>1. PICK o : o \in owners(b)
        BY <3>2
      <4>2. owners(b) = {o}
        BY <4>1 DEF SlotInv, Apart, Holds
      <4>3. Cardinality({o}) = 1
        BY FS_Singleton
      <4> QED
        BY <4>2, <4>3
    <3> QED
      BY <3>1, <3>2
  <2> QED
    BY <2>1, <2>2, <2>3, <2>4 DEF OneOwner
<1> QED
  BY <1>1, SlotInvariance, PTL
=============================================================================
