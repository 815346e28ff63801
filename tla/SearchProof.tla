----------------------------- MODULE SearchProof -----------------------------
(***************************************************************************)
(* Proofs about SearchOutbox, for any homestays, bounds and faults; the    *)
(* one about the documents is for one worker.                              *)
(***************************************************************************)
EXTENDS SearchOutbox, TLAPS

\* Keys count: those of updates up to the version, those of rebuilds up to the last
\* token, so that a new update or rebuild has new keys.
Keys ==
    \A r \in outbox : /\ r.key = "homestay" => r.n <= version[r.of]
                      /\ r.key = "rebuild" => r.n <= rebuilds

\* A row of homestay h is still to be done, apart from r.
Pending(h, r) == \E x \in outbox \ published : x.of = h /\ x # r

\* What the publisher has in hand is not done.
InHand ==
    \A p \in Publishers : /\ batch[p] \cap published = {}
                          /\ item[p] \notin published \cup batch[p]
                          /\ step[p] = "idle" => item[p] = NoRow

\* What it has read is the homestay as it is, or another row will see to it.
Reading ==
    \A p \in Publishers :
        step[p] = "write" /\ item[p].of \in present
        => got[p] = version[item[p].of] \/ Pending(item[p].of, item[p])

\* Once it has written the document, that is current, or another row will see to
\* it, or the index has been disturbed since the last row.
Marking ==
    \A p \in Publishers :
        step[p] = "mark" /\ item[p].of \in present
        => \/ index[item[p].of] = version[item[p].of]
           \/ Pending(item[p].of, item[p])
           \/ \A r \in outbox \ before : r.of # item[p].of

OneWorker == \A p, q \in Publishers : p = q

\* The inductive invariant.
IInv == TypeOK /\ Keys /\ InHand /\ Reading /\ Marking /\ IndexIsCurrent

-----------------------------------------------------------------------------
(* Types. *)

\* The initial state has the types (Init).
LEMMA TypeCorrect_Init == Init => TypeOK
  BY BoundsAssumption DEF Init, TypeOK

\* The actions on the homestays and the outbox keep the types.
LEMMA TypeCorrect_Database ==
    ASSUME TypeOK
    PROVE  /\ \A h \in Homestays : UpdateAdminHomestay(h) \/ Remove(h) => TypeOK'
           /\ BootstrapSearchOutbox \/ RebuildSearchOutbox => TypeOK'
           /\ \A r \in late : RetryDue(r) => TypeOK'
<1>1. ASSUME NEW h \in Homestays, UpdateAdminHomestay(h) PROVE TypeOK'
  BY <1>1 DEF TypeOK, UpdateAdminHomestay, Row, Rows, elasticVars, publishVars
<1>2. ASSUME NEW h \in Homestays, Remove(h) PROVE TypeOK'
  BY <1>2 DEF TypeOK, Remove, elasticVars, publishVars
<1>3. ASSUME BootstrapSearchOutbox PROVE TypeOK'
  BY <1>3 DEF TypeOK, BootstrapSearchOutbox, Row, Rows, elasticVars, publishVars
<1>4. ASSUME RebuildSearchOutbox PROVE TypeOK'
  BY <1>4 DEF TypeOK, RebuildSearchOutbox, Row, Rows, elasticVars, publishVars
<1>5. ASSUME NEW r \in late, RetryDue(r) PROVE TypeOK'
  BY <1>5 DEF TypeOK, RetryDue, elasticVars, publishVars
<1> QED
  BY <1>1, <1>2, <1>3, <1>4, <1>5

\* So do the steps of a publisher.
LEMMA TypeCorrect_Publish ==
    ASSUME TypeOK, NEW p \in Publishers, Publish(p)
    PROVE  TypeOK'
<1>1. ASSUME NEW r \in batch[p], HomestayForIndex(p, r) PROVE TypeOK'
  BY <1>1, NoRowAssumption DEF TypeOK, HomestayForIndex, Fault, mysqlVars, elasticVars
<1>2. CASE Poll(p)
  BY <1>2 DEF TypeOK, Poll, Due, mysqlVars, elasticVars
<1>3. CASE IndexHomestay(p)
  BY <1>3, NoRowAssumption DEF TypeOK, IndexHomestay, Rows, mysqlVars
<1>4. CASE IndexFails(p)
  BY <1>4, NoRowAssumption DEF TypeOK, IndexFails, Fault, Rows, mysqlVars
<1>5. CASE RetrySearchOutbox(p)
  BY <1>5, NoRowAssumption DEF TypeOK, RetrySearchOutbox, Fault, NextRow, elasticVars
<1>6. CASE MarkSearchOutboxPublished(p)
  BY <1>6, NoRowAssumption DEF TypeOK, MarkSearchOutboxPublished, NextRow, elasticVars
<1>7. CASE MarkFails(p)
  BY <1>7, NoRowAssumption DEF TypeOK, MarkFails, Fault, NextRow, elasticVars
<1>8. CASE PublisherCrash(p)
  BY <1>8, NoRowAssumption DEF TypeOK, PublisherCrash, Fault, NextRow, Rows, mysqlVars
<1> QED
  BY <1>1, <1>2, <1>3, <1>4, <1>5, <1>6, <1>7, <1>8 DEF Publish

\* And what Elasticsearch does by itself.
LEMMA TypeCorrect_Elastic ==
    ASSUME TypeOK, Arrive \/ LoseIndex
    PROVE  TypeOK'
<1>1. CASE Arrive
  BY <1>1 DEF TypeOK, Arrive, mysqlVars, publishVars
<1>2. CASE LoseIndex
  BY <1>2 DEF TypeOK, LoseIndex, Fault, mysqlVars, publishVars
<1> QED
  BY <1>1, <1>2

\* Every step keeps the types.
LEMMA TypeCorrect_Step == TypeOK /\ [Next]_vars => TypeOK'
<1> SUFFICES ASSUME TypeOK, [Next]_vars PROVE TypeOK'
  OBVIOUS
<1>1. CASE Next
  BY <1>1, TypeCorrect_Database, TypeCorrect_Publish, TypeCorrect_Elastic DEF Next
<1>2. CASE UNCHANGED vars
  BY <1>2 DEF TypeOK, vars, mysqlVars, elasticVars, publishVars
<1> QED
  BY <1>1, <1>2

\* A row that is done is never put off, and the rest of the types, for any number
\* of workers (SearchOutbox).
THEOREM TypeCorrect == Spec => []TypeOK
  BY TypeCorrect_Init, TypeCorrect_Step, PTL DEF Spec

-----------------------------------------------------------------------------
(* The documents. *)

\* New rows disturb nothing: a row is the work of somebody, and is not done.
LEMMA Inv_Grows ==
    ASSUME IInv, outbox \subseteq outbox', Keys',
           UNCHANGED <<present, version, published, elasticVars, publishVars>>
    PROVE  InHand' /\ Reading' /\ Marking' /\ IndexIsCurrent'
<1> USE DEF IInv, TypeOK, elasticVars, publishVars
<1>1. InHand'
  BY DEF InHand
<1>2. Reading'
  BY DEF Reading, Pending
<1>3. Marking'
  BY DEF Marking, Pending
<1>4. IndexIsCurrent'
  BY DEF IndexIsCurrent
<1> QED
  BY <1>1, <1>2, <1>3, <1>4

\* An update keeps the invariant: its event has a new key, so the homestay has a row
\* to be done whatever a publisher has read (UpdateAdminHomestay).
LEMMA Inv_Update ==
    ASSUME IInv, NEW h \in Homestays, UpdateAdminHomestay(h)
    PROVE  Keys' /\ InHand' /\ Reading' /\ Marking' /\ IndexIsCurrent'
<1> DEFINE new == Row("homestay", h, version[h] + 1)
<1> USE DEF IInv, TypeOK, UpdateAdminHomestay, elasticVars, publishVars
<1>1. new \notin outbox /\ new.of = h
  BY DEF Keys, Row
<1>2. new \in outbox' \ published' /\ outbox' = outbox \cup {new}
  BY <1>1
<1>3. Keys'
  BY DEF Keys, Row, Rows
<1>4. InHand'
  BY DEF InHand
<1>5. \A p \in Publishers : step[p] # "idle" => item[p] # new
  BY <1>1
<1> HIDE DEF new
<1>6. Reading'
  BY <1>1, <1>2, <1>5 DEF Reading, Pending, Rows
<1>7. Marking'
  BY <1>1, <1>2, <1>5 DEF Marking, Pending, Rows
<1>8. IndexIsCurrent'
  BY <1>1, <1>2 DEF IndexIsCurrent
<1> QED
  BY <1>3, <1>4, <1>6, <1>7, <1>8

\* The other changes of MySQL keep it.
LEMMA Inv_Database ==
    ASSUME IInv, \/ \E h \in Homestays : Remove(h)
                 \/ BootstrapSearchOutbox \/ RebuildSearchOutbox
                 \/ \E r \in late : RetryDue(r)
    PROVE  Keys' /\ InHand' /\ Reading' /\ Marking' /\ IndexIsCurrent'
<1> USE DEF IInv
<1>1. ASSUME NEW h \in Homestays, Remove(h)
      PROVE  Keys' /\ InHand' /\ Reading' /\ Marking' /\ IndexIsCurrent'
  BY <1>1 DEF Remove, elasticVars, publishVars, Keys, InHand, Reading, Marking, Pending,
              IndexIsCurrent
<1>2. CASE BootstrapSearchOutbox
  <2>1. Keys'
    BY <1>2 DEF TypeOK, BootstrapSearchOutbox, Keys, Row, Rows
  <2> QED
    BY <1>2, <2>1, Inv_Grows DEF BootstrapSearchOutbox
<1>3. CASE RebuildSearchOutbox
  <2>1. Keys'
    BY <1>3 DEF TypeOK, RebuildSearchOutbox, Keys, Row, Rows
  <2> QED
    BY <1>3, <2>1, Inv_Grows DEF RebuildSearchOutbox
<1>4. ASSUME NEW r \in late, RetryDue(r)
      PROVE  Keys' /\ InHand' /\ Reading' /\ Marking' /\ IndexIsCurrent'
  BY <1>4 DEF RetryDue, elasticVars, publishVars, Keys, InHand, Reading, Marking, Pending,
              IndexIsCurrent
<1> QED
  BY <1>1, <1>2, <1>3, <1>4

\* A worker that reads keeps it, and has the homestay as it is (HomestayForIndex).
LEMMA Inv_Read ==
    ASSUME IInv, NEW p \in Publishers,
           Poll(p) \/ \E r \in batch[p] : HomestayForIndex(p, r)
    PROVE  Keys' /\ InHand' /\ Reading' /\ Marking' /\ IndexIsCurrent'
<1> USE DEF IInv, TypeOK, mysqlVars, elasticVars
<1>1. CASE Poll(p)
  BY <1>1, NoRowAssumption
  DEF Poll, Due, Keys, InHand, Reading, Marking, Pending, IndexIsCurrent
<1>2. ASSUME NEW r \in batch[p], HomestayForIndex(p, r)
      PROVE  Keys' /\ InHand' /\ Reading' /\ Marking' /\ IndexIsCurrent'
  <2> USE <1>2 DEF HomestayForIndex
  <2>1. Keys' /\ IndexIsCurrent'
    BY DEF Keys, IndexIsCurrent
  <2>2. InHand'
    BY DEF InHand
  <2>3. Reading'
    BY DEF Reading, Pending
  <2>4. Marking'
    BY DEF Marking, Pending
  <2> QED
    BY <2>1, <2>2, <2>3, <2>4
<1> QED
  BY <1>1, <1>2

\* The worker's request keeps it: the row it is for is not done yet (IndexHomestay).
LEMMA Inv_Write ==
    ASSUME IInv, OneWorker, NEW p \in Publishers, IndexHomestay(p) \/ IndexFails(p)
    PROVE  Keys' /\ InHand' /\ Reading' /\ Marking' /\ IndexIsCurrent'
<1> USE DEF IInv, TypeOK, mysqlVars, IndexHomestay, IndexFails
<1>1. item[p] \in outbox \ published /\ step[p] = "write"
  BY DEF InHand
<1>2. UNCHANGED <<present, version, outbox, published, rebuilds, before, batch, item, got>>
  BY DEF Fault
<1>3. /\ index' \in [Homestays -> Nat \cup {NoCopy}]
      /\ \A h \in Homestays \ {item[p].of} : index'[h] = index[h]
  BY <1>1 DEF Rows
<1>4. Keys' /\ InHand'
  BY <1>2 DEF Keys, InHand
<1>5. Reading'
  BY <1>1, <1>2 DEF Reading, Pending, OneWorker
<1>6. Marking'
  BY <1>1, <1>2 DEF Reading, Marking, Pending, OneWorker, Rows
<1>7. IndexIsCurrent'
  BY <1>1, <1>2, <1>3 DEF IndexIsCurrent
<1> QED
  BY <1>4, <1>5, <1>6, <1>7

\* The mark keeps it: the row may be the homestay's last, and then the document is
\* current (MarkSearchOutboxPublished).
LEMMA Inv_Mark ==
    ASSUME IInv, OneWorker, NEW p \in Publishers, step[p] = "mark",
           published' = published \cup {item[p]}, NextRow(p),
           UNCHANGED <<present, version, outbox, rebuilds, elasticVars, batch>>
    PROVE  Keys' /\ InHand' /\ Reading' /\ Marking' /\ IndexIsCurrent'
<1> USE DEF IInv, TypeOK, NextRow, elasticVars
<1>1. Keys'
  BY DEF Keys
<1>2. InHand'
  BY NoRowAssumption DEF InHand, OneWorker
<1>3. Reading' /\ Marking'
  BY DEF Reading, Marking, OneWorker
<1>4. IndexIsCurrent'
  BY DEF Marking, Pending, IndexIsCurrent
<1> QED
  BY <1>1, <1>2, <1>3, <1>4

\* A worker that lets go of its row without marking it keeps it.
LEMMA Inv_LetGo ==
    ASSUME IInv, NEW p \in Publishers, NextRow(p), batch' \in {batch, [batch EXCEPT ![p] = {}]},
           UNCHANGED <<present, version, outbox, published, rebuilds, index, before>>
    PROVE  Keys' /\ InHand' /\ Reading' /\ Marking' /\ IndexIsCurrent'
<1> USE DEF IInv, TypeOK, NextRow
<1>1. Keys' /\ IndexIsCurrent'
  BY DEF Keys, IndexIsCurrent
<1>2. InHand'
  BY NoRowAssumption DEF InHand
<1>3. Reading' /\ Marking'
  BY DEF Reading, Marking, Pending
<1> QED
  BY <1>1, <1>2, <1>3

\* All the steps of the one worker keep it (publishSearchOutbox).
LEMMA Inv_Publish ==
    ASSUME IInv, OneWorker, NEW p \in Publishers, Publish(p)
    PROVE  Keys' /\ InHand' /\ Reading' /\ Marking' /\ IndexIsCurrent'
<1>1. CASE RetrySearchOutbox(p)
  BY <1>1, Inv_LetGo DEF RetrySearchOutbox, elasticVars
<1>2. CASE MarkSearchOutboxPublished(p)
  BY <1>2, Inv_Mark DEF MarkSearchOutboxPublished
<1>3. CASE MarkFails(p)
  BY <1>3, Inv_Mark, Inv_LetGo DEF MarkFails, elasticVars
<1>4. CASE PublisherCrash(p)
  BY <1>4, Inv_LetGo DEF PublisherCrash, mysqlVars
<1> QED
  BY <1>1, <1>2, <1>3, <1>4, Inv_Read, Inv_Write DEF Publish

\* A late request or a loss of the index keeps it: no row is younger.
LEMMA Inv_Elastic ==
    ASSUME IInv, Arrive \/ LoseIndex
    PROVE  Keys' /\ InHand' /\ Reading' /\ Marking' /\ IndexIsCurrent'
  BY DEF IInv, Arrive, LoseIndex, mysqlVars, publishVars, Keys, InHand, Reading, Marking,
         Pending, IndexIsCurrent

\* With one worker, every step keeps the invariant.
LEMMA Inv_Step == OneWorker => (IInv /\ [Next]_vars => IInv')
<1> SUFFICES ASSUME OneWorker, IInv, [Next]_vars PROVE IInv'
  OBVIOUS
<1>1. TypeOK'
  BY TypeCorrect_Step DEF IInv
<1>2. Keys' /\ InHand' /\ Reading' /\ Marking' /\ IndexIsCurrent'
  <2>1. CASE Next
    BY <2>1, Inv_Update, Inv_Database, Inv_Publish, Inv_Elastic DEF Next
  <2>2. CASE UNCHANGED vars
    BY <2>2 DEF IInv, vars, mysqlVars, elasticVars, publishVars, Keys, InHand, Reading,
                Marking, Pending, IndexIsCurrent
  <2> QED
    BY <2>1, <2>2
<1> QED
  BY <1>1, <1>2 DEF IInv

\* The invariant holds at the start.
LEMMA Inv_Init == Init => IInv
<1> SUFFICES ASSUME Init PROVE IInv
  OBVIOUS
<1>1. Keys /\ InHand
  BY NoRowAssumption DEF Init, Keys, InHand
<1>2. Reading /\ Marking /\ IndexIsCurrent
  BY DEF Init, Reading, Marking, IndexIsCurrent
<1> QED
  BY <1>1, <1>2, TypeCorrect_Init DEF IInv

\* With one worker, a homestay whose rows are all done has its version in the index,
\* unless the index has been disturbed since the last row, whatever fails and whatever
\* is updated meanwhile (publishSearchOutbox).
THEOREM IndexCurrentWithOneWorker == OneWorker => (Spec => []IndexIsCurrent)
<1> SUFFICES ASSUME OneWorker PROVE Spec => []IndexIsCurrent
  OBVIOUS
<1>1. IInv /\ [Next]_vars => IInv'
  BY Inv_Step
<1>2. IInv => IndexIsCurrent
  BY DEF IInv
<1> QED
  BY <1>1, <1>2, Inv_Init, PTL DEF Spec

=============================================================================
