----------------------------- MODULE SearchOutbox -----------------------------
(***************************************************************************)
(* The homestays and their search documents. An update of a homestay and   *)
(* an event of it are one transaction; publishers read the events, then    *)
(* the homestay as it is now, and write its document to Elasticsearch.     *)
(***************************************************************************)
EXTENDS Naturals

CONSTANTS
    Homestays,    \* ids of homestays
    NoCopy,       \* no document, or nothing read
    NoRow,        \* no outbox row in hand
    Publishers,   \* goroutines that run publishSearchOutbox, one for each worker
    MaxVersion,   \* bound: updates of a homestay
    MaxRebuilds,  \* bound: requests to rebuild the index
    Faults,       \* the kinds of fault that may happen
    MaxFaults     \* bound: how many faults happen

SearchFaultKinds == {"db", "elastic", "delay", "crash", "loss"}

ASSUME BoundsAssumption == MaxVersion \in Nat /\ MaxRebuilds \in Nat /\ MaxFaults \in Nat
ASSUME NoCopyAssumption == NoCopy \notin Nat

\* A row of search_event_outbox is named by its event_key: the kind of key, the
\* homestay, and the version or the token.
Rows == [key : {"homestay", "bootstrap", "rebuild"}, of : Homestays, n : Nat]

ASSUME NoRowAssumption == NoRow \notin Rows

VARIABLES
    present,    \* homestays with del_state 0
    version,    \* homestay.version, which stands for the contents of the row
    outbox,     \* the rows of search_event_outbox
    published,  \* those with status 1
    late,       \* those that wait for next_retry_at
    rebuilds,   \* tokens of the rebuilds there were
    index,      \* the version in each homestay's document
    delayed,    \* requests Elasticsearch will execute after their client gave up
    before,     \* history: the rows there were when something but a publisher changed
                \* the index
    batch,      \* rows a publisher has read and not handled
    item,       \* the row it is handling
    step,       \* where it is with it
    got,        \* the version it has read, NoCopy when the homestay is gone
    faults      \* faults that have happened

mysqlVars   == <<present, version, outbox, published, late, rebuilds>>
elasticVars == <<index, delayed, before>>
publishVars == <<batch, item, step, got>>
vars == <<mysqlVars, elasticVars, publishVars, faults>>

-----------------------------------------------------------------------------
(* Helpers. An operator whose name ends in _Bug is a mutated form of the one     *)
(* after it, with a plausible mistake: a property must fail when it takes over.   *)

Fault(kind) == kind \in Faults /\ faults < MaxFaults /\ faults' = faults + 1

Row(key, h, n) == [key |-> key, of |-> h, n |-> n]

\* Mutant: the query joins the homestays there are.
Due_Bug == {r \in outbox \ (published \cup late) : r.of \in present}

\* The rows PendingSearchOutbox selects.
Due == outbox \ (published \cup late)

\* The loop goes on with the next row.
NextRow(p) ==
    /\ item' = [item EXCEPT ![p] = NoRow]
    /\ step' = [step EXCEPT ![p] = "idle"]
    /\ got' = [got EXCEPT ![p] = NoCopy]

Init ==
    /\ present = Homestays
    /\ version = [h \in Homestays |-> 0]
    /\ outbox = {} /\ published = {} /\ late = {} /\ rebuilds = 0
    /\ index = [h \in Homestays |-> NoCopy] /\ delayed = {} /\ before = {}
    /\ batch = [p \in Publishers |-> {}]
    /\ item = [p \in Publishers |-> NoRow]
    /\ step = [p \in Publishers |-> "idle"]
    /\ got = [p \in Publishers |-> NoCopy]
    /\ faults = 0

-----------------------------------------------------------------------------
(* The homestays and the rows of the outbox. *)

\* Mutant: the key of the event does not name the version, and the INSERT ignores
\* a key that exists.
UpdateAdminHomestay_Bug(h) ==
    /\ version[h] < MaxVersion
    /\ version' = [version EXCEPT ![h] = @ + 1]
    /\ outbox' = outbox \cup {Row("homestay", h, 0)}
    /\ UNCHANGED <<present, published, late, rebuilds, elasticVars, publishVars, faults>>

\* The update and its event are one transaction. The form carries the version it
\* was filled in from; any other version changes nothing. del_state is not asked.
UpdateAdminHomestay(h) ==
    /\ version[h] < MaxVersion
    /\ version' = [version EXCEPT ![h] = @ + 1]
    /\ outbox' = outbox \cup {Row("homestay", h, version[h] + 1)}
    /\ UNCHANGED <<present, published, late, rebuilds, elasticVars, publishVars, faults>>

\* A process starts, with INSERT IGNORE.
BootstrapSearchOutbox ==
    /\ outbox' = outbox \cup {Row("bootstrap", h, version[h]) : h \in present}
    /\ UNCHANGED <<present, version, published, late, rebuilds, elasticVars, publishVars, faults>>

RebuildSearchOutbox ==
    /\ rebuilds < MaxRebuilds
    /\ rebuilds' = rebuilds + 1
    /\ outbox' = outbox \cup {Row("rebuild", h, rebuilds') : h \in present}
    /\ UNCHANGED <<present, version, published, late, elasticVars, publishVars, faults>>

\* An operator sets del_state. Nothing in the program does, nor writes an event of it.
Remove(h) ==
    /\ h \in present
    /\ present' = present \ {h}
    /\ UNCHANGED <<version, outbox, published, late, rebuilds, elasticVars, publishVars, faults>>

-----------------------------------------------------------------------------
(* publishSearchOutbox. Rows of a batch are handled by id; any order will do here. *)

Poll(p) ==
    /\ step[p] = "idle" /\ batch[p] = {}
    /\ batch' = [batch EXCEPT ![p] = Due]
    /\ UNCHANGED <<mysqlVars, elasticVars, item, step, got, faults>>

\* Takes the next row and reads the homestay as it is now.
HomestayForIndex(p, r) ==
    /\ step[p] = "idle" /\ r \in batch[p]
    /\ batch' = [batch EXCEPT ![p] = @ \ {r}]
    /\ item' = [item EXCEPT ![p] = r]
    /\ \/ /\ got' = [got EXCEPT ![p] = IF r.of \in present THEN version[r.of] ELSE NoCopy]
          /\ step' = [step EXCEPT ![p] = "write"] /\ UNCHANGED faults
       \/ /\ Fault("db")
          /\ step' = [step EXCEPT ![p] = "retry"] /\ UNCHANGED got
    /\ UNCHANGED <<mysqlVars, elasticVars>>

\* IndexHomestay, or DeleteHomestay when there is none.
IndexHomestay(p) ==
    /\ step[p] = "write"
    /\ index' = [index EXCEPT ![item[p].of] = got[p]]
    /\ step' = [step EXCEPT ![p] = "mark"]
    /\ UNCHANGED <<mysqlVars, delayed, before, batch, item, got, faults>>

\* The request reports an error: it was executed, or not, or will be.
IndexFails(p) ==
    /\ step[p] = "write"
    /\ LET h == item[p].of IN
       \/ /\ Fault("elastic")
          /\ index' \in {index, [index EXCEPT ![h] = got[p]]} /\ UNCHANGED delayed
       \/ /\ Fault("delay")
          /\ delayed' = delayed \cup {<<h, got[p]>>} /\ UNCHANGED index
    /\ step' = [step EXCEPT ![p] = "retry"]
    /\ UNCHANGED <<mysqlVars, before, batch, item, got>>

\* Puts the row off, if its status is 0; an error of the UPDATE is dropped.
RetrySearchOutbox(p) ==
    /\ step[p] = "retry"
    /\ \/ /\ late' = IF item[p] \in published THEN late ELSE late \cup {item[p]}
          /\ UNCHANGED faults
       \/ Fault("db") /\ UNCHANGED late
    /\ NextRow(p)
    /\ UNCHANGED <<present, version, outbox, published, rebuilds, elasticVars, batch>>

\* The delay is over.
RetryDue(r) ==
    /\ r \in late
    /\ late' = late \ {r}
    /\ UNCHANGED <<present, version, outbox, published, rebuilds, elasticVars, publishVars, faults>>

MarkSearchOutboxPublished(p) ==
    /\ step[p] = "mark"
    /\ published' = published \cup {item[p]} /\ late' = late \ {item[p]}
    /\ NextRow(p)
    /\ UNCHANGED <<present, version, outbox, rebuilds, elasticVars, batch, faults>>

\* Mutant: a mark that failed puts the row off, whatever its status.
MarkFails_Bug(p) ==
    /\ step[p] = "mark"
    /\ Fault("db")
    /\ published' \in {published, published \cup {item[p]}} /\ late' = late \cup {item[p]}
    /\ NextRow(p)
    /\ UNCHANGED <<present, version, outbox, rebuilds, elasticVars, batch>>

\* The UPDATE reports an error, applied or not: only logged.
MarkFails(p) ==
    /\ step[p] = "mark"
    /\ Fault("db")
    /\ \/ published' = published \cup {item[p]} /\ late' = late \ {item[p]}
       \/ UNCHANGED <<published, late>>
    /\ NextRow(p)
    /\ UNCHANGED <<present, version, outbox, rebuilds, elasticVars, batch>>

\* The worker stops with a batch in hand, perhaps with its request on the way.
PublisherCrash(p) ==
    /\ batch[p] # {} \/ item[p] # NoRow
    /\ Fault("crash")
    /\ \/ UNCHANGED delayed
       \/ step[p] = "write" /\ delayed' = delayed \cup {<<item[p].of, got[p]>>}
    /\ batch' = [batch EXCEPT ![p] = {}]
    /\ NextRow(p)
    /\ UNCHANGED <<mysqlVars, index, before>>

\* Elasticsearch executes a request whose client has given up.
Arrive ==
    \E d \in delayed :
        /\ index' = [index EXCEPT ![d[1]] = d[2]]
        /\ delayed' = delayed \ {d}
        /\ before' = outbox
        /\ UNCHANGED <<mysqlVars, publishVars, faults>>

\* Elasticsearch loses its documents; a rebuild brings them back.
LoseIndex ==
    /\ Fault("loss")
    /\ index' = [h \in Homestays |-> NoCopy] /\ delayed' = {}
    /\ before' = outbox
    /\ UNCHANGED <<mysqlVars, publishVars>>

-----------------------------------------------------------------------------
Publish(p) ==
    \/ \E r \in batch[p] : HomestayForIndex(p, r)
    \/ Poll(p) \/ IndexHomestay(p) \/ IndexFails(p) \/ RetrySearchOutbox(p)
    \/ MarkSearchOutboxPublished(p) \/ MarkFails(p) \/ PublisherCrash(p)

Next ==
    \/ \E h \in Homestays : UpdateAdminHomestay(h) \/ Remove(h)
    \/ BootstrapSearchOutbox \/ RebuildSearchOutbox
    \/ \E p \in Publishers : Publish(p)
    \/ \E r \in late : RetryDue(r)
    \/ Arrive \/ LoseIndex

Spec == Init /\ [][Next]_vars

\* A goroutine goes on and its ticker ticks, and delays pass. Nobody has to update,
\* remove or rebuild.
Fairness ==
    /\ \A p \in Publishers :
          /\ WF_vars(Poll(p)) /\ WF_vars(\E r \in batch[p] : HomestayForIndex(p, r))
          /\ WF_vars(IndexHomestay(p)) /\ WF_vars(RetrySearchOutbox(p))
          /\ WF_vars(MarkSearchOutboxPublished(p))
    /\ WF_vars(\E r \in late : RetryDue(r))

FairSpec == Spec /\ Fairness

-----------------------------------------------------------------------------
(* Properties. *)

\* Types; a row that is done is never put off (MarkSearchOutboxPublished,
\* RetrySearchOutbox).
TypeOK ==
    /\ present \subseteq Homestays
    /\ version \in [Homestays -> Nat]
    /\ outbox \subseteq Rows /\ published \subseteq outbox /\ late \subseteq outbox \ published
    /\ rebuilds \in Nat
    /\ index \in [Homestays -> Nat \cup {NoCopy}]
    /\ delayed \subseteq Homestays \X (Nat \cup {NoCopy})
    /\ before \subseteq outbox
    /\ batch \in [Publishers -> SUBSET outbox]
    /\ item \in [Publishers -> outbox \cup {NoRow}]
    /\ step \in [Publishers -> {"idle", "write", "mark", "retry"}]
    /\ \A p \in Publishers : step[p] # "idle" => item[p] # NoRow
    /\ got \in [Publishers -> Nat \cup {NoCopy}]
    /\ faults \in Nat

\* When every row of a homestay is done and one is younger than the last loss of
\* the index or late request, its document has the version of MySQL: an update, its
\* event and the document cannot come apart (UpdateAdminHomestay,
\* publishSearchOutbox). Holds for one worker.
IndexIsCurrent ==
    \A h \in present :
        /\ \E r \in outbox \ before : r.of = h
        /\ \A r \in outbox : r.of = h => r \in published
        => index[h] = version[h]

\* When updates end, every row is done in the end, through failures and crashes
\* (publishSearchOutbox, RetrySearchOutbox).
EventIsPublished == (outbox # published) ~> (outbox = published)
=============================================================================
