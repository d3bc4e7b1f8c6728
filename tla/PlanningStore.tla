--------------------------- MODULE PlanningStore ---------------------------
(* The repository of planning runs, src/delivery-planning-run-store.js: one   *)
(* file with the runs and a receipt of every operation that ever changed      *)
(* them, rewritten as a whole by each. Room is limited in receipts and in     *)
(* bytes, and a run that was admitted must never be stopped for lack of it:   *)
(* its worker could not be cleaned up any more. So the store reserves for a   *)
(* run, when it is created, the largest receipts of its longest path. What an *)
(* operation does to a run is PlanningRecord's; here a run is open or not.    *)
EXTENDS Integers, FiniteSets, Sequences

CONSTANTS
  Runs, Ops,              \* runs, and operation ids that clients may choose
  MaxRuns,                \* MAX_RUNS
  MaxOperations,          \* MAX_OPERATIONS
  Footprint,              \* ..._MAX_ACTIVE_OPERATION_FOOTPRINT
  MaxBytes,               \* MAX_STORE_BYTES
  RunSlot, OperationSlot, \* ..._SLOT_MAX_PERSISTED_BYTES
  MaxRequests,            \* bound: requests that clients may still send
  MaxFaults               \* bound: writes that fail, crashes

Limits ==
  /\ MaxRuns \in Nat /\ MaxOperations \in Nat /\ MaxBytes \in Nat /\ MaxFaults \in Nat
  /\ Footprint \in Nat \ {0} /\ RunSlot \in Nat \ {0} /\ OperationSlot \in Nat \ {0}

VARIABLES
  disk,                   \* the file: [runs, operations, bytes], its runs by id
  mem,                    \* the store as loaded, or NotLoaded
  poisoned,               \* a committed write could not be read back
  requests,               \* requests of clients under way or to be repeated
  written,                \* receipts that were ever in the file
  answered,               \* operations answered with success
  stranded,               \* a run was refused room within its reservation
  faults

vars == <<disk, mem, poisoned, requests, written, answered, stranded, faults>>

Store(runs, operations, bytes, loaded) ==
  [runs |-> runs, operations |-> operations, bytes |-> bytes, loaded |-> loaded]
NotLoaded == Store(<<>>, <<>>, 0, FALSE)
Empty == Store(<<>>, <<>>, 0, TRUE)
Kinds == {"create", "change", "close"}

\* A run of the store is [open, size], a receipt [id, kind, run, rev, size].
OpenRuns(s) == {r \in DOMAIN s.runs : s.runs[r].open}
Operations(s) == {s.operations[k] : k \in 1 .. Len(s.operations)}
Revision(s) == Len(s.operations)

OperationsForRun(s, r) == Cardinality({k \in 1 .. Len(s.operations) : s.operations[k].run = r})

\* ------------------------------------------------------ room

\* The one open run keeps the rest of its path and the growth of its slot.
Remaining(s, r) == Footprint - OperationsForRun(s, r)
ActiveReservation(s, r) ==
  /\ Remaining(s, r) >= 0
  /\ Len(s.operations) + Remaining(s, r) <= MaxOperations
  /\ s.bytes + (RunSlot - s.runs[r].size) + Remaining(s, r) * OperationSlot <= MaxBytes

AssertCapacity(s, creates) ==
  /\ Len(s.operations) < MaxOperations
  /\ creates =>
       /\ Cardinality(DOMAIN s.runs) < MaxRuns
       /\ OpenRuns(s) = {}
       /\ Len(s.operations) + Footprint <= MaxOperations
       /\ s.bytes + RunSlot + Footprint * OperationSlot <= MaxBytes

\* ------------------------------------------------------ the document

\* Receipts of a run start with its creation and end with its closing.
OperationValid(s, k) ==
  LET o == s.operations[k]
      earlier == {j \in 1 .. k - 1 : s.operations[j].run = o.run}
  IN /\ \A j \in 1 .. k - 1 : s.operations[j].id # o.id
     /\ o.rev = k /\ o.run \in DOMAIN s.runs /\ o.size <= OperationSlot
     /\ (o.kind = "create") = (earlier = {})
     /\ \A j \in earlier : s.operations[j].kind # "close"

\* A run is what its last receipt left.
RunValid(s, r) ==
  /\ s.runs[r].size <= RunSlot
  /\ \E k \in 1 .. Len(s.operations) :
       /\ s.operations[k].run = r
       /\ \A j \in k + 1 .. Len(s.operations) : s.operations[j].run # r
       /\ s.runs[r].open = (s.operations[k].kind # "close")

Valid(s) ==
  /\ Cardinality(DOMAIN s.runs) <= MaxRuns /\ Len(s.operations) <= MaxOperations
  /\ s.bytes <= MaxBytes
  /\ \A k \in 1 .. Len(s.operations) : OperationValid(s, k)
  /\ \A r \in DOMAIN s.runs : RunValid(s, r)
  /\ \A r, t \in OpenRuns(s) : r = t
  /\ \A r \in OpenRuns(s) : ActiveReservation(s, r)

\* The store after the operation q, the run of size n, its receipt of size m.
NextStore(s, q, n, m) ==
  LET old == IF q.run \in DOMAIN s.runs THEN s.runs[q.run].size ELSE 0 IN
  Store([r \in DOMAIN s.runs \union {q.run} |->
           IF r = q.run THEN [open |-> q.kind # "close", size |-> n] ELSE s.runs[r]],
        Append(s.operations, [id |-> q.op, kind |-> q.kind, run |-> q.run,
                              rev |-> Revision(s) + 1, size |-> m]),
        s.bytes + n + m - old, TRUE)

\* ------------------------------------------------------ clients

Init ==
  /\ disk = Empty /\ mem = NotLoaded /\ poisoned = FALSE
  /\ requests = {}
  /\ written = {} /\ answered = {} /\ stranded = FALSE /\ faults = 0

\* A client chooses an id and names the revision it has seen. It may send the
\* same request again, until it forgets it; two clients may choose one id.
FreshIds == Ops \ ({q.op : q \in requests} \union {o.id : o \in Operations(disk)})
Ask(op, kind, r) ==
  /\ mem.loaded /\ Cardinality(requests) < MaxRequests
  /\ requests' = requests \union {[op |-> op, kind |-> kind, run |-> r, rev |-> Revision(mem)]}
  /\ UNCHANGED <<disk, mem, poisoned, written, answered, stranded, faults>>

AskFresh(kind, r) == FreshIds # {} /\ Ask(CHOOSE op \in FreshIds : TRUE, kind, r)

Forgets(q) ==
  /\ requests' = requests \ {q}
  /\ UNCHANGED <<disk, mem, poisoned, written, answered, stranded, faults>>

\* ------------------------------------------------------ the repository

EnsureInitialized ==
  /\ ~poisoned /\ ~mem.loaded
  /\ Valid(disk) /\ mem' = disk
  /\ UNCHANGED <<disk, poisoned, requests, written, answered, stranded, faults>>

Earlier(s, q) == {o \in Operations(s) : o.id = q.op}

\* The receipt of the same request answers it again.
Replay(q) ==
  /\ mem.loaded /\ q \in requests
  /\ \E o \in Earlier(mem, q) : o.kind = q.kind /\ o.run = q.run /\ o.rev = q.rev + 1
  /\ answered' = answered \union {q}
  /\ UNCHANGED <<disk, mem, poisoned, requests, written, stranded, faults>>

\* A request whose id another one took is refused, and so is one of an old
\* revision, of a closed or an unknown run. (One made while the wall clock is
\* behind the last receipt is refused too, until the clock has caught up.)
Admitted(q) ==
  /\ Earlier(mem, q) = {}
  /\ q.rev = Revision(mem)
  /\ IF q.kind = "create"
       THEN q.run \notin DOMAIN mem.runs
       ELSE q.run \in OpenRuns(mem)

Operation(q) == mem.loaded /\ q \in requests /\ Admitted(q)

Fits(q, n, m) == AssertCapacity(mem, q.kind = "create") /\ Valid(NextStore(mem, q, n, m))

Mutate(q, n, m) ==
  /\ Operation(q) /\ Fits(q, n, m)
  /\ disk' = NextStore(mem, q, n, m) /\ mem' = disk'
  /\ written' = written \union Operations(disk')
  /\ answered' = answered \union {q}
  /\ UNCHANGED <<poisoned, requests, stranded, faults>>

\* Room is refused; for an open run on its reserved path that strands it.
RefusedRoom(q, n, m) ==
  /\ Operation(q) /\ ~Fits(q, n, m)
  /\ stranded' = (stranded \/ (q.kind # "create" /\ OperationsForRun(mem, q.run) < Footprint))
  /\ UNCHANGED <<disk, mem, poisoned, requests, written, answered, faults>>

Fault == faults < MaxFaults /\ faults' = faults + 1

\* The write fails before the new file replaces the old one.
WriteFails(q, n, m) ==
  /\ Operation(q) /\ Fits(q, n, m) /\ Fault
  /\ UNCHANGED <<disk, mem, poisoned, requests, written, answered, stranded>>

\* mutant: the store is not read back
UncertainWriteKept(q, n, m) ==
  /\ Operation(q) /\ Fits(q, n, m) /\ Fault
  /\ disk' = NextStore(mem, q, n, m)
  /\ written' = written \union Operations(disk')
  /\ UNCHANGED <<mem, poisoned, requests, answered, stranded>>

\* It fails after that: the client gets an error, the store is read back.
UncertainWrite(q, n, m) ==
  /\ Operation(q) /\ Fits(q, n, m) /\ Fault
  /\ disk' = NextStore(mem, q, n, m)
  /\ written' = written \union Operations(disk')
  /\ \/ mem' = disk' /\ UNCHANGED poisoned
     \/ mem' = NotLoaded /\ poisoned' = TRUE
  /\ UNCHANGED <<requests, answered, stranded>>

\* The server stops, between operations or within one around its write.
Crash ==
  /\ Fault
  /\ mem' = NotLoaded /\ poisoned' = FALSE
  /\ UNCHANGED <<disk, requests, written, answered, stranded>>

CrashAfterWrite(q, n, m) ==
  /\ Operation(q) /\ Fits(q, n, m) /\ Fault
  /\ disk' = NextStore(mem, q, n, m)
  /\ written' = written \union Operations(disk')
  /\ mem' = NotLoaded
  /\ UNCHANGED <<poisoned, requests, answered, stranded>>

\* ------------------------------------------------------ the specification

Next ==
  \/ \E kind \in Kinds, r \in Runs :
       AskFresh(kind, r) \/ (\E q \in requests : Ask(q.op, kind, r))
  \/ EnsureInitialized
  \/ \E q \in requests :
       \/ Forgets(q) \/ Replay(q)
       \/ \E big \in BOOLEAN :
            LET n == IF big THEN RunSlot ELSE 1
                m == IF big THEN OperationSlot ELSE 1 IN
            \/ Mutate(q, n, m) \/ RefusedRoom(q, n, m) \/ WriteFails(q, n, m)
            \/ UncertainWrite(q, n, m) \/ CrashAfterWrite(q, n, m)
  \/ Crash

Spec == Init /\ [][Next]_vars

\* ------------------------------------------------------ properties

TypeOK ==
  /\ mem.loaded => mem = disk
  /\ poisoned => ~mem.loaded
  /\ faults \in 0 .. MaxFaults

\* A run that was admitted is never refused room for an operation of its path.
NeverStranded == ~stranded

\* What reached the file stays there, and a success the client saw is in it:
\* no later write, retry or restart undoes or repeats an operation.
NothingLost ==
  /\ written \subseteq Operations(disk)
  /\ \A q \in answered : \E o \in Operations(disk) :
       o.id = q.op /\ o.kind = q.kind /\ o.run = q.run
  /\ \A j, k \in 1 .. Len(disk.operations) :
       disk.operations[j].id = disk.operations[k].id => j = k

StoreSafe == TypeOK /\ NeverStranded /\ NothingLost
=============================================================================
