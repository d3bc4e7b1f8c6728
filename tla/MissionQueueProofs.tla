--------------------------- MODULE MissionQueueProofs ---------------------------
(* Theorems about the mission queue: what is promised of its locks, its order,    *)
(* its attempts and its files, for any missions, workers and directories, over    *)
(* any number of attempts, restarts and failing writes.                           *)
EXTENDS MissionQueue, FiniteSetTheorems, TLAPS

--------------------------------------------------------------------------------
(* The inductive invariant: a store.                                              *)

\* No two missions of S stand on one position.
Apart(q, S) == \A j, k \in S : q[j].pos = q[k].pos => j = k

\* What every store satisfies that the server holds, writes, or leaves on disk.
Sound(q) ==
  /\ q \in [Jobs -> JobType]
  /\ Valid(q) /\ Exclusive(q) /\ Cardinality(Active(q)) <= MaxActive
  /\ Apart(q, Queue(q))

\* What a store says of the attempts whose texts were typed and entered.
Told(q, d, ty, en) ==
  /\ \A j \in Jobs : q[j].attempt <= d
  /\ \A j \in Queue(q) : q[j].attempt # 0 => ty[q[j].attempt] = 0
  /\ \A j \in Bound : q[j].status \in {"running", "needs_you", "verifying", "done"} =>
                        q[j].attempt # 0 /\ en[q[j].attempt] = 1

\* A mission that is queued in r and not in q stands in r where its priority puts it.
Enters(q, r) ==
  \A j \in Queue(r) \ Queue(q) : q[j].status # "dispatching" =>
    \A k \in Queue(r) : Priority[k] < Priority[j] => r[j].pos < r[k].pos

\* The inductive invariant: the operation that holds the queue.
Delivering == {"preflight", "type", "enter", "record"}

Holds ==
  LET job == mem[cur] IN
  /\ ~up => phase = "idle" /\ mem = disk
  /\ phase \in {"adopt", "reserve"} =>
       /\ cur \in Jobs /\ tgt.session \in Sessions /\ Free(cur, tgt.session)
       /\ job.status = "ready" => Room(cur)
  /\ phase = "adopt" => cur \notin Bound /\ job.status \in {"ready", "needs_you"}
  /\ phase = "reserve" => job.status = "ready"
  /\ phase \in Delivering =>
       /\ cur \in Jobs /\ mem = disk /\ job.status = "dispatching" /\ job.attempt # 0
       /\ tgt.session \in Sessions /\ job.session = tgt.session /\ job.gen = tgt.gen
       /\ \A j \in Jobs \ {cur} : mem[j].attempt # job.attempt
       /\ \A j \in Queue(mem) : mem[j].pos # job.pos
  /\ phase \in {"preflight", "type"} => typed[job.attempt] = 0
  /\ phase \in {"preflight", "type", "enter"} => entered[job.attempt] = 0
  /\ phase = "record" => /\ out \in BeforeInput => typed[job.attempt] = 0
                         /\ out = "accepted" => entered[job.attempt] = 1

\* Nothing is known yet of an attempt that is not drawn.
Undrawn == \A n \in Attempts : n > drawn => typed[n] = 0 /\ entered[n] = 0

\* The file is the store, or what a write that threw has left in its place.
Stores ==
  /\ Sound(mem) /\ Sound(disk)
  /\ Told(mem, drawn, typed, entered) /\ Told(disk, drawn, typed, entered)
  /\ Enters(mem, disk)

Inv == TypeOK /\ Stores /\ Holds /\ Undrawn

--------------------------------------------------------------------------------
(* Sets of missions, and their positions.                                         *)

\* A set of missions is finite, and a part of it has no more of them.
LEMMA JobSets ==
  ASSUME NEW S \in SUBSET Jobs
  PROVE  /\ IsFiniteSet(S) /\ Cardinality(S) \in Nat /\ Cardinality(S) <= Cardinality(Jobs)
         /\ Cardinality(Jobs) \in Nat
         /\ \A T \in SUBSET S : Cardinality(T) \in Nat /\ Cardinality(T) <= Cardinality(S)
         /\ \A x \in S : Cardinality(S \ {x}) = Cardinality(S) - 1
         /\ \A x \in Jobs \ S : Cardinality(S \cup {x}) = Cardinality(S) + 1
  <1>1. IsFiniteSet(Jobs) BY ConstantsAssumption
  <1>2. IsFiniteSet(S) /\ Cardinality(S) <= Cardinality(Jobs) BY <1>1, FS_Subset
  <1>3. Cardinality(S) \in Nat /\ Cardinality(Jobs) \in Nat BY <1>1, <1>2, FS_CardinalityType
  <1>4. ASSUME NEW T \in SUBSET S
        PROVE  Cardinality(T) \in Nat /\ Cardinality(T) <= Cardinality(S)
    BY <1>2, FS_Subset, FS_CardinalityType
  <1>5. \A x \in S : Cardinality(S \ {x}) = Cardinality(S) - 1 BY <1>2, FS_RemoveElement
  <1>6. \A x \in Jobs \ S : Cardinality(S \cup {x}) = Cardinality(S) + 1
    BY <1>2, FS_AddElement
  <1>7. QED BY <1>2, <1>3, <1>4, <1>5, <1>6

\* A job has its fields, and its position in a store lies within the missions.
LEMMA JobFacts ==
  ASSUME NEW q \in [Jobs -> JobType]
  PROVE  \A j \in Jobs : q[j] \in JobType /\ q[j].pos \in Nat /\ q[j].pos <= Cardinality(Jobs)
  <1>1. Cardinality(Jobs) \in Nat BY JobSets
  <1>2. QED BY <1>1 DEF JobType

\* The rank of a mission among others counts them from 1, in the order of their
\* positions.
LEMMA RankFacts ==
  ASSUME NEW q \in [Jobs -> JobType], NEW S \in SUBSET Jobs, Apart(q, S)
  PROVE  /\ \A k \in S : Rank(q, S, k) \in Nat /\ 1 <= Rank(q, S, k)
                          /\ Rank(q, S, k) <= Cardinality(S)
         /\ \A k, m \in S : q[k].pos < q[m].pos => Rank(q, S, k) < Rank(q, S, m)
         /\ \A k, m \in S : Rank(q, S, k) = Rank(q, S, m) => k = m
  <1> DEFINE upto(k) == {m \in S : q[m].pos <= q[k].pos}
  <1>1. \A k \in Jobs : q[k].pos \in Nat BY JobFacts
  <1>2. \A k : Rank(q, S, k) = Cardinality(upto(k)) /\ upto(k) \in SUBSET S BY DEF Rank
  <1>3. \A k \in S : k \in upto(k) BY <1>1
  <1>4. ASSUME NEW k \in S
        PROVE  /\ Cardinality(upto(k)) \in Nat /\ 1 <= Cardinality(upto(k))
               /\ Cardinality(upto(k)) <= Cardinality(S)
    <2>1. upto(k) \in SUBSET Jobs /\ upto(k) \in SUBSET S /\ k \in upto(k) BY <1>3
    <2> HIDE DEF upto
    <2>2. Cardinality(upto(k)) \in Nat /\ Cardinality(upto(k)) <= Cardinality(S)
      BY <2>1, JobSets
    <2>3. Cardinality(upto(k) \ {k}) = Cardinality(upto(k)) - 1 BY <2>1, JobSets
    <2>4. Cardinality(upto(k) \ {k}) \in Nat
      <3>1. upto(k) \ {k} \in SUBSET Jobs BY <2>1
      <3>2. QED BY <3>1, JobSets
    <2>5. QED BY <2>2, <2>3, <2>4
  <1>5. ASSUME NEW k \in S, NEW m \in S, q[k].pos < q[m].pos
        PROVE  Cardinality(upto(k)) < Cardinality(upto(m))
    <2>1. upto(k) \in SUBSET (upto(m) \ {m}) /\ m \in upto(m) /\ upto(m) \in SUBSET Jobs
      BY <1>1, <1>5
    <2> HIDE DEF upto
    <2>2. Cardinality(upto(m) \ {m}) = Cardinality(upto(m)) - 1 BY <2>1, JobSets
    <2>3. upto(m) \ {m} \in SUBSET Jobs BY <2>1
    <2>4. Cardinality(upto(k)) <= Cardinality(upto(m) \ {m}) BY <2>1, <2>3, JobSets
    <2>5. Cardinality(upto(k)) \in Nat /\ Cardinality(upto(m)) \in Nat BY <1>4
    <2>6. QED BY <2>2, <2>4, <2>5
  <1>6. ASSUME NEW k \in S, NEW m \in S, Cardinality(upto(k)) = Cardinality(upto(m))
        PROVE  k = m
    <2>1. Cardinality(upto(k)) \in Nat /\ Cardinality(upto(m)) \in Nat BY <1>4
    <2>2. ~(q[k].pos < q[m].pos) /\ ~(q[m].pos < q[k].pos) BY <1>5, <1>6, <2>1
    <2>3. q[k].pos = q[m].pos BY <1>1, <2>2
    <2>4. QED BY <2>3 DEF Apart
  <1> HIDE DEF upto
  <1>7. QED BY <1>2, <1>4, <1>5, <1>6

--------------------------------------------------------------------------------
(* What the operators on stores do.                                               *)

\* Two missions that differ only in where they stand.
Alike(a, b) ==
  /\ a.status = b.status /\ a.session = b.session /\ a.gen = b.gen /\ a.attempt = b.attempt
  /\ a.adopted = b.adopted /\ a.outcome = b.outcome /\ a.finished = b.finished
  /\ a.verified = b.verified

Replaced(q, r) == r \in [Jobs -> JobType] /\ \A j \in Jobs : Alike(q[j], r[j])

\* Who is present, active and queued does not depend on the positions, nor does the
\* validator.
LEMMA ReplacedFacts ==
  ASSUME NEW q \in [Jobs -> JobType], NEW r, Replaced(q, r)
  PROVE  /\ Present(r) = Present(q) /\ Active(r) = Active(q) /\ Queue(r) = Queue(q)
         /\ Valid(q) => Valid(r)
         /\ Exclusive(q) => Exclusive(r)
         /\ \A d, ty, en : Told(q, d, ty, en) => Told(r, d, ty, en)
  <1>1. Present(r) = Present(q) /\ Active(r) = Active(q) /\ Queue(r) = Queue(q)
    BY DEF Replaced, Alike, Present, Active, Queue
  <1>2. \A j \in Jobs : JobValid(q[j]) => JobValid(r[j])
    BY DEF Replaced, Alike, JobValid
  <1>3. Present(q) \subseteq Jobs /\ Active(q) \subseteq Jobs /\ Queue(q) \subseteq Jobs
    BY DEF Present, Active, Queue
  <1>4. Valid(q) => Valid(r) BY <1>1, <1>2, <1>3 DEF Valid
  <1>5. Exclusive(q) => Exclusive(r) BY <1>1, <1>3 DEF Exclusive, Replaced, Alike
  <1>6. ASSUME NEW d, NEW ty, NEW en, Told(q, d, ty, en) PROVE Told(r, d, ty, en)
    <2>1. Bound \subseteq Jobs BY ConstantsAssumption
    <2>2. QED BY <1>1, <1>3, <1>6, <2>1 DEF Told, Replaced, Alike
  <1>7. QED BY <1>1, <1>4, <1>5, <1>6

\* A mission with another position is a mission alike.
LEMMA PosFacts ==
  ASSUME NEW job \in JobType, NEW n \in 0..Cardinality(Jobs)
  PROVE  /\ [job EXCEPT !.pos = n] \in JobType /\ [job EXCEPT !.pos = n].pos = n
         /\ Alike(job, [job EXCEPT !.pos = n])
  BY DEF JobType, Alike

\* normalizeMissionPositions moves only positions, keeps the order and leaves no two
\* missions on one position.
LEMMA NormalizedFacts ==
  ASSUME NEW q \in [Jobs -> JobType], Apart(q, Queue(q))
  PROVE  /\ Replaced(q, Normalized(q)) /\ Apart(Normalized(q), Queue(q))
         /\ \A k, m \in Queue(q) : q[k].pos < q[m].pos => Normalized(q)[k].pos < Normalized(q)[m].pos
  <1> DEFINE S == Queue(q)
             r == Normalized(q)
  <1>1. S \in SUBSET Jobs BY DEF Queue
  <1>2. \A k \in S : Rank(q, S, k) \in 0..Cardinality(Jobs)
    <2>1. Cardinality(S) <= Cardinality(Jobs) /\ Cardinality(S) \in Nat /\ Cardinality(Jobs) \in Nat
      BY <1>1, JobSets
    <2>2. \A k \in S : Rank(q, S, k) \in Nat /\ Rank(q, S, k) <= Cardinality(S)
      BY <1>1, RankFacts
    <2> HIDE DEF S
    <2>3. QED BY <2>1, <2>2
  <1>3. \A k \in Jobs : r[k] = IF k \in S THEN [q[k] EXCEPT !.pos = Rank(q, S, k)] ELSE q[k]
    BY DEF Normalized
  <1>4. ASSUME NEW k \in Jobs
        PROVE  /\ r[k] \in JobType /\ Alike(q[k], r[k])
               /\ k \in S => r[k].pos = Rank(q, S, k)
    <2> HIDE DEF S, r
    <2>1. CASE k \in S
      <3>1. q[k] \in JobType /\ Rank(q, S, k) \in 0..Cardinality(Jobs) BY <1>2, <2>1
      <3>2. r[k] = [q[k] EXCEPT !.pos = Rank(q, S, k)] BY <1>3, <2>1
      <3>3. QED BY <3>1, <3>2, PosFacts
    <2>2. CASE k \notin S BY <1>3, <2>2 DEF Alike
    <2>3. QED BY <2>1, <2>2
  <1>5. r = [k \in Jobs |-> r[k]] BY DEF Normalized
  <1>6. Replaced(q, r)
    <2> HIDE DEF r
    <2>1. QED BY <1>4, <1>5 DEF Replaced
  <1>7. Apart(r, S) /\ \A k, m \in S : q[k].pos < q[m].pos => r[k].pos < r[m].pos
    <2>1. Apart(q, S) OBVIOUS
    <2> HIDE DEF r, S
    <2>2. QED BY <1>1, <1>4, <2>1, RankFacts DEF Apart
  <1>8. QED BY <1>6, <1>7

\* The missions that stay before j are the first of the others.
LEMMA AheadFacts ==
  ASSUME NEW q \in [Jobs -> JobType], NEW j \in Queue(q)
  PROVE  LET others == Queue(q) \ {j}
         IN /\ Ahead(q, j) \in SUBSET others /\ others \in SUBSET Jobs
            /\ \A k \in Ahead(q, j) : Rank(q, others, k) <= Cardinality(Ahead(q, j))
            /\ \A k \in others \ Ahead(q, j) :
                 Cardinality(Ahead(q, j)) + 1 <= Rank(q, others, k)
            /\ \A k \in Queue(q) : Priority[k] < Priority[j] => k \notin Ahead(q, j)
  <1> DEFINE others == Queue(q) \ {j}
             ahead == Ahead(q, j)
             upto(k) == {m \in others : q[m].pos <= q[k].pos}
  <1>1. ahead \in SUBSET others /\ others \in SUBSET Jobs BY DEF Ahead, Queue
  <1>2. \A k \in Jobs : q[k].pos \in Nat /\ Priority[k] \in 1..4
    BY JobFacts, ConstantsAssumption
  <1>3. \A k : Rank(q, others, k) = Cardinality(upto(k)) /\ upto(k) \in SUBSET others BY DEF Rank
  <1>4. \A k \in ahead : upto(k) \in SUBSET ahead
    BY <1>1, <1>2 DEF Ahead
  <1>5. ASSUME NEW k \in others \ ahead PROVE ahead \in SUBSET (upto(k) \ {k}) /\ k \in upto(k)
    <2>1. PICK f \in others : Priority[f] < Priority[j] /\ ~(q[k].pos < q[f].pos)
      BY <1>5 DEF Ahead
    <2>2. \A m \in ahead : q[m].pos < q[f].pos BY <2>1 DEF Ahead
    <2>3. \A m \in ahead : q[m].pos <= q[k].pos BY <1>1, <1>2, <1>5, <2>1, <2>2
    <2>4. QED BY <1>1, <1>2, <1>5, <2>3
  <1>6. \A k \in Queue(q) : Priority[k] < Priority[j] => k \notin ahead
    BY <1>2 DEF Ahead, Queue
  <1> HIDE DEF others, ahead, upto
  <1>7. ASSUME NEW k \in ahead PROVE Cardinality(upto(k)) <= Cardinality(ahead)
    <2>1. ahead \in SUBSET Jobs BY <1>1
    <2>2. QED BY <1>4, <1>7, <2>1, JobSets
  <1>8. ASSUME NEW k \in others \ ahead PROVE Cardinality(ahead) + 1 <= Cardinality(upto(k))
    <2>1. ahead \in SUBSET (upto(k) \ {k}) /\ k \in upto(k) /\ upto(k) \in SUBSET Jobs
          /\ (upto(k) \ {k}) \in SUBSET Jobs
      BY <1>1, <1>3, <1>5
    <2>2. Cardinality(upto(k) \ {k}) = Cardinality(upto(k)) - 1 BY <2>1, JobSets
    <2>3. Cardinality(ahead) <= Cardinality(upto(k) \ {k}) BY <2>1, JobSets
    <2>4. Cardinality(ahead) \in Nat /\ Cardinality(upto(k)) \in Nat
      BY <1>1, <2>1, JobSets
    <2>5. QED BY <2>2, <2>3, <2>4
  <1>9. /\ \A k \in ahead : Rank(q, others, k) <= Cardinality(ahead)
        /\ \A k \in others \ ahead : Cardinality(ahead) + 1 <= Rank(q, others, k)
    BY <1>3, <1>7, <1>8
  <1>10. QED BY <1>1, <1>6, <1>9 DEF others, ahead

\* placeMissionByPriority moves only positions, leaves no two missions on one
\* position, and puts the mission before all of a lower priority.
LEMMA PlacedFacts ==
  ASSUME NEW q \in [Jobs -> JobType], NEW j \in Queue(q), Apart(q, Queue(q) \ {j})
  PROVE  /\ Replaced(q, Placed(q, j)) /\ Apart(Placed(q, j), Queue(q))
         /\ \A k \in Queue(q) : Priority[k] < Priority[j] =>
                                  Placed(q, j)[j].pos < Placed(q, j)[k].pos
  <1> DEFINE others == Queue(q) \ {j}
             ahead == Ahead(q, j)
             c == Cardinality(ahead)
             r == Placed(q, j)
             place(k) == Rank(q, others, k) + (IF k \in ahead THEN 0 ELSE 1)
  <1>1. /\ ahead \in SUBSET others /\ others \in SUBSET Jobs /\ j \in Jobs /\ j \notin others
        /\ Queue(q) = others \cup {j}
    BY AheadFacts DEF Queue
  <1>2. /\ \A k \in ahead : Rank(q, others, k) <= c
        /\ \A k \in others \ ahead : c + 1 <= Rank(q, others, k)
        /\ \A k \in Queue(q) : Priority[k] < Priority[j] => k \notin ahead
    BY AheadFacts
  <1>3. Apart(q, others) OBVIOUS
  <1>4. /\ \A k \in Jobs : r[k] = IF k = j THEN [q[k] EXCEPT !.pos = c + 1]
                                  ELSE IF k \in others THEN [q[k] EXCEPT !.pos = place(k)]
                                  ELSE q[k]
        /\ r = [k \in Jobs |-> r[k]]
    BY DEF Placed
  <1>5. \A k : place(k) = Rank(q, others, k) + (IF k \in ahead THEN 0 ELSE 1) OBVIOUS
  <1>6. ~(Priority[j] < Priority[j]) BY <1>1, ConstantsAssumption
  <1>7. c = Cardinality(ahead) OBVIOUS
  <1> HIDE DEF others, ahead, r, place, c
  <1>8. /\ c \in Nat /\ Cardinality(others) \in Nat /\ c <= Cardinality(others)
        /\ Cardinality(others) + 1 <= Cardinality(Jobs) /\ Cardinality(Jobs) \in Nat
    <2>1. Cardinality(others) \in Nat /\ c \in Nat /\ c <= Cardinality(others)
          /\ Cardinality(Jobs) \in Nat
      BY <1>1, <1>7, JobSets
    <2>2. Cardinality(others \cup {j}) = Cardinality(others) + 1 BY <1>1, JobSets
    <2>3. others \cup {j} \in SUBSET Jobs BY <1>1
    <2>4. Cardinality(others \cup {j}) <= Cardinality(Jobs) BY <2>3, JobSets
    <2>5. QED BY <2>1, <2>2, <2>4
  <1>9. /\ \A k \in others : Rank(q, others, k) \in Nat /\ 1 <= Rank(q, others, k)
                              /\ Rank(q, others, k) <= Cardinality(others)
        /\ \A k, m \in others : Rank(q, others, k) = Rank(q, others, m) => k = m
    BY <1>1, <1>3, RankFacts
  <1>10. /\ \A k \in others : /\ place(k) \in 0..Cardinality(Jobs) /\ place(k) # c + 1
                              /\ k \notin ahead => c + 1 < place(k)
         /\ \A k, m \in others : place(k) = place(m) => k = m
    <2>1. ASSUME NEW k \in others
          PROVE  /\ place(k) \in 0..Cardinality(Jobs) /\ place(k) # c + 1
                 /\ k \notin ahead => c + 1 < place(k)
                 /\ k \in ahead => place(k) <= c
      BY <1>2, <1>5, <1>8, <1>9
    <2>2. ASSUME NEW k \in others, NEW m \in others, place(k) = place(m)
          PROVE  k = m
      <3>1. k \in ahead <=> m \in ahead
        <4>1. place(k) \in Int /\ place(m) \in Int BY <2>1
        <4>2. QED BY <1>8, <2>1, <2>2, <4>1
      <3>2. Rank(q, others, k) \in Nat /\ Rank(q, others, m) \in Nat BY <1>9
      <3>3. Rank(q, others, k) = Rank(q, others, m) BY <1>5, <2>2, <3>1, <3>2
      <3>4. QED BY <1>9, <3>3
    <2>3. QED BY <2>1, <2>2
  <1>11. /\ r[j] \in JobType /\ Alike(q[j], r[j]) /\ r[j].pos = c + 1
    <2>1. q[j] \in JobType /\ c + 1 \in 0..Cardinality(Jobs) BY <1>1, <1>8
    <2>2. r[j] = [q[j] EXCEPT !.pos = c + 1] BY <1>1, <1>4
    <2>3. QED BY <2>1, <2>2, PosFacts
  <1>12. ASSUME NEW k \in others
         PROVE  r[k] \in JobType /\ Alike(q[k], r[k]) /\ r[k].pos = place(k)
    <2>1. q[k] \in JobType /\ place(k) \in 0..Cardinality(Jobs) BY <1>1, <1>10
    <2>2. r[k] = [q[k] EXCEPT !.pos = place(k)] BY <1>1, <1>4
    <2>3. QED BY <2>1, <2>2, PosFacts
  <1>13. ASSUME NEW k \in Jobs, k # j, k \notin others
         PROVE  r[k] \in JobType /\ Alike(q[k], r[k])
    BY <1>4, <1>13 DEF Alike
  <1>14. Replaced(q, r) BY <1>4, <1>11, <1>12, <1>13 DEF Replaced
  <1>15. Apart(r, Queue(q)) BY <1>1, <1>10, <1>11, <1>12 DEF Apart
  <1>16. \A k \in Queue(q) : Priority[k] < Priority[j] => r[j].pos < r[k].pos
    BY <1>1, <1>2, <1>6, <1>10, <1>11, <1>12
  <1>17. QED BY <1>14, <1>15, <1>16 DEF r

--------------------------------------------------------------------------------
(* Edits of a store.                                                              *)

\* A sound store, but for its positions.
Kept(q) ==
  /\ q \in [Jobs -> JobType]
  /\ Valid(q) /\ Exclusive(q) /\ Cardinality(Active(q)) <= MaxActive

\* What may be written in the place of a store.
Fit(q, r, d, ty, en) == Sound(r) /\ Told(r, d, ty, en) /\ Enters(q, r)

\* The statuses of a Delivery Run's mission whose text was submitted.
Handed == {"running", "needs_you", "verifying", "done"}

\* Missions of a store are present, active or queued by their status.
LEMMA StatusFacts ==
  ASSUME NEW q \in [Jobs -> JobType]
  PROVE  /\ \A j \in Jobs : /\ j \in Present(q) <=> q[j].status # "absent"
                            /\ j \in Active(q) <=> q[j].status \in LockStatuses
                            /\ j \in Queue(q) <=> q[j].status \in QueueStatuses
         /\ Present(q) \subseteq Jobs /\ Active(q) \subseteq Present(q)
         /\ Queue(q) \subseteq Present(q)
  BY DEF Present, Active, Queue, LockStatuses, QueueStatuses

\* The missions that stay active keep their locks.
LEMMA EditKept ==
  ASSUME NEW q, Kept(q), NEW r \in [Jobs -> JobType], Present(r) = Present(q),
         \A j \in Present(q) : Alike(q[j], r[j]) \/ JobValid(r[j]),
         \A j \in Active(r) : j \in Active(q) /\ r[j].session = q[j].session
  PROVE  Kept(r)
  <1>1. q \in [Jobs -> JobType] BY DEF Kept
  <1>2. \A j \in Present(r) : JobValid(r[j])
    BY DEF Kept, Valid, Alike, JobValid
  <1>3. Valid(r) BY <1>2 DEF Kept, Valid
  <1>4. Exclusive(r) BY DEF Kept, Exclusive
  <1>5. Active(q) \in SUBSET Jobs /\ Active(r) \in SUBSET Active(q) BY <1>1, StatusFacts
  <1>6. Cardinality(Active(r)) <= Cardinality(Active(q)) /\ Cardinality(Active(r)) \in Nat
        /\ Cardinality(Active(q)) \in Nat
    BY <1>5, JobSets
  <1>7. Cardinality(Active(r)) <= MaxActive BY <1>6, ConstantsAssumption DEF Kept
  <1>8. QED BY <1>3, <1>4, <1>7 DEF Kept

\* A mission takes a worker and a workspace that are free, when there is room.
LEMMA TakeKept ==
  ASSUME NEW q, Kept(q), NEW j \in Present(q), NEW s,
         NEW job \in JobType, JobValid(job), job.status \in LockStatuses, job.session = s,
         \A k \in Active(q) \ {j} : ~Conflict(Workspace[k], Workspace[j]) /\ q[k].session # s,
         j \notin Active(q) => Cardinality(Active(q) \ {j}) < MaxActive
  PROVE  Kept(With(q, j, job)) /\ Present(With(q, j, job)) = Present(q)
  <1> DEFINE r == With(q, j, job)
  <1>1. q \in [Jobs -> JobType] /\ j \in Jobs BY StatusFacts DEF Kept
  <1>2. r \in [Jobs -> JobType] /\ r[j] = job /\ \A k \in Jobs \ {j} : r[k] = q[k]
    BY <1>1 DEF With
  <1>3. job.status # "absent" BY DEF LockStatuses
  <1> HIDE DEF r
  <1>4. Present(r) = Present(q) BY <1>1, <1>2, <1>3 DEF Present
  <1>5. Active(r) = (Active(q) \ {j}) \cup {j} BY <1>1, <1>2 DEF Active
  <1>6. Active(q) \in SUBSET Jobs /\ Active(q) \ {j} \in SUBSET Jobs BY <1>1 DEF Active
  <1>7. Valid(r)
    <2>1. \A k \in Present(r) : JobValid(r[k])
      BY <1>1, <1>2, <1>4, StatusFacts DEF Kept, Valid
    <2>2. QED BY <1>4, <2>1 DEF Kept, Valid
  <1>8. Exclusive(r)
    <2>1. SUFFICES ASSUME NEW k \in Active(r), NEW m \in Active(r), k # m
                   PROVE  r[k].session # r[m].session /\ ~Conflict(Workspace[k], Workspace[m])
      BY DEF Exclusive
    <2>2. CASE k # j /\ m # j
      <3>1. k \in Active(q) /\ m \in Active(q) /\ r[k] = q[k] /\ r[m] = q[m]
        BY <1>2, <1>5, <1>6, <2>2
      <3>2. QED BY <2>1, <3>1 DEF Kept, Exclusive
    <2>3. CASE k = j
      <3>1. m \in Active(q) \ {j} /\ r[m] = q[m] BY <1>2, <1>5, <1>6, <2>1, <2>3
      <3>2. QED BY <1>2, <2>3, <3>1 DEF Conflict
    <2>4. CASE m = j
      <3>1. k \in Active(q) \ {j} /\ r[k] = q[k] BY <1>2, <1>5, <1>6, <2>1, <2>4
      <3>2. QED BY <1>2, <2>4, <3>1
    <2>5. QED BY <2>2, <2>3, <2>4
  <1>9. Cardinality(Active(r)) <= MaxActive
    <2>1. CASE j \in Active(q)
      <3>1. Active(r) = Active(q) BY <1>5, <2>1
      <3>2. QED BY <3>1 DEF Kept
    <2>2. CASE j \notin Active(q)
      <3>1. Cardinality(Active(r)) = Cardinality(Active(q) \ {j}) + 1
        BY <1>1, <1>5, <1>6, JobSets
      <3>2. Cardinality(Active(q) \ {j}) \in Nat BY <1>6, JobSets
      <3>3. QED BY <2>2, <3>1, <3>2, ConstantsAssumption
    <2>3. QED BY <2>1, <2>2
  <1>10. Kept(r) BY <1>2, <1>7, <1>8, <1>9 DEF Kept
  <1>11. QED BY <1>4, <1>10 DEF r

\* A new mission takes no lock.
LEMMA NewKept ==
  ASSUME NEW q, Kept(q), NEW j \in Jobs, q[j].status = "absent", NEW status \in QueueStatuses,
         Cardinality(Present(q)) < MaxJobs,
         j \in Bound => \A k \in Present(q) \cap Bound : Key[k] # Key[j]
  PROVE  /\ Kept(With(q, j, NewJob(status))) /\ With(q, j, NewJob(status))[j].attempt = 0
         /\ Queue(With(q, j, NewJob(status))) = Queue(q) \cup {j}
  <1> DEFINE job == NewJob(status)
             r == With(q, j, job)
  <1>1. q \in [Jobs -> JobType] BY DEF Kept
  <1>2. /\ job \in JobType /\ job.status = status /\ job.attempt = 0 /\ JobValid(job)
        /\ status \notin LockStatuses /\ status # "absent"
    <2>1. Cardinality(Jobs) \in Nat BY JobSets
    <2>2. /\ Absent \in JobType /\ Absent.attempt = 0 /\ ~Absent.finished /\ ~Absent.verified
      BY <2>1, ConstantsAssumption DEF Absent, JobType
    <2>3. status \in Statuses BY DEF QueueStatuses, Statuses
    <2>4. job \in JobType /\ job.status = status /\ job.attempt = 0 /\ ~job.finished /\ ~job.verified
      BY <2>2, <2>3 DEF NewJob, JobType
    <2>5. status \notin LockStatuses /\ status # "absent" /\ status \notin TerminalStatuses
          /\ status # "done"
      BY DEF QueueStatuses, LockStatuses, TerminalStatuses
    <2>6. JobValid(job) BY <2>4, <2>5 DEF JobValid
    <2>7. QED BY <2>4, <2>5, <2>6
  <1>3. r \in [Jobs -> JobType] /\ r[j] = job /\ \A k \in Jobs \ {j} : r[k] = q[k]
    BY <1>1, <1>2 DEF With
  <1> HIDE DEF r, job
  <1>4. Present(r) = Present(q) \cup {j} /\ j \notin Present(q)
    BY <1>1, <1>2, <1>3 DEF Present
  <1>5. Active(r) = Active(q)
    BY <1>1, <1>2, <1>3 DEF Active, LockStatuses
  <1>6. Queue(r) = Queue(q) \cup {j} BY <1>1, <1>2, <1>3 DEF Queue
  <1>7. j \notin Active(q) BY <1>1 DEF Active, LockStatuses
  <1>8. Valid(r)
    <2>1. \A k \in Present(r) : JobValid(r[k])
      BY <1>1, <1>2, <1>3, <1>4, StatusFacts DEF Kept, Valid
    <2>2. \A k, m \in Present(r) \cap Bound : Key[k] = Key[m] => k = m
      BY <1>4 DEF Kept, Valid
    <2>3. Cardinality(Present(r)) <= MaxJobs
      <3>1. Present(q) \in SUBSET Jobs BY <1>1, StatusFacts
      <3>2. Cardinality(Present(r)) = Cardinality(Present(q)) + 1 BY <1>4, <3>1, JobSets
      <3>3. Cardinality(Present(q)) \in Nat BY <3>1, JobSets
      <3>4. QED BY <3>2, <3>3, ConstantsAssumption
    <2>4. QED BY <2>1, <2>2, <2>3 DEF Valid
  <1>9. Exclusive(r)
    <2>1. \A k \in Active(q) : r[k] = q[k] BY <1>1, <1>3, <1>7, StatusFacts
    <2>2. QED BY <1>5, <2>1 DEF Kept, Exclusive
  <1>10. Kept(r) BY <1>3, <1>5, <1>8, <1>9 DEF Kept
  <1>11. QED BY <1>2, <1>3, <1>6, <1>10 DEF r, job

\* What is told of the attempts stays true of missions that keep theirs or lose them,
\* and of those of which it is known.
LEMMA EditTold ==
  ASSUME NEW q \in [Jobs -> JobType], NEW r \in [Jobs -> JobType],
         NEW d \in Nat, NEW ty, NEW en, Told(q, d, ty, en),
         \A j \in Jobs :
           \/ /\ r[j].attempt = q[j].attempt /\ (j \in Queue(r) => j \in Queue(q))
              /\ j \in Bound /\ r[j].status \in Handed => q[j].status \in Handed
           \/ r[j].attempt = 0 /\ ~(j \in Bound /\ r[j].status \in Handed)
           \/ /\ r[j].attempt <= d /\ r[j].attempt # 0
              /\ j \in Queue(r) => ty[r[j].attempt] = 0
              /\ j \in Bound /\ r[j].status \in Handed => en[r[j].attempt] = 1
  PROVE  Told(r, d, ty, en)
  <1>1. Bound \subseteq Jobs /\ Queue(r) \subseteq Jobs BY ConstantsAssumption DEF Queue
  <1>2. QED BY <1>1 DEF Told, Handed

\* A store in which no mission enters the queue is fit to be written, normalized or not.
LEMMA NormalFit ==
  ASSUME NEW q, NEW r, Kept(r), Apart(r, Queue(r)), Queue(r) \subseteq Queue(q),
         NEW d, NEW ty, NEW en, Told(r, d, ty, en)
  PROVE  Fit(q, r, d, ty, en) /\ Fit(q, Normalized(r), d, ty, en)
  <1>1. r \in [Jobs -> JobType] BY DEF Kept
  <1>2. Replaced(r, Normalized(r)) /\ Apart(Normalized(r), Queue(r)) BY <1>1, NormalizedFacts
  <1>3. /\ Active(Normalized(r)) = Active(r) /\ Queue(Normalized(r)) = Queue(r)
        /\ Valid(Normalized(r)) /\ Exclusive(Normalized(r)) /\ Told(Normalized(r), d, ty, en)
    BY <1>1, <1>2, ReplacedFacts DEF Kept
  <1>4. Fit(q, r, d, ty, en) BY DEF Fit, Sound, Kept, Enters
  <1>5. Fit(q, Normalized(r), d, ty, en)
    BY <1>2, <1>3 DEF Fit, Sound, Kept, Enters, Replaced
  <1>6. QED BY <1>4, <1>5

\* So is one in which a mission is placed by its priority.
LEMMA PlacedFit ==
  ASSUME NEW q, NEW r, Kept(r), NEW j \in Queue(r), Apart(r, Queue(r) \ {j}),
         Queue(r) \subseteq Queue(q) \cup {j},
         NEW d, NEW ty, NEW en, Told(r, d, ty, en)
  PROVE  Fit(q, Placed(r, j), d, ty, en) /\ Fit(q, Normalized(Placed(r, j)), d, ty, en)
  <1> DEFINE p == Placed(r, j)
             n == Normalized(p)
  <1>1. r \in [Jobs -> JobType] BY DEF Kept
  <1>2. /\ Replaced(r, p) /\ Apart(p, Queue(r))
        /\ \A k \in Queue(r) : Priority[k] < Priority[j] => p[j].pos < p[k].pos
    BY <1>1, PlacedFacts
  <1> HIDE DEF p
  <1>3. /\ Active(p) = Active(r) /\ Queue(p) = Queue(r) /\ p \in [Jobs -> JobType]
        /\ Valid(p) /\ Exclusive(p) /\ Told(p, d, ty, en)
    BY <1>1, <1>2, ReplacedFacts DEF Kept, Replaced
  <1>4. /\ Replaced(p, n) /\ Apart(n, Queue(p))
        /\ \A k, m \in Queue(p) : p[k].pos < p[m].pos => n[k].pos < n[m].pos
    BY <1>2, <1>3, NormalizedFacts
  <1> HIDE DEF n
  <1>5. /\ Active(n) = Active(p) /\ Queue(n) = Queue(p) /\ n \in [Jobs -> JobType]
        /\ Valid(n) /\ Exclusive(n) /\ Told(n, d, ty, en)
    BY <1>3, <1>4, ReplacedFacts DEF Replaced
  <1>6. Fit(q, p, d, ty, en) BY <1>2, <1>3 DEF Fit, Sound, Kept, Enters
  <1>7. \A k \in Queue(n) : Priority[k] < Priority[j] => n[j].pos < n[k].pos
    BY <1>2, <1>3, <1>4, <1>5
  <1>8. Fit(q, n, d, ty, en) BY <1>3, <1>4, <1>5, <1>7 DEF Fit, Sound, Kept, Enters
  <1>9. QED BY <1>6, <1>8 DEF n, p

--------------------------------------------------------------------------------
(* Requests.                                                                      *)

\* What is known of the store whenever something is done with it.
LEMMA StoreFacts ==
  ASSUME Inv
  PROVE  /\ mem \in [Jobs -> JobType] /\ disk \in [Jobs -> JobType] /\ Kept(mem)
         /\ drawn \in Nat /\ drawn \in 0..MaxAttempts /\ Told(mem, drawn, typed, entered)
         /\ Queue(mem) \subseteq Jobs /\ Apart(mem, Queue(mem))
         /\ \A j \in Present(mem) : JobValid(mem[j])
         /\ Fit(mem, mem, drawn, typed, entered)
  <1>1. TypeOK /\ Sound(mem) /\ Told(mem, drawn, typed, entered) BY DEF Inv, Stores
  <1>2. /\ mem \in [Jobs -> JobType] /\ disk \in [Jobs -> JobType] /\ drawn \in 0..MaxAttempts
        /\ drawn \in Nat
    <2>1. /\ mem \in [Jobs -> JobType] /\ disk \in [Jobs -> JobType]
          /\ drawn \in 0..MaxAttempts
      BY <1>1 DEF TypeOK
    <2>2. MaxAttempts \in Nat BY ConstantsAssumption
    <2>3. QED BY <2>1, <2>2
  <1>3. Kept(mem) /\ Apart(mem, Queue(mem)) BY <1>1 DEF Sound, Kept
  <1>4. \A j \in Present(mem) : JobValid(mem[j]) BY <1>3 DEF Kept, Valid
  <1>5. Queue(mem) \subseteq Jobs BY DEF Queue
  <1>6. Enters(mem, mem) BY DEF Enters
  <1>7. QED BY <1>1, <1>2, <1>3, <1>4, <1>5, <1>6 DEF Fit

\* Where a step puts the missions that enter the queue.
LEMMA EntersStep == ASSUME mem' = mem \/ Enters(mem, mem') PROVE EntersInOrder
  <1>1. CASE mem' = mem
    <2>1. Queue(mem') = Queue(mem) BY <1>1
    <2>2. QED BY <2>1 DEF EntersInOrder
  <1>2. CASE Enters(mem, mem') BY <1>2 DEF Enters, EntersInOrder
  <1>3. QED BY <1>1, <1>2

\* A fit store may be written, and the write may throw.
LEMMA PersistStep ==
  ASSUME Inv, NEW r, Persist(r), Fit(mem, r, drawn', typed', entered'),
         Told(mem, drawn', typed', entered'), Told(disk, drawn', typed', entered')
  PROVE  Stores' /\ mem' \in [Jobs -> JobType] /\ disk' \in [Jobs -> JobType]
         /\ faults' \in 0..MaxFaults /\ EntersInOrder
  <1>1. CASE Written(r)
    <2>1. mem' = r /\ disk' = r /\ faults' = faults BY <1>1 DEF Written
    <2>2. Sound(r) /\ Told(r, drawn', typed', entered') /\ Enters(mem, r) BY DEF Fit
    <2>3. EntersInOrder BY <2>1, <2>2, EntersStep
    <2>4. Enters(r, r) BY DEF Enters
    <2>5. Stores' BY <2>1, <2>2, <2>4 DEF Stores
    <2>6. QED BY <2>1, <2>2, <2>3, <2>5 DEF Sound, Inv, TypeOK
  <1>2. CASE WriteThrows(r)
    <2>1. mem' = mem /\ disk' \in {disk, r} /\ faults < MaxFaults /\ faults' = faults + 1
      BY <1>2 DEF WriteThrows
    <2>2. faults' \in 0..MaxFaults
      <3>1. faults \in 0..MaxFaults BY DEF Inv, TypeOK
      <3>2. MaxFaults \in Nat BY ConstantsAssumption
      <3>3. QED BY <2>1, <3>1, <3>2
    <2>6. Sound(mem) /\ Sound(disk) /\ Enters(mem, disk) /\ mem \in [Jobs -> JobType]
          /\ disk \in [Jobs -> JobType]
      BY DEF Inv, Stores, Sound
    <2>3. CASE disk' = disk BY <2>1, <2>2, <2>3, <2>6, EntersStep DEF Stores
    <2>4. CASE disk' = r
      <3>1. Sound(r) /\ Enters(mem, r) /\ Told(r, drawn', typed', entered') BY DEF Fit
      <3>2. r \in [Jobs -> JobType] BY <3>1 DEF Sound
      <3>3. QED BY <2>1, <2>2, <2>4, <2>6, <3>1, <3>2, EntersStep DEF Stores
    <2>5. QED BY <2>1, <2>3, <2>4, <2>2
  <1>3. QED BY <1>1, <1>2 DEF Persist

\* A request that writes a fit store keeps the invariant.
LEMMA RequestStep ==
  ASSUME Inv, Serving, NEW r, Persist(r), Fit(mem, r, drawn, typed, entered),
         UNCHANGED <<pane, up, opVars, sample, obs, inputs, crashes>>
  PROVE  Inv' /\ EntersInOrder
  <1>1. Stores' /\ mem' \in [Jobs -> JobType] /\ disk' \in [Jobs -> JobType]
        /\ faults' \in 0..MaxFaults /\ EntersInOrder
    BY PersistStep DEF inputs, Inv, Stores
  <1>2. TypeOK' BY <1>1 DEF Inv, TypeOK, opVars, inputs
  <1>3. Holds' BY DEF Serving, opVars, Holds, Delivering
  <1>4. Undrawn' BY DEF Inv, Undrawn, inputs
  <1>5. QED BY <1>1, <1>2, <1>3, <1>4 DEF Inv

\* A mission is created, by the operator or for a binding key.
LEMMA CreateKeeps ==
  ASSUME Inv, NEW j \in Jobs, Create(j) \/ EnsureDelivery(j)
  PROVE  Inv' /\ EntersInOrder
  <1>1. PICK status \in QueueStatuses : Persist(Placed(With(mem, j, NewJob(status)), j))
    BY DEF Create, EnsureDelivery, QueueStatuses
  <1> DEFINE r == With(mem, j, NewJob(status))
  <1>2. /\ Serving /\ mem[j].status = "absent" /\ Cardinality(Present(mem)) < MaxJobs
        /\ j \in Bound => \A k \in Present(mem) \cap Bound : Key[k] # Key[j]
        /\ UNCHANGED <<pane, up, opVars, sample, obs, inputs, crashes>>
    BY DEF Create, EnsureDelivery, watch
  <1>3. /\ Kept(r) /\ r[j].attempt = 0 /\ Queue(r) = Queue(mem) \cup {j}
    BY <1>2, StoreFacts, NewKept
  <1>4. r \in [Jobs -> JobType] /\ \A k \in Jobs \ {j} : r[k] = mem[k]
    BY <1>3, StoreFacts DEF With, Kept
  <1>5. r[j].status \in QueueStatuses BY <1>3, <1>4, StatusFacts
  <1> HIDE DEF r
  <1>6. Apart(r, Queue(r) \ {j}) BY <1>3, <1>4, StoreFacts DEF Apart
  <1>7. Told(r, drawn, typed, entered)
    <2>1. \A k \in Jobs :
            \/ /\ r[k].attempt = mem[k].attempt /\ (k \in Queue(r) => k \in Queue(mem))
               /\ k \in Bound /\ r[k].status \in Handed => mem[k].status \in Handed
            \/ r[k].attempt = 0 /\ ~(k \in Bound /\ r[k].status \in Handed)
      BY <1>3, <1>4, <1>5 DEF Handed, QueueStatuses
    <2>2. QED BY <1>4, <2>1, StoreFacts, EditTold
  <1>8. Fit(mem, Placed(r, j), drawn, typed, entered)
    BY <1>3, <1>6, <1>7, PlacedFit
  <1>9. QED BY <1>1, <1>2, <1>8, RequestStep DEF r

\* transitionMission's fields, by where the mission goes.
LEMMA MovedFacts ==
  ASSUME NEW job \in JobType, job.status # "absent", JobValid(job),
         NEW to \in Transitions[job.status]
  PROVE  /\ Moved(job, to) \in JobType /\ Moved(job, to).status = to /\ to # "absent"
         /\ JobValid(Moved(job, to)) /\ Moved(job, to).pos = job.pos
         /\ to \in LockStatuses => /\ job.status \in LockStatuses
                                   /\ Moved(job, to).session = job.session
         /\ Moved(job, to).attempt = IF to = "ready" THEN 0 ELSE job.attempt
         /\ to \in QueueStatuses => to = "ready" \/ job.status = "ready"
  <1>1. /\ to \in Statuses /\ to # "dispatching"
        /\ to \in LockStatuses => job.status \in LockStatuses
        /\ to = "backlog" => job.status = "ready"
    BY DEF Transitions, JobType, Statuses, LockStatuses
  <1>2. /\ to \in QueueStatuses => to \in {"ready", "backlog"}
        /\ to # "absent" /\ (to \in TerminalStatuses => to \notin LockStatuses)
        /\ "ready" \notin LockStatuses /\ "ready" \notin TerminalStatuses
        /\ "done" \in TerminalStatuses
    BY <1>1 DEF Statuses, QueueStatuses, TerminalStatuses, LockStatuses
  <1> DEFINE verified == (to = "done")
             finished == (to \in TerminalStatuses)
             outcome == IF to \in TerminalStatuses THEN to ELSE job.outcome
             kept == [job EXCEPT !.status = to, !.verified = verified,
                                 !.finished = finished, !.outcome = outcome]
  <1>3. /\ kept \in JobType /\ kept.status = to /\ kept.pos = job.pos
        /\ kept.session = job.session /\ kept.attempt = job.attempt
        /\ kept.verified = (to = "done") /\ kept.finished = (to \in TerminalStatuses)
        /\ to \in TerminalStatuses => kept.outcome = to
    <2>1. /\ verified \in BOOLEAN /\ finished \in BOOLEAN
          /\ outcome \in TerminalStatuses \cup {None}
      BY DEF JobType
    <2>2. to \in TerminalStatuses => outcome = to OBVIOUS
    <2> SUFFICES /\ kept \in JobType /\ kept.status = to /\ kept.pos = job.pos
                 /\ kept.session = job.session /\ kept.attempt = job.attempt
                 /\ kept.verified = verified /\ kept.finished = finished
                 /\ kept.outcome = outcome
      BY <2>2
    <2> HIDE DEF verified, finished, outcome
    <2>3. QED BY <1>1, <2>1 DEF JobType
  <1>4. Moved(job, to) = IF to = "ready"
                           THEN [kept EXCEPT !.session = None, !.gen = 0, !.attempt = 0,
                                             !.adopted = FALSE]
                           ELSE kept
    BY DEF Moved
  <1> HIDE DEF kept
  <1>5. CASE to = "ready"
    <2>1. /\ Moved(job, to) \in JobType /\ Moved(job, to).status = to
          /\ Moved(job, to).pos = job.pos /\ Moved(job, to).attempt = 0
          /\ Moved(job, to).verified = kept.verified /\ Moved(job, to).finished = kept.finished
      <3>1. 0 \in 0..MaxGen /\ 0 \in 0..MaxAttempts /\ None \in Sessions \cup {None}
        BY ConstantsAssumption
      <3>2. Moved(job, to) = [kept EXCEPT !.session = None, !.gen = 0, !.attempt = 0,
                                          !.adopted = FALSE]
        BY <1>4, <1>5
      <3>3. kept \in JobType /\ kept.status = to /\ kept.pos = job.pos BY <1>3
      <3>4. /\ Moved(job, to).status = kept.status /\ Moved(job, to).pos = kept.pos
            /\ Moved(job, to).attempt = 0
            /\ Moved(job, to).verified = kept.verified
            /\ Moved(job, to).finished = kept.finished
        BY <3>2, <3>3 DEF JobType
      <3>5. Moved(job, to) \in JobType BY <3>1, <3>2, <3>3 DEF JobType
      <3>6. QED BY <3>3, <3>4, <3>5
    <2>2. JobValid(Moved(job, to)) BY <1>2, <1>3, <1>5, <2>1 DEF JobValid
    <2>3. QED BY <1>1, <1>2, <1>5, <2>1, <2>2
  <1>6. CASE to # "ready"
    <2>1. to \in LockStatuses => job.session # None BY <1>1 DEF JobValid
    <2>2. JobValid(kept) BY <1>2, <1>3, <2>1 DEF JobValid
    <2>3. QED BY <1>1, <1>2, <1>3, <1>4, <1>6, <2>2
  <1>7. QED BY <1>5, <1>6

\* The missions in S moved, the others as they are.
MovedAll(S, to) == [j \in Jobs |-> IF j \in S THEN Moved(mem[j], to) ELSE mem[j]]

\* The missions in S may all be moved there.
MayMove(S, to) ==
  /\ S \subseteq Present(mem) /\ \A j \in S : to \in Transitions[mem[j].status]
  /\ \A j \in S \cap Bound : to \in Handed => mem[j].status \in Handed

\* Missions move between their statuses, and no lock is taken.
LEMMA MovesKept ==
  ASSUME Inv, NEW S, NEW to, MayMove(S, to), NEW r, r = MovedAll(S, to)
  PROVE  /\ Kept(r) /\ Told(r, drawn, typed, entered)
         /\ to # "ready" => Queue(r) \subseteq Queue(mem)
         /\ Queue(r) \subseteq Queue(mem) \cup S
         /\ to = "ready" => S \subseteq Queue(r)
         /\ \A j \in Jobs : r[j].pos = mem[j].pos
  <1>1. /\ mem \in [Jobs -> JobType] /\ Kept(mem) /\ S \subseteq Jobs /\ drawn \in Nat
        /\ Told(mem, drawn, typed, entered)
    BY StoreFacts, StatusFacts DEF MayMove
  <1>2. \A j \in S : /\ r[j] \in JobType /\ r[j].status = to /\ to # "absent" /\ JobValid(r[j])
                     /\ r[j].pos = mem[j].pos
                     /\ to \in LockStatuses => /\ mem[j].status \in LockStatuses
                                               /\ r[j].session = mem[j].session
                     /\ r[j].attempt = IF to = "ready" THEN 0 ELSE mem[j].attempt
                     /\ to \in QueueStatuses => to = "ready" \/ mem[j].status = "ready"
    <2>1. \A j \in S : mem[j] \in JobType /\ mem[j].status # "absent" /\ JobValid(mem[j])
                       /\ r[j] = Moved(mem[j], to)
      BY <1>1, StatusFacts, StoreFacts DEF MovedAll, MayMove
    <2>2. QED BY <2>1, MovedFacts DEF MayMove
  <1>3. \A j \in Jobs \ S : r[j] = mem[j] BY DEF MovedAll
  <1>4. r \in [Jobs -> JobType]
    <2>1. r = [j \in Jobs |-> r[j]] BY DEF MovedAll
    <2>2. \A j \in Jobs : r[j] \in JobType BY <1>1, <1>2, <1>3
    <2>3. QED BY <2>1, <2>2
  <1>5. Present(r) = Present(mem)
    <2>1. \A j \in Jobs : j \in Present(r) <=> j \in Present(mem)
      BY <1>2, <1>3, <1>1 DEF Present, MayMove
    <2>2. QED BY <2>1 DEF Present
  <1>6. \A j \in Active(r) : j \in Active(mem) /\ r[j].session = mem[j].session
    BY <1>2, <1>3 DEF Active
  <1>7. Kept(r)
    <2>1. \A j \in Present(mem) : Alike(mem[j], r[j]) \/ JobValid(r[j])
      BY <1>1, <1>2, <1>3, StatusFacts DEF Alike
    <2>2. QED BY <1>1, <1>4, <1>5, <1>6, <2>1, EditKept
  <1>8. /\ to # "ready" => Queue(r) \subseteq Queue(mem)
        /\ Queue(r) \subseteq Queue(mem) \cup S
        /\ to = "ready" => S \subseteq Queue(r)
    <2>1. "ready" \in QueueStatuses BY DEF QueueStatuses
    <2>2. \A j \in S : mem[j].status = "ready" => j \in Queue(mem)
      BY <1>1, <2>1 DEF Queue
    <2>3. \A j \in Queue(r) : j \in Queue(mem) \/ (j \in S /\ to = "ready")
      BY <1>2, <1>3, <2>2 DEF Queue
    <2>4. to = "ready" => S \subseteq Queue(r) BY <1>1, <1>2, <2>1 DEF Queue
    <2>5. QED BY <2>3, <2>4
  <1>9. Told(r, drawn, typed, entered)
    <2>1. "ready" \notin Handed BY DEF Handed
    <2>2. \A j \in Jobs :
            \/ /\ r[j].attempt = mem[j].attempt /\ (j \in Queue(r) => j \in Queue(mem))
               /\ j \in Bound /\ r[j].status \in Handed => mem[j].status \in Handed
            \/ r[j].attempt = 0 /\ ~(j \in Bound /\ r[j].status \in Handed)
      <3>1. CASE to = "ready" BY <1>2, <1>3, <1>4, <1>8, <2>1, <3>1, StatusFacts, <1>1
      <3>2. CASE to # "ready" BY <1>2, <1>3, <1>8, <3>2 DEF MayMove
      <3>3. QED BY <3>1, <3>2
    <2>3. QED BY <1>1, <1>4, <2>2, EditTold
  <1>10. QED BY <1>2, <1>3, <1>7, <1>8, <1>9

\* One mission moves.
LEMMA TransitionFit ==
  ASSUME Inv, NEW j \in Jobs, mem[j].status # "absent", NEW to \in Transitions[mem[j].status],
         j \in Bound => to \notin Handed \/ mem[j].status \in Handed
  PROVE  LET r == With(mem, j, Moved(mem[j], to))
         IN Fit(mem, Normalized(IF to = "ready" THEN Placed(r, j) ELSE r), drawn, typed, entered)
  <1> DEFINE r == With(mem, j, Moved(mem[j], to))
  <1> DEFINE S == {j}
  <1>1. r = MovedAll(S, to) BY StoreFacts DEF With, MovedAll
  <1>2. MayMove(S, to) BY DEF Present, MayMove
  <1>3. S = {j} OBVIOUS
  <1> HIDE DEF r, S
  <1>4. /\ Kept(r) /\ Told(r, drawn, typed, entered)
        /\ to # "ready" => Queue(r) \subseteq Queue(mem)
        /\ Queue(r) \subseteq Queue(mem) \cup {j}
        /\ to = "ready" => j \in Queue(r)
        /\ \A k \in Jobs : r[k].pos = mem[k].pos
    <2>1. /\ Kept(r) /\ Told(r, drawn, typed, entered)
          /\ to # "ready" => Queue(r) \subseteq Queue(mem)
          /\ Queue(r) \subseteq Queue(mem) \cup S
          /\ to = "ready" => S \subseteq Queue(r)
          /\ \A k \in Jobs : r[k].pos = mem[k].pos
      BY <1>1, <1>2, MovesKept
    <2>2. QED BY <1>3, <2>1
  <1>5. Queue(mem) \subseteq Jobs /\ Apart(mem, Queue(mem)) BY StoreFacts
  <1>6. Apart(r, Queue(r) \ {j}) BY <1>4, <1>5 DEF Apart
  <1>7. CASE to = "ready"
    <2>1. Fit(mem, Normalized(Placed(r, j)), drawn, typed, entered)
      BY <1>4, <1>6, <1>7, PlacedFit
    <2>2. QED BY <1>7, <2>1 DEF r
  <1>8. CASE to # "ready"
    <2>1. Apart(r, Queue(r)) BY <1>4, <1>5, <1>8 DEF Apart
    <2>2. Fit(mem, Normalized(r), drawn, typed, entered)
      BY <1>4, <1>8, <2>1, NormalFit
    <2>3. QED BY <1>8, <2>2 DEF r
  <1>9. QED BY <1>7, <1>8

\* The operator moves a mission.
LEMMA TransitionKeeps ==
  ASSUME Inv, NEW j \in Jobs, NEW to \in Statuses, Transition(j, to)
  PROVE  Inv' /\ EntersInOrder
  <1> DEFINE r == With(mem, j, Moved(mem[j], to))
             n == Normalized(IF to = "ready" THEN Placed(r, j) ELSE r)
  <1>1. /\ Serving /\ mem[j].status # "absent" /\ to \in Transitions[mem[j].status]
        /\ j \notin Bound /\ Persist(n)
        /\ UNCHANGED <<pane, up, opVars, sample, obs, inputs, crashes>>
    BY DEF Transition
  <1>2. Fit(mem, n, drawn, typed, entered) BY <1>1, TransitionFit
  <1> HIDE DEF n
  <1>3. QED BY <1>1, <1>2, RequestStep

\* A Delivery Run ends its mission.
LEMMA FinalizeKeeps ==
  ASSUME Inv, NEW j \in Jobs, NEW to \in {"done", "failed"}, FinalizeDelivery(j, to)
  PROVE  Inv' /\ EntersInOrder
  <1> DEFINE n == Normalized(With(mem, j, Moved(mem[j], to)))
  <1>1. /\ Serving /\ mem[j].status = "verifying" /\ Persist(n)
        /\ UNCHANGED <<pane, up, opVars, sample, obs, inputs, crashes>>
    BY DEF FinalizeDelivery
  <1>2. to \in Transitions[mem[j].status] /\ mem[j].status \in Handed /\ to # "ready"
    BY <1>1 DEF Transitions, Handed
  <1>3. mem[j].status # "absent" BY <1>1
  <1>4. Fit(mem, n, drawn, typed, entered) BY <1>2, <1>3, TransitionFit
  <1> HIDE DEF n
  <1>5. QED BY <1>1, <1>4, RequestStep

\* A Delivery Run gives up all its missions.
LEMMA AbortKeeps ==
  ASSUME Inv, NEW x \in Bound, AbortDelivery(Run[x])
  PROVE  Inv' /\ EntersInOrder
  <1> DEFINE open == {j \in Present(mem) \cap Bound :
                        Run[j] = Run[x] /\ mem[j].status \notin TerminalStatuses}
             r == [j \in Jobs |-> IF j \in open THEN Moved(mem[j], "canceled") ELSE mem[j]]
  <1>1. /\ Serving /\ Persist(Normalized(r))
        /\ \A j \in open : mem[j].status \in {"ready", "verifying"}
        /\ UNCHANGED <<pane, up, opVars, sample, obs, inputs, crashes>>
    <2>1. {j \in {k \in Present(mem) \cap Bound : Run[k] = Run[x]} :
             mem[j].status \notin TerminalStatuses} = open
      OBVIOUS
    <2> HIDE DEF open
    <2>2. QED BY <2>1 DEF AbortDelivery
  <1>2. \A j \in open : "canceled" \in Transitions[mem[j].status] BY <1>1 DEF Transitions
  <1>3. MayMove(open, "canceled") /\ "canceled" # "ready" BY <1>2 DEF Handed, MayMove
  <1>4. r = MovedAll(open, "canceled") BY DEF MovedAll
  <1> HIDE DEF open, r
  <1>5. /\ Kept(r) /\ Told(r, drawn, typed, entered) /\ Queue(r) \subseteq Queue(mem)
        /\ \A j \in Jobs : r[j].pos = mem[j].pos
    BY <1>3, <1>4, MovesKept
  <1>6. Apart(r, Queue(r)) BY <1>5, StoreFacts DEF Apart
  <1>7. Fit(mem, Normalized(r), drawn, typed, entered) BY <1>5, <1>6, NormalFit
  <1>8. QED BY <1>1, <1>7, RequestStep

\* Two neighbours change places.
LEMMA MoveKeeps ==
  ASSUME Inv, NEW j \in Jobs, NEW k \in Jobs, Move(j, k)
  PROVE  Inv' /\ EntersInOrder
  <1> DEFINE r == [mem EXCEPT ![j].pos = mem[k].pos, ![k].pos = mem[j].pos]
  <1>1. /\ Serving /\ j \in Queue(mem) /\ k \in Queue(mem) /\ k # j /\ Persist(r)
        /\ UNCHANGED <<pane, up, opVars, sample, obs, inputs, crashes>>
    BY DEF Move, watch
  <1>2. \A m \in Jobs : mem[m] \in JobType /\ mem[m].pos \in 0..Cardinality(Jobs)
    <2>1. Cardinality(Jobs) \in Nat BY JobSets
    <2>2. QED BY <2>1, StoreFacts DEF JobType
  <1>3. /\ r \in [Jobs -> JobType]
        /\ \A m \in Jobs : Alike(mem[m], r[m])
        /\ r[j].pos = mem[k].pos /\ r[k].pos = mem[j].pos
        /\ \A m \in Jobs \ {j, k} : r[m].pos = mem[m].pos
    <2>1. mem \in [Jobs -> JobType] BY StoreFacts
    <2>2. /\ r[j] = [mem[j] EXCEPT !.pos = mem[k].pos]
          /\ r[k] = [mem[k] EXCEPT !.pos = mem[j].pos]
          /\ \A m \in Jobs \ {j, k} : r[m] = mem[m]
          /\ r = [m \in Jobs |-> r[m]]
      BY <1>1, <2>1
    <2> HIDE DEF r
    <2>3. /\ r[j] \in JobType /\ Alike(mem[j], r[j]) /\ r[j].pos = mem[k].pos
          /\ r[k] \in JobType /\ Alike(mem[k], r[k]) /\ r[k].pos = mem[j].pos
      BY <1>2, <2>2, PosFacts
    <2>4. \A m \in Jobs \ {j, k} : r[m] \in JobType /\ Alike(mem[m], r[m]) /\ r[m].pos = mem[m].pos
      BY <1>2, <2>2 DEF Alike
    <2>5. QED BY <2>2, <2>3, <2>4
  <1> HIDE DEF r
  <1>4. Replaced(mem, r) BY <1>3 DEF Replaced
  <1>5. mem \in [Jobs -> JobType] BY StoreFacts
  <1>6. /\ Active(r) = Active(mem) /\ Queue(r) = Queue(mem) /\ Valid(r) /\ Exclusive(r)
        /\ Told(r, drawn, typed, entered)
    BY <1>4, <1>5, ReplacedFacts, StoreFacts DEF Kept
  <1>7. Kept(r) BY <1>3, <1>6, StoreFacts DEF Kept
  <1>8. Apart(r, Queue(r))
    <2>1. Queue(mem) \subseteq Jobs /\ Apart(mem, Queue(mem)) BY StoreFacts
    <2>2. QED BY <1>1, <1>3, <1>6, <2>1 DEF Apart
  <1>9. Fit(mem, r, drawn, typed, entered) BY <1>6, <1>7, <1>8, NormalFit
  <1>10. QED BY <1>1, <1>9, RequestStep

--------------------------------------------------------------------------------
(* Adoption and dispatch.                                                         *)

\* A step that writes nothing and types nothing.
LEMMA StillStep ==
  ASSUME Inv, UNCHANGED <<mem, disk, faults, drawn, typed, entered>>
  PROVE  Stores' /\ Undrawn' /\ EntersInOrder
  BY EntersStep DEF Inv, Stores, Undrawn

\* The operation that holds the queue is done.
LEMMA IdleHolds == ASSUME up', phase' = "idle" PROVE Holds'
  BY DEF Holds, Delivering

\* The terminal of a session.
LEMMA PaneFacts ==
  ASSUME Inv, NEW s \in Sessions
  PROVE  pane[s] \in PaneType /\ [session |-> s, gen |-> pane[s].gen]
                                    \in [session: Sessions \cup {None}, gen: 0..MaxGen]
  <1>1. pane \in [Sessions -> PaneType] BY DEF Inv, TypeOK
  <1>2. pane[s] \in PaneType BY <1>1
  <1>3. pane[s].gen \in 1..MaxGen BY <1>2 DEF PaneType
  <1>4. MaxGen \in Nat BY ConstantsAssumption
  <1>5. pane[s].gen \in 0..MaxGen BY <1>3, <1>4
  <1>6. QED BY <1>2, <1>5

\* The checks of an adoption and of a dispatch hold until the queue is left.
LEMMA CheckKeeps ==
  ASSUME Inv, NEW j \in Jobs, NEW s \in Sessions, AdoptCheck(j, s) \/ Reserve(j, s)
  PROVE  Inv' /\ EntersInOrder
  <1>1. /\ UNCHANGED <<mem, disk, faults, pane, up, out, sample, obs, drawn, typed, entered, crashes>>
        /\ phase' \in {"adopt", "reserve"} /\ cur' = j
        /\ tgt' = [session |-> s, gen |-> pane[s].gen] /\ up
    BY DEF AdoptCheck, Reserve, Serving, store, watch, inputs
  <1>2. Stores' /\ Undrawn' /\ EntersInOrder BY <1>1, StillStep
  <1>3. tgt' \in [session: Sessions \cup {None}, gen: 0..MaxGen] BY <1>1, PaneFacts
  <1>4. TypeOK' BY <1>1, <1>3 DEF Inv, TypeOK
  <1>5. Holds'
    <2>1. tgt'.session = s BY <1>1
    <2>2. /\ Free(j, s) /\ (mem[j].status = "ready" => Room(j))
          /\ phase' = "adopt" => j \notin Bound /\ mem[j].status \in {"ready", "needs_you"}
          /\ phase' = "reserve" => mem[j].status = "ready"
      BY DEF AdoptCheck, Reserve
    <2>3. QED BY <1>1, <2>1, <2>2 DEF Holds, Delivering, Free, Room
  <1>6. QED BY <1>2, <1>4, <1>5 DEF Inv

\* A check that fails ends the operation.
LEMMA WithdrawKeeps == ASSUME Inv, Withdraw PROVE Inv' /\ EntersInOrder
  <1>1. /\ UNCHANGED <<mem, disk, faults, pane, up, out, sample, obs, drawn, typed, entered, crashes>>
        /\ phase' = "idle" /\ cur' = None /\ tgt' = NoTarget /\ up
    BY DEF Withdraw, store, watch, inputs
  <1>2. NoTarget \in [session: Sessions \cup {None}, gen: 0..MaxGen]
    BY ConstantsAssumption DEF NoTarget
  <1>3. TypeOK' BY <1>1, <1>2 DEF Inv, TypeOK
  <1>4. QED BY <1>1, <1>3, StillStep, IdleHolds DEF Inv

\* A mission takes the worker it was checked for, with a new attempt.
LEMMA TakeFit ==
  ASSUME Inv, phase \in {"adopt", "reserve"}, drawn < MaxAttempts,
         NEW job \in JobType, job.status \in LockStatuses, JobValid(job),
         job.session = tgt.session, job.attempt = drawn + 1, job.pos = mem[cur].pos,
         ~(cur \in Bound /\ job.status \in Handed)
  PROVE  /\ Fit(mem, With(mem, cur, job), drawn + 1, typed, entered)
         /\ Fit(mem, Normalized(With(mem, cur, job)), drawn + 1, typed, entered)
         /\ Told(mem, drawn + 1, typed, entered) /\ Told(disk, drawn + 1, typed, entered)
         /\ drawn + 1 \in 0..MaxAttempts
  <1> DEFINE r == With(mem, cur, job)
  <1>1. /\ cur \in Jobs /\ tgt.session \in Sessions /\ Free(cur, tgt.session)
        /\ mem[cur].status = "ready" => Room(cur)
        /\ mem[cur].status \in {"ready", "needs_you"}
    BY DEF Inv, Holds
  <1>2. /\ mem \in [Jobs -> JobType] /\ disk \in [Jobs -> JobType] /\ Kept(mem)
        /\ drawn \in Nat /\ Told(mem, drawn, typed, entered)
        /\ Queue(mem) \subseteq Jobs /\ Apart(mem, Queue(mem))
    BY StoreFacts
  <1>3. cur \in Present(mem) /\ (cur \notin Active(mem) => mem[cur].status = "ready")
    BY <1>1 DEF Present, Active, LockStatuses
  <1>4. Kept(r) /\ Present(r) = Present(mem)
    <2>1. \A k \in Active(mem) \ {cur} :
            ~Conflict(Workspace[k], Workspace[cur]) /\ mem[k].session # tgt.session
      BY <1>1 DEF Free
    <2>2. cur \notin Active(mem) => Cardinality(Active(mem) \ {cur}) < MaxActive
      BY <1>1, <1>3 DEF Room
    <2>3. QED BY <1>2, <1>3, <2>1, <2>2, TakeKept
  <1>5. r \in [Jobs -> JobType] /\ r[cur] = job /\ \A k \in Jobs \ {cur} : r[k] = mem[k]
    BY <1>1, <1>2 DEF With
  <1> HIDE DEF r
  <1>6. Queue(r) \subseteq Queue(mem) /\ cur \notin Queue(r)
    <2>1. job.status \notin QueueStatuses BY DEF LockStatuses, QueueStatuses
    <2>2. QED BY <1>5, <2>1 DEF Queue
  <1>7. Apart(r, Queue(r)) BY <1>2, <1>5, <1>6 DEF Apart
  <1>8. ASSUME NEW q \in [Jobs -> JobType], Told(q, drawn, typed, entered)
        PROVE  Told(q, drawn + 1, typed, entered)
    <2>1. \A k \in Jobs : q[k].attempt \in Nat
      <3>1. MaxAttempts \in Nat BY ConstantsAssumption
      <3>2. QED BY <3>1 DEF JobType
    <2>2. QED BY <1>2, <1>8, <2>1 DEF Told
  <1>9. Told(disk, drawn, typed, entered) BY DEF Inv, Stores
  <1>10. Told(r, drawn + 1, typed, entered)
    <2>1. \A k \in Jobs :
            \/ /\ r[k].attempt = mem[k].attempt /\ (k \in Queue(r) => k \in Queue(mem))
               /\ k \in Bound /\ r[k].status \in Handed => mem[k].status \in Handed
            \/ /\ r[k].attempt <= drawn + 1 /\ r[k].attempt # 0
               /\ k \in Queue(r) => typed[r[k].attempt] = 0
               /\ k \in Bound /\ r[k].status \in Handed => entered[r[k].attempt] = 1
      <3>1. drawn + 1 <= drawn + 1 /\ drawn + 1 # 0 BY <1>2
      <3>2. QED BY <1>5, <1>6, <3>1
    <2>2. drawn + 1 \in Nat BY <1>2
    <2>3. QED BY <1>2, <1>5, <1>8, <2>1, <2>2, EditTold
  <1>11. Fit(mem, r, drawn + 1, typed, entered) /\ Fit(mem, Normalized(r), drawn + 1, typed, entered)
    BY <1>4, <1>6, <1>7, <1>10, NormalFit
  <1>12. drawn + 1 \in 0..MaxAttempts
    <2>1. MaxAttempts \in Nat BY ConstantsAssumption
    <2>2. QED BY <1>2, <2>1
  <1>13. QED BY <1>2, <1>8, <1>9, <1>11, <1>12 DEF r

\* The next attempt has typed nothing yet.
LEMMA DrawStep ==
  ASSUME Inv, drawn' = drawn + 1, UNCHANGED <<typed, entered>>
  PROVE  Undrawn'
  <1>1. drawn \in Nat BY StoreFacts
  <1>2. MaxAttempts \in Nat BY ConstantsAssumption
  <1>3. \A n \in Attempts : n \in Nat BY <1>2 DEF Attempts
  <1>4. QED BY <1>1, <1>3 DEF Inv, Undrawn

\* The adopted mission runs.
LEMMA AdoptCommitKeeps == ASSUME Inv, AdoptCommit PROVE Inv' /\ EntersInOrder
  <1> DEFINE job == [mem[cur] EXCEPT !.status = "running", !.session = tgt.session,
                                     !.gen = tgt.gen, !.attempt = drawn + 1,
                                     !.adopted = TRUE, !.finished = FALSE]
             n == Normalized(With(mem, cur, job))
  <1>1. /\ up /\ phase = "adopt" /\ drawn < MaxAttempts /\ drawn' = drawn + 1 /\ Persist(n)
        /\ phase' = "idle" /\ cur' = None /\ tgt' = NoTarget
        /\ UNCHANGED <<pane, up, out, sample, obs, typed, entered, crashes>>
    BY DEF AdoptCommit
  <1>2. /\ cur \in Jobs /\ cur \notin Bound /\ mem[cur].status \in {"ready", "needs_you"}
        /\ tgt.session \in Sessions /\ tgt.gen \in 0..MaxGen
        /\ mem[cur] \in JobType /\ drawn \in Nat
    BY <1>1, StoreFacts DEF Inv, Holds, TypeOK
  <1>3. JobValid(mem[cur])
    <2>1. cur \in Present(mem) BY <1>2 DEF Present
    <2>2. QED BY <2>1, StoreFacts
  <1>4. drawn + 1 \in 0..MaxAttempts
    <2>1. MaxAttempts \in Nat BY ConstantsAssumption
    <2>2. QED BY <1>1, <1>2, <2>1
  <1>5. /\ job \in JobType /\ job.status = "running" /\ job.session = tgt.session
        /\ job.attempt = drawn + 1 /\ job.pos = mem[cur].pos /\ ~job.finished
        /\ job.verified = mem[cur].verified
    <2>1. tgt.session \in Sessions \cup {None} /\ "running" \in Statuses \cup {"absent"}
      BY <1>2 DEF Statuses
    <2>2. QED BY <1>2, <1>4, <2>1 DEF JobType
  <1> HIDE DEF job
  <1>6. JobValid(job)
    <2>1. job.session # None BY <1>2, <1>5, ConstantsAssumption
    <2>2. ~mem[cur].verified BY <1>2, <1>3 DEF JobValid
    <2>3. QED BY <1>5, <2>1, <2>2 DEF JobValid, TerminalStatuses
  <1>7. job.status \in LockStatuses BY <1>5 DEF LockStatuses
  <1>8. /\ Fit(mem, n, drawn + 1, typed, entered)
        /\ Told(mem, drawn + 1, typed, entered) /\ Told(disk, drawn + 1, typed, entered)
    BY <1>1, <1>2, <1>5, <1>6, <1>7, TakeFit
  <1> HIDE DEF n
  <1>9. Stores' /\ mem' \in [Jobs -> JobType] /\ disk' \in [Jobs -> JobType]
        /\ faults' \in 0..MaxFaults /\ EntersInOrder
    BY <1>1, <1>8, PersistStep
  <1>10. NoTarget \in [session: Sessions \cup {None}, gen: 0..MaxGen]
    BY ConstantsAssumption DEF NoTarget
  <1>11. TypeOK' BY <1>1, <1>4, <1>9, <1>10 DEF Inv, TypeOK
  <1>12. QED BY <1>1, <1>9, <1>11, DrawStep, IdleHolds DEF Inv

\* The claim is written before the text is typed, with an attempt of its own.
LEMMA ClaimKeeps == ASSUME Inv, Claim PROVE Inv' /\ EntersInOrder
  <1> DEFINE job == [mem[cur] EXCEPT !.status = "dispatching", !.session = tgt.session,
                                     !.gen = tgt.gen, !.attempt = drawn + 1,
                                     !.adopted = FALSE]
             r == With(mem, cur, job)
  <1>1. /\ up /\ phase = "reserve" /\ drawn < MaxAttempts /\ drawn' = drawn + 1
        /\ \/ Written(r) /\ phase' = "preflight" /\ UNCHANGED <<cur, tgt>>
           \/ WriteThrows(r) /\ phase' = "idle" /\ cur' = None /\ tgt' = NoTarget
        /\ UNCHANGED <<pane, up, out, sample, obs, typed, entered, crashes>>
    BY DEF Claim, watch
  <1>2. /\ cur \in Jobs /\ mem[cur].status = "ready"
        /\ tgt.session \in Sessions /\ tgt.gen \in 0..MaxGen
        /\ mem[cur] \in JobType /\ drawn \in Nat
    BY <1>1, StoreFacts DEF Inv, Holds, TypeOK
  <1>3. ~mem[cur].finished /\ ~mem[cur].verified
    <2>1. cur \in Present(mem) BY <1>2 DEF Present
    <2>2. JobValid(mem[cur]) BY <2>1, StoreFacts
    <2>3. QED BY <1>2, <2>2 DEF JobValid, TerminalStatuses
  <1>4. drawn + 1 \in 0..MaxAttempts /\ drawn + 1 \in Attempts /\ drawn + 1 > drawn
    <2>1. MaxAttempts \in Nat BY ConstantsAssumption
    <2>2. QED BY <1>1, <1>2, <2>1 DEF Attempts
  <1>5. /\ job \in JobType /\ job.status = "dispatching" /\ job.session = tgt.session
        /\ job.gen = tgt.gen /\ job.attempt = drawn + 1 /\ job.pos = mem[cur].pos
        /\ job.finished = mem[cur].finished /\ job.verified = mem[cur].verified
    <2>1. tgt.session \in Sessions \cup {None} /\ "dispatching" \in Statuses \cup {"absent"}
      BY <1>2 DEF Statuses
    <2>2. QED BY <1>2, <1>4, <2>1 DEF JobType
  <1> HIDE DEF job
  <1>6. JobValid(job)
    <2>1. job.session # None BY <1>2, <1>5, ConstantsAssumption
    <2>2. QED BY <1>3, <1>5, <2>1 DEF JobValid, TerminalStatuses
  <1>7. job.status \in LockStatuses /\ job.status \notin Handed
        /\ job.status \notin QueueStatuses
    BY <1>5 DEF LockStatuses, Handed, QueueStatuses
  <1>8. /\ Fit(mem, r, drawn + 1, typed, entered)
        /\ Told(mem, drawn + 1, typed, entered) /\ Told(disk, drawn + 1, typed, entered)
    BY <1>1, <1>5, <1>6, <1>7, TakeFit
  <1>9. r[cur] = job /\ \A k \in Jobs \ {cur} : r[k] = mem[k]
    BY <1>2, StoreFacts DEF With
  <1> HIDE DEF r
  <1>10. Stores' /\ mem' \in [Jobs -> JobType] /\ disk' \in [Jobs -> JobType]
         /\ faults' \in 0..MaxFaults /\ EntersInOrder
    BY <1>1, <1>8, PersistStep DEF Persist
  <1>11. NoTarget \in [session: Sessions \cup {None}, gen: 0..MaxGen]
    BY ConstantsAssumption DEF NoTarget
  <1>12. TypeOK' BY <1>1, <1>4, <1>10, <1>11 DEF Inv, TypeOK
  <1>13. Holds'
    <2>1. CASE Written(r) /\ phase' = "preflight" /\ UNCHANGED <<cur, tgt>>
      <3>1. mem' = r /\ disk' = r BY <2>1 DEF Written
      <3>2. \A j \in Jobs \ {cur} : r[j].attempt # drawn + 1
        <4>1. \A j \in Jobs : mem[j].attempt <= drawn /\ mem[j].attempt \in Nat
          <5>1. MaxAttempts \in Nat BY ConstantsAssumption
          <5>2. QED BY <5>1, StoreFacts DEF Told, JobType
        <4>2. QED BY <1>2, <1>9, <4>1
      <3>3. \A j \in Queue(r) : r[j].pos # job.pos
        <4>1. cur \in Queue(mem) /\ Apart(mem, Queue(mem))
          BY <1>2, StoreFacts DEF Queue, QueueStatuses
        <4>2. ASSUME NEW j \in Queue(r) PROVE j \in Queue(mem) /\ j # cur /\ r[j] = mem[j]
          <5>1. j \in Jobs /\ r[j].status \in QueueStatuses BY DEF Queue
          <5>2. j # cur BY <1>7, <1>9, <5>1
          <5>3. QED BY <1>9, <5>1, <5>2 DEF Queue
        <4>3. QED BY <1>5, <4>1, <4>2 DEF Apart
      <3>4. typed[drawn + 1] = 0 /\ entered[drawn + 1] = 0 BY <1>4 DEF Inv, Undrawn
      <3>5. job.attempt # 0 BY <1>2, <1>5
      <3>6. mem' = r /\ disk' = r /\ cur' = cur /\ tgt' = tgt /\ phase' = "preflight" /\ up'
            /\ typed' = typed /\ entered' = entered
        BY <1>1, <2>1, <3>1
      <3>7. QED BY <1>2, <1>5, <1>9, <3>2, <3>3, <3>4, <3>5, <3>6 DEF Holds, Delivering
    <2>2. CASE phase' = "idle" BY <1>1, <2>2, IdleHolds
    <2>3. QED BY <1>1, <2>1, <2>2
  <1>14. QED BY <1>1, <1>10, <1>12, <1>13, DrawStep DEF Inv

\* What is known while a mission is delivered.
LEMMA DeliveringFacts ==
  ASSUME Inv, phase \in Delivering
  PROVE  /\ cur \in Jobs /\ mem = disk /\ mem[cur].status = "dispatching"
         /\ mem[cur].attempt \in Attempts /\ tgt.session \in Sessions
         /\ mem[cur].session = tgt.session /\ mem[cur].gen = tgt.gen
         /\ \A j \in Jobs \ {cur} : mem[j].attempt # mem[cur].attempt
         /\ \A j \in Queue(mem) : j # cur /\ j \in Jobs /\ mem[j].pos # mem[cur].pos
         /\ typed \in [Attempts -> Nat] /\ entered \in [Attempts -> Nat]
         /\ mem[cur].attempt <= drawn
  <1>1. /\ cur \in Jobs /\ mem = disk /\ mem[cur].status = "dispatching" /\ mem[cur].attempt # 0
        /\ tgt.session \in Sessions /\ mem[cur].session = tgt.session /\ mem[cur].gen = tgt.gen
        /\ \A j \in Jobs \ {cur} : mem[j].attempt # mem[cur].attempt
        /\ \A j \in Queue(mem) : mem[j].pos # mem[cur].pos
    BY DEF Inv, Holds
  <1>2. mem[cur].attempt \in Attempts
    <2>1. mem[cur] \in JobType BY <1>1, StoreFacts
    <2>2. mem[cur].attempt \in 0..MaxAttempts BY <2>1 DEF JobType
    <2>3. MaxAttempts \in Nat BY ConstantsAssumption
    <2>4. QED BY <1>1, <2>2, <2>3 DEF Attempts
  <1>3. \A j \in Queue(mem) : j # cur /\ j \in Jobs BY <1>1 DEF Queue, QueueStatuses
  <1>4. typed \in [Attempts -> Nat] /\ entered \in [Attempts -> Nat] BY DEF Inv, TypeOK
  <1>5. mem[cur].attempt <= drawn BY <1>1, StoreFacts DEF Told
  <1>6. QED BY <1>1, <1>2, <1>3, <1>4, <1>5

\* The delivery is let into the terminal, or refused before it typed anything.
LEMMA PreflightKeeps == ASSUME Inv, Preflight PROVE Inv' /\ EntersInOrder
  <1>1. /\ up /\ phase = "preflight"
        /\ UNCHANGED <<mem, disk, faults, pane, up, cur, tgt, sample, obs, drawn, typed, entered, crashes>>
        /\ \/ phase' = "type" /\ out' = out
           \/ phase' = "record" /\ out' \in {"preflight", "lifecycle_guard", "unknown", "codex_identity"}
    BY DEF Preflight, store, watch, inputs
  <1>2. TypeOK'
    <2>1. out' \in BeforeInput \cup {"", "accepted", "literal_unknown", "literal_confirmation",
                                     "submit", "confirmation", "unknown"}
      BY <1>1 DEF Inv, TypeOK, BeforeInput
    <2>2. phase' \in {"idle", "adopt", "reserve", "preflight", "type", "enter", "record"}
      BY <1>1
    <2>3. QED BY <1>1, <2>1, <2>2 DEF Inv, TypeOK
  <1>3. Holds'
    <2>1. Holds /\ typed[mem[cur].attempt] = 0 /\ entered[mem[cur].attempt] = 0
      BY <1>1 DEF Inv, Holds
    <2>2. out' # "accepted" \/ phase' = "type" BY <1>1
    <2>3. QED BY <1>1, <2>1, <2>2 DEF Holds, Delivering
  <1>4. QED BY <1>1, <1>2, <1>3, StillStep DEF Inv

\* A counter of the attempt that is delivered goes up, the others stay.
Counted(f, g) ==
  g = f \/ g = [f EXCEPT ![mem[cur].attempt] = @ + 1]

\* What is typed or entered for the attempt that is delivered changes nothing that is
\* told of the others.
LEMMA InputStep ==
  ASSUME Inv, phase \in Delivering, UNCHANGED <<mem, disk, faults, drawn>>,
         Counted(typed, typed'), Counted(entered, entered')
  PROVE  /\ Stores' /\ Undrawn' /\ EntersInOrder
         /\ typed' \in [Attempts -> Nat] /\ entered' \in [Attempts -> Nat]
  <1> DEFINE a == mem[cur].attempt
  <1>1. /\ cur \in Jobs /\ mem = disk /\ mem[cur].status = "dispatching" /\ a \in Attempts
        /\ \A j \in Jobs \ {cur} : mem[j].attempt # a
        /\ \A j \in Queue(mem) : j # cur /\ j \in Jobs
        /\ typed \in [Attempts -> Nat] /\ entered \in [Attempts -> Nat] /\ a <= drawn
    BY DeliveringFacts
  <1>2. MaxAttempts \in Nat /\ Bound \subseteq Jobs /\ drawn \in Nat
    BY ConstantsAssumption, StoreFacts
  <1>3. \A j \in Jobs : mem[j].attempt # 0 => mem[j].attempt \in Attempts
    <2>1. \A j \in Jobs : mem[j].attempt \in 0..MaxAttempts BY StoreFacts DEF JobType
    <2>2. QED BY <1>2, <2>1 DEF Attempts
  <1> HIDE DEF a
  <1>4. ASSUME NEW f \in [Attempts -> Nat], NEW g, g = f \/ g = [f EXCEPT ![a] = @ + 1]
        PROVE  g \in [Attempts -> Nat] /\ \A n \in Attempts \ {a} : g[n] = f[n]
    BY <1>1, <1>4
  <1>5. /\ typed' \in [Attempts -> Nat] /\ \A n \in Attempts \ {a} : typed'[n] = typed[n]
        /\ entered' \in [Attempts -> Nat] /\ \A n \in Attempts \ {a} : entered'[n] = entered[n]
    BY <1>1, <1>4 DEF Counted, a
  <1>6. Told(mem, drawn, typed', entered')
    <2>1. Told(mem, drawn, typed, entered) BY StoreFacts
    <2>2. \A j \in Jobs \ {cur} : mem[j].attempt # 0 => mem[j].attempt \in Attempts \ {a}
      BY <1>1, <1>3
    <2>3. \A j \in Queue(mem) : mem[j].attempt # 0 => typed'[mem[j].attempt] = 0
      BY <1>1, <1>5, <2>1, <2>2 DEF Told
    <2>4. \A j \in Bound : mem[j].status \in Handed =>
                             mem[j].attempt # 0 /\ entered'[mem[j].attempt] = 1
      <3>1. SUFFICES ASSUME NEW j \in Bound, mem[j].status \in Handed
                     PROVE  mem[j].attempt # 0 /\ entered'[mem[j].attempt] = 1
        OBVIOUS
      <3>2. j # cur /\ j \in Jobs BY <1>1, <1>2, <3>1 DEF Handed
      <3>3. mem[j].attempt # 0 /\ entered[mem[j].attempt] = 1 BY <2>1, <3>1 DEF Told, Handed
      <3>4. QED BY <1>5, <2>2, <3>2, <3>3
    <2>5. QED BY <2>1, <2>3, <2>4 DEF Told, Handed
  <1>7. Stores' BY <1>1, <1>6 DEF Inv, Stores
  <1>8. Undrawn'
    <2>1. \A n \in Attempts : n > drawn => n \in Attempts \ {a}
      <3>1. \A n \in Attempts : n \in Nat BY <1>2 DEF Attempts
      <3>2. QED BY <1>1, <1>2, <3>1
    <2>2. QED BY <1>5, <2>1 DEF Inv, Undrawn
  <1>9. QED BY <1>5, <1>7, <1>8, EntersStep

\* The text of the attempt is typed, or it is not.
LEMMA TypeKeeps == ASSUME Inv, Type PROVE Inv' /\ EntersInOrder
  <1> DEFINE more == [typed EXCEPT ![mem[cur].attempt] = @ + 1]
  <1>1. /\ up /\ phase = "type"
        /\ UNCHANGED <<mem, disk, faults, pane, up, cur, tgt, sample, obs, drawn, entered, crashes>>
        /\ \/ /\ phase' = "record" /\ out' \in {"literal_unknown", "unknown", "codex_identity"}
              /\ typed' = typed
           \/ phase' = "enter" /\ out' = out /\ typed' = more
           \/ /\ phase' = "record" /\ out' \in {"literal_unknown", "unknown"} /\ typed' = more
    BY DEF Type, store, watch
  <1>2. phase \in Delivering BY <1>1 DEF Delivering
  <1>3. Counted(typed, typed') /\ Counted(entered, entered') BY <1>1 DEF Counted
  <1> HIDE DEF more
  <1>4. Stores' /\ Undrawn' /\ EntersInOrder /\ typed' \in [Attempts -> Nat] /\ entered' \in [Attempts -> Nat]
    BY <1>1, <1>2, <1>3, InputStep
  <1>5. TypeOK'
    <2>1. out' \in BeforeInput \cup {"", "accepted", "literal_unknown", "literal_confirmation",
                                     "submit", "confirmation", "unknown"}
      BY <1>1 DEF Inv, TypeOK, BeforeInput
    <2>2. phase' \in {"idle", "adopt", "reserve", "preflight", "type", "enter", "record"}
      BY <1>1
    <2>3. QED BY <1>1, <1>4, <2>1, <2>2 DEF Inv, TypeOK
  <1>6. Holds'
    <2>1. Holds /\ typed[mem[cur].attempt] = 0 /\ entered[mem[cur].attempt] = 0
      BY <1>1 DEF Inv, Holds
    <2>2. /\ phase' \in {"record", "enter"}
          /\ phase' = "record" => out' # "accepted" /\ (out' \in BeforeInput => typed' = typed)
      BY <1>1 DEF BeforeInput
    <2>3. QED BY <1>1, <2>1, <2>2 DEF Holds, Delivering
  <1>7. QED BY <1>4, <1>5, <1>6 DEF Inv

\* Enter is pressed for the attempt, or it is not.
LEMMA EnterKeeps == ASSUME Inv, Enter PROVE Inv' /\ EntersInOrder
  <1> DEFINE a == mem[cur].attempt
             s == tgt.session
             more == [entered EXCEPT ![a] = @ + 1]
             busy == [pane EXCEPT ![s].mode = "busy", ![s].text = a, ![s].report = 0]
  <1>1. /\ up /\ phase = "enter" /\ phase' = "record"
        /\ UNCHANGED <<mem, disk, faults, up, cur, tgt, sample, obs, drawn, typed, crashes>>
        /\ \/ /\ out' \in {"literal_confirmation", "submit", "unknown"}
              /\ entered' = entered /\ pane' = pane
           \/ /\ out' \in {"accepted", "confirmation", "submit", "unknown"}
              /\ entered' = more /\ pane' = busy
    BY DEF Enter, store, watch
  <1>2. phase \in Delivering BY <1>1 DEF Delivering
  <1>3. Counted(typed, typed') /\ Counted(entered, entered') BY <1>1 DEF Counted
  <1>4. /\ s \in Sessions /\ a \in Attempts /\ entered \in [Attempts -> Nat]
    BY <1>2, DeliveringFacts
  <1>5. entered[a] = 0 BY <1>1 DEF Inv, Holds
  <1>6. more[a] = 1 BY <1>4, <1>5
  <1>7. busy \in [Sessions -> PaneType]
    <2>1. pane \in [Sessions -> PaneType] BY DEF Inv, TypeOK
    <2>2. a \in 0..MaxAttempts /\ 0 \in 0..MaxAttempts
      BY <1>4, ConstantsAssumption DEF Attempts
    <2>3. pane[s] \in PaneType BY <1>4, <2>1
    <2> HIDE DEF a, s
    <2>4. [pane[s] EXCEPT !.mode = "busy", !.text = a, !.report = 0] \in PaneType
      BY <2>2, <2>3 DEF PaneType
    <2>5. /\ busy[s] = [pane[s] EXCEPT !.mode = "busy", !.text = a, !.report = 0]
          /\ \A x \in Sessions \ {s} : busy[x] = pane[x]
          /\ busy = [x \in Sessions |-> busy[x]]
      BY <1>4, <2>1
    <2> HIDE DEF busy
    <2>6. QED BY <2>1, <2>4, <2>5
  <1> HIDE DEF more, busy
  <1>8. Stores' /\ Undrawn' /\ EntersInOrder /\ typed' \in [Attempts -> Nat] /\ entered' \in [Attempts -> Nat]
    BY <1>1, <1>2, <1>3, InputStep
  <1>9. TypeOK'
    <2>1. out' \in BeforeInput \cup {"", "accepted", "literal_unknown", "literal_confirmation",
                                     "submit", "confirmation", "unknown"}
      BY <1>1
    <2>2. phase' \in {"idle", "adopt", "reserve", "preflight", "type", "enter", "record"}
      BY <1>1
    <2>3. pane' \in [Sessions -> PaneType] BY <1>1, <1>7 DEF Inv, TypeOK
    <2>4. QED BY <1>1, <1>8, <2>1, <2>2, <2>3 DEF Inv, TypeOK
  <1>10. Holds'
    <2>1. Holds BY DEF Inv
    <2>2. out' \notin BeforeInput /\ (out' = "accepted" => entered'[a] = 1)
      BY <1>1, <1>6 DEF BeforeInput
    <2>3. QED BY <1>1, <2>1, <2>2 DEF Holds, Delivering
  <1>11. QED BY <1>8, <1>9, <1>10 DEF Inv

\* What is recorded of a delivery.
LEMMA RecordedFacts ==
  ASSUME NEW job \in JobType, job.status = "dispatching", JobValid(job), NEW o
  PROVE  /\ Recorded(job, o) \in JobType /\ JobValid(Recorded(job, o))
         /\ Recorded(job, o).session = job.session /\ Recorded(job, o).attempt = job.attempt
         /\ Recorded(job, o).pos = job.pos
         /\ Recorded(job, o).status = IF o = "accepted" THEN "running"
                                      ELSE IF o \in BeforeInput THEN "ready"
                                      ELSE "reconcile_required"
  <1> DEFINE to == IF o = "accepted" THEN "running"
                   ELSE IF o \in BeforeInput THEN "ready" ELSE "reconcile_required"
             r == [job EXCEPT !.status = to]
  <1>1. Recorded(job, o) = r BY DEF Recorded
  <1>2. to \in {"running", "ready", "reconcile_required"} OBVIOUS
  <1>3. to \in Statuses /\ to \notin TerminalStatuses /\ to # "done"
    BY <1>2 DEF Statuses, TerminalStatuses
  <1>4. job.session # None /\ ~job.finished /\ ~job.verified
    BY DEF JobValid, LockStatuses, TerminalStatuses
  <1> HIDE DEF to
  <1>5. /\ r \in JobType /\ r.status = to /\ r.session = job.session
        /\ r.attempt = job.attempt /\ r.pos = job.pos /\ r.finished = job.finished
        /\ r.verified = job.verified
    BY <1>3 DEF JobType
  <1> HIDE DEF r
  <1>6. JobValid(r) BY <1>3, <1>4, <1>5 DEF JobValid
  <1>7. QED BY <1>1, <1>5, <1>6 DEF to

\* The outcome of a delivery is recorded.
LEMMA RecordKeeps == ASSUME Inv, Record PROVE Inv' /\ EntersInOrder
  <1> DEFINE job == Recorded(mem[cur], out)
             r == With(mem, cur, job)
             n == IF out \in BeforeInput THEN r ELSE Normalized(r)
  <1>1. /\ up /\ phase = "record" /\ Persist(n)
        /\ phase' = "idle" /\ cur' = None /\ tgt' = NoTarget /\ out' = ""
        /\ UNCHANGED <<pane, up, sample, obs, drawn, typed, entered, crashes>>
    BY DEF Record, inputs
  <1>2. phase \in Delivering BY <1>1 DEF Delivering
  <1>3. /\ cur \in Jobs /\ mem[cur].status = "dispatching" /\ mem[cur].attempt # 0
        /\ mem[cur].attempt <= drawn
        /\ \A j \in Queue(mem) : j # cur /\ j \in Jobs /\ mem[j].pos # mem[cur].pos
        /\ out \in BeforeInput => typed[mem[cur].attempt] = 0
        /\ out = "accepted" => entered[mem[cur].attempt] = 1
    BY <1>1, <1>2, DeliveringFacts DEF Inv, Holds
  <1>4. /\ mem \in [Jobs -> JobType] /\ Kept(mem) /\ drawn \in Nat
        /\ Told(mem, drawn, typed, entered) /\ Apart(mem, Queue(mem))
        /\ \A j \in Present(mem) : JobValid(mem[j])
    BY StoreFacts
  <1>5. cur \in Present(mem) /\ cur \in Active(mem)
    BY <1>3 DEF Present, Active, LockStatuses
  <1>6. /\ job \in JobType /\ JobValid(job) /\ job.session = mem[cur].session
        /\ job.attempt = mem[cur].attempt /\ job.pos = mem[cur].pos
        /\ job.status = IF out = "accepted" THEN "running"
                        ELSE IF out \in BeforeInput THEN "ready" ELSE "reconcile_required"
    BY <1>3, <1>4, <1>5, RecordedFacts
  <1> HIDE DEF job
  <1>7. r \in [Jobs -> JobType] /\ r[cur] = job /\ \A k \in Jobs \ {cur} : r[k] = mem[k]
    BY <1>3, <1>4, <1>6 DEF With
  <1> HIDE DEF r
  <1>8. /\ Present(r) = Present(mem) /\ Active(r) \subseteq Active(mem)
        /\ Queue(r) = IF out \in BeforeInput THEN Queue(mem) \cup {cur} ELSE Queue(mem)
    <2>1. /\ job.status # "absent"
          /\ job.status \in QueueStatuses <=> out \in BeforeInput
      BY <1>6 DEF QueueStatuses, BeforeInput
    <2>2. Present(r) = Present(mem) BY <1>3, <1>7, <2>1 DEF Present
    <2>3. Active(r) \subseteq Active(mem) BY <1>5, <1>7 DEF Active
    <2>4. Queue(r) = IF out \in BeforeInput THEN Queue(mem) \cup {cur} ELSE Queue(mem)
      BY <1>3, <1>7, <2>1 DEF Queue
    <2>5. QED BY <2>2, <2>3, <2>4
  <1>9. Kept(r)
    <2>1. \A j \in Present(mem) : Alike(mem[j], r[j]) \/ JobValid(r[j])
      BY <1>4, <1>6, <1>7, StatusFacts
    <2>2. \A j \in Active(r) : j \in Active(mem) /\ r[j].session = mem[j].session
      <3>1. Active(mem) \subseteq Jobs BY DEF Active
      <3>2. QED BY <1>6, <1>7, <1>8, <3>1
    <2>3. QED BY <1>4, <1>7, <1>8, <2>1, <2>2, EditKept
  <1>10. Told(r, drawn, typed, entered)
    <2>1. ASSUME NEW j \in Jobs
          PROVE  \/ /\ r[j].attempt = mem[j].attempt /\ (j \in Queue(r) => j \in Queue(mem))
                    /\ j \in Bound /\ r[j].status \in Handed => mem[j].status \in Handed
                 \/ /\ r[j].attempt <= drawn /\ r[j].attempt # 0
                    /\ j \in Queue(r) => typed[r[j].attempt] = 0
                    /\ j \in Bound /\ r[j].status \in Handed => entered[r[j].attempt] = 1
      <3>1. CASE j # cur
        <4>1. r[j] = mem[j] BY <1>7, <3>1
        <4>2. j \in Queue(r) => j \in Queue(mem) BY <1>8, <3>1
        <4>3. QED BY <4>1, <4>2
      <3>2. CASE j = cur
        <4>1. r[j].attempt = mem[cur].attempt BY <1>6, <1>7, <3>2
        <4>2. j \in Queue(r) => out \in BeforeInput BY <1>3, <1>8, <3>2
        <4>3. r[j].status \in Handed => out = "accepted" BY <1>6, <1>7, <3>2 DEF Handed
        <4>4. QED BY <1>3, <4>1, <4>2, <4>3
      <3>3. QED BY <3>1, <3>2
    <2>2. QED BY <1>4, <1>7, <2>1, EditTold
  <1>11. Apart(r, Queue(r)) BY <1>3, <1>4, <1>6, <1>7, <1>8 DEF Apart
  <1>12. Fit(mem, n, drawn, typed, entered)
    <2>1. CASE out \in BeforeInput
      <3>1. Enters(mem, r) BY <1>3, <1>8 DEF Enters
      <3>2. Fit(mem, r, drawn, typed, entered)
        BY <1>9, <1>10, <1>11, <3>1 DEF Fit, Sound, Kept
      <3>3. QED BY <2>1, <3>2
    <2>2. CASE out \notin BeforeInput
      <3>1. Queue(r) \subseteq Queue(mem) BY <1>8, <2>2
      <3>2. Fit(mem, Normalized(r), drawn, typed, entered)
        BY <1>9, <1>10, <1>11, <3>1, NormalFit
      <3>3. QED BY <2>2, <3>2
    <2>3. QED BY <2>1, <2>2
  <1> HIDE DEF n
  <1>13. Stores' /\ mem' \in [Jobs -> JobType] /\ disk' \in [Jobs -> JobType]
         /\ faults' \in 0..MaxFaults /\ EntersInOrder
    <2>1. Told(mem, drawn, typed, entered) /\ Told(disk, drawn, typed, entered)
      BY DEF Inv, Stores
    <2>2. QED BY <1>1, <1>12, <2>1, PersistStep
  <1>14. NoTarget \in [session: Sessions \cup {None}, gen: 0..MaxGen]
    BY ConstantsAssumption DEF NoTarget
  <1>15. TypeOK' BY <1>1, <1>13, <1>14 DEF Inv, TypeOK
  <1>16. Undrawn' BY <1>1 DEF Inv, Undrawn
  <1>17. QED BY <1>1, <1>13, <1>15, <1>16, IdleHolds DEF Inv

--------------------------------------------------------------------------------
(* The Mission Supervisor.                                                        *)

\* The panes are listed.
LEMMA ObserveKeeps == ASSUME Inv, Observe PROVE Inv' /\ EntersInOrder
  <1>1. /\ UNCHANGED <<mem, disk, faults, pane, up, phase, cur, tgt, out, obs, drawn, typed,
                      entered, crashes>>
        /\ sample' = [s \in Sessions |-> pane[s]]
    BY DEF Observe, store, opVars, inputs
  <1>2. sample' \in [Sessions -> PaneType] BY <1>1 DEF Inv, TypeOK
  <1>3. TypeOK' BY <1>1, <1>2 DEF Inv, TypeOK
  <1>4. Holds' BY <1>1 DEF Inv, Holds, Delivering, Free, Room
  <1>5. QED BY <1>1, <1>3, <1>4, StillStep DEF Inv

\* What a running mission was seen doing.
LEMMA ObservationFacts ==
  ASSUME Inv, sample # NoSample, NEW j \in Jobs, mem[j].status = "running",
         NEW reason \in Reasons
  PROVE  Observation(j, reason) \in ObsType
  <1>1. mem[j] \in JobType BY StoreFacts
  <1>2. mem[j].session \in Sessions
    <2>1. j \in Present(mem) BY DEF Present
    <2>2. JobValid(mem[j]) BY <2>1, StoreFacts
    <2>3. mem[j].session # None BY <2>2 DEF JobValid, LockStatuses
    <2>4. QED BY <1>1, <2>3 DEF JobType
  <1>3. sample[mem[j].session].report \in 0..MaxAttempts
    <2>1. sample \in [Sessions -> PaneType] BY DEF Inv, TypeOK
    <2>2. QED BY <1>2, <2>1 DEF PaneType
  <1>4. 0 \in 0..MaxAttempts BY ConstantsAssumption
  <1>5. reason \in SupervisorReasons BY ConstantsAssumption
  <1>6. mem[j].gen \in 0..MaxGen BY <1>1 DEF JobType
  <1>7. QED BY <1>2, <1>3, <1>4, <1>5, <1>6 DEF Observation, ObsType

\* Running missions go to verifying or to the operator.
Supervised(stable, seen) ==
  [j \in Jobs |-> IF j \notin stable THEN mem[j]
                  ELSE [mem[j] EXCEPT !.status =
                          IF seen[j] = "verifying" THEN "verifying" ELSE "needs_you"]]

\* They keep their locks and their attempts.
LEMMA SupervisedFit ==
  ASSUME Inv, NEW seen, NEW stable, \A j \in stable : j \in Jobs /\ mem[j].status = "running"
  PROVE  Fit(mem, Supervised(stable, seen), drawn, typed, entered)
  <1> DEFINE r == Supervised(stable, seen)
  <1>1. /\ mem \in [Jobs -> JobType] /\ Kept(mem) /\ drawn \in Nat
        /\ Told(mem, drawn, typed, entered) /\ Apart(mem, Queue(mem))
        /\ \A j \in Present(mem) : JobValid(mem[j])
    BY StoreFacts
  <1>2. ASSUME NEW j \in Jobs, j \notin stable PROVE r[j] = mem[j]
    BY <1>2 DEF Supervised
  <1>3. ASSUME NEW j \in stable
        PROVE  /\ r[j] \in JobType /\ r[j].status \in {"verifying", "needs_you"} /\ JobValid(r[j])
               /\ r[j].session = mem[j].session /\ r[j].attempt = mem[j].attempt
               /\ r[j].pos = mem[j].pos
    <2> DEFINE to == IF seen[j] = "verifying" THEN "verifying" ELSE "needs_you"
    <2>1. r[j] = [mem[j] EXCEPT !.status = to] BY DEF Supervised
    <2>2. to \in {"verifying", "needs_you"} OBVIOUS
    <2>3. to \in Statuses /\ to \notin TerminalStatuses /\ to # "done"
      BY <2>2 DEF Statuses, TerminalStatuses
    <2> HIDE DEF to, r
    <2>4. /\ r[j] \in JobType /\ r[j].status = to /\ r[j].session = mem[j].session
          /\ r[j].attempt = mem[j].attempt /\ r[j].pos = mem[j].pos
          /\ r[j].finished = mem[j].finished /\ r[j].verified = mem[j].verified
      BY <1>1, <2>1, <2>3 DEF JobType
    <2>5. mem[j].session # None /\ ~mem[j].finished /\ ~mem[j].verified
      <3>1. j \in Present(mem) /\ mem[j].status = "running" BY DEF Present
      <3>2. JobValid(mem[j]) BY <1>1, <3>1
      <3>3. QED BY <3>1, <3>2 DEF JobValid, LockStatuses, TerminalStatuses
    <2>6. JobValid(r[j]) BY <2>3, <2>4, <2>5 DEF JobValid
    <2>7. QED BY <2>2, <2>4, <2>6
  <1>4. r = [j \in Jobs |-> r[j]] BY DEF Supervised
  <1> HIDE DEF r
  <1>5. r \in [Jobs -> JobType] BY <1>1, <1>2, <1>3, <1>4
  <1>6. /\ Present(r) = Present(mem) /\ Active(r) \subseteq Active(mem) /\ Queue(r) = Queue(mem)
    <2>1. \A j \in stable : /\ r[j].status # "absent" /\ mem[j].status # "absent"
                            /\ r[j].status \notin QueueStatuses
                            /\ mem[j].status \notin QueueStatuses
                            /\ mem[j].status \in LockStatuses
      BY <1>3 DEF QueueStatuses, LockStatuses
    <2>2. Present(r) = Present(mem) BY <1>2, <2>1 DEF Present
    <2>3. Active(r) \subseteq Active(mem) BY <1>2, <2>1 DEF Active
    <2>4. Queue(r) = Queue(mem) BY <1>2, <2>1 DEF Queue
    <2>5. QED BY <2>2, <2>3, <2>4
  <1>7. Kept(r)
    <2>1. \A j \in Present(mem) : Alike(mem[j], r[j]) \/ JobValid(r[j])
      BY <1>1, <1>2, <1>3, StatusFacts
    <2>2. \A j \in Active(r) : j \in Active(mem) /\ r[j].session = mem[j].session
      <3>1. Active(mem) \subseteq Jobs BY DEF Active
      <3>2. QED BY <1>2, <1>3, <1>6, <3>1
    <2>3. QED BY <1>1, <1>5, <1>6, <2>1, <2>2, EditKept
  <1>8. Told(r, drawn, typed, entered)
    <2>1. ASSUME NEW j \in Jobs
          PROVE  /\ r[j].attempt = mem[j].attempt /\ (j \in Queue(r) => j \in Queue(mem))
                 /\ j \in Bound /\ r[j].status \in Handed => mem[j].status \in Handed
      <3>1. CASE j \in stable BY <1>3, <1>6, <3>1 DEF Handed
      <3>2. CASE j \notin stable BY <1>2, <1>6, <3>2
      <3>3. QED BY <3>1, <3>2
    <2>2. QED BY <1>1, <1>5, <2>1, EditTold
  <1>9. Apart(r, Queue(r))
    <2>1. \A j \in Queue(mem) : j \in Jobs /\ r[j].pos = mem[j].pos
      BY <1>2, <1>3 DEF Queue
    <2>2. QED BY <1>1, <1>6, <2>1 DEF Apart
  <1>10. Fit(mem, r, drawn, typed, entered) BY <1>6, <1>7, <1>8, <1>9, NormalFit
  <1>11. QED BY <1>10 DEF r

\* A supervisor pass.
LEMMA SuperviseKeeps == ASSUME Inv, Supervise PROVE Inv' /\ EntersInOrder
  <1> DEFINE running == {j \in Jobs : mem[j].status = "running"}
  <1>1. /\ Serving /\ sample # NoSample /\ sample' = NoSample
        /\ UNCHANGED <<pane, up, phase, cur, tgt, out, drawn, typed, entered, crashes>>
    BY DEF Supervise, opVars, inputs
  <1>2. PICK seen \in [running -> Reasons \cup {None}] :
          \E stable \in SUBSET {j \in running \cap DOMAIN obs :
                                seen[j] # None /\ obs[j] = Observation(j, seen[j])} :
            /\ obs' = [j \in {k \in running \ stable : seen[k] # None} |->
                         Observation(j, seen[j])]
            /\ UNCHANGED store \/ Persist(Supervised(stable, seen))
    BY DEF Supervise, Supervised, Persist
  <1>3. PICK stable \in SUBSET running :
          /\ obs' = [j \in {k \in running \ stable : seen[k] # None} |->
                       Observation(j, seen[j])]
          /\ UNCHANGED store \/ Persist(Supervised(stable, seen))
    BY <1>2
  <1>4. DOMAIN obs' \subseteq Jobs /\ \A j \in DOMAIN obs' : obs'[j] \in ObsType
    <2> DEFINE kept == {k \in running \ stable : seen[k] # None}
    <2>1. obs' = [j \in kept |-> Observation(j, seen[j])] BY <1>3
    <2>2. \A j \in kept : j \in Jobs /\ mem[j].status = "running" /\ seen[j] \in Reasons
      OBVIOUS
    <2> HIDE DEF kept
    <2>3. \A j \in kept : Observation(j, seen[j]) \in ObsType
      BY <1>1, <2>2, ObservationFacts
    <2>4. QED BY <2>1, <2>2, <2>3
  <1>5. Fit(mem, Supervised(stable, seen), drawn, typed, entered)
    <2>1. \A j \in stable : j \in Jobs /\ mem[j].status = "running" OBVIOUS
    <2>2. QED BY <2>1, SupervisedFit
  <1>6. Stores' /\ mem' \in [Jobs -> JobType] /\ disk' \in [Jobs -> JobType]
        /\ faults' \in 0..MaxFaults /\ EntersInOrder
    <2>1. CASE UNCHANGED store
      <3>1. Stores' BY <1>1, <2>1 DEF Inv, Stores, store
      <3>2. QED BY <2>1, <3>1, EntersStep DEF Inv, TypeOK, store
    <2>2. CASE Persist(Supervised(stable, seen))
      <3>1. Told(mem, drawn, typed, entered) /\ Told(disk, drawn, typed, entered)
        BY DEF Inv, Stores
      <3>2. QED BY <1>1, <1>5, <2>2, <3>1, PersistStep
    <2>3. QED BY <1>3, <2>1, <2>2
  <1>7. TypeOK' BY <1>1, <1>4, <1>6 DEF Inv, TypeOK
  <1>8. Undrawn' BY <1>1 DEF Inv, Undrawn
  <1>9. QED BY <1>1, <1>6, <1>7, <1>8, IdleHolds DEF Inv, Serving

--------------------------------------------------------------------------------
(* Workers, terminals and the host.                                               *)

\* What happens in a terminal concerns no store and no operation.
LEMMA PaneStep ==
  ASSUME Inv, UNCHANGED Rest, pane' \in [Sessions -> PaneType]
  PROVE  Inv' /\ EntersInOrder
  <1>1. UNCHANGED <<mem, disk, faults, up, phase, cur, tgt, out, sample, obs, drawn, typed,
                    entered, crashes>>
    BY DEF Rest, store, opVars, watch, inputs
  <1>2. TypeOK' BY <1>1 DEF Inv, TypeOK
  <1>3. Holds' BY <1>1 DEF Inv, Holds, Delivering, Free, Room
  <1>4. QED BY <1>1, <1>2, <1>3, StillStep DEF Inv

\* Whatever a worker or a terminal does.
LEMMA TerminalKeeps ==
  ASSUME Inv, NEW s \in Sessions,
         \/ WorkerFinishes(s) \/ WorkerAsks(s) \/ WorkerAnswered(s)
         \/ PaneStops(s) \/ PaneResumes(s) \/ PaneReplaced(s)
  PROVE  Inv' /\ EntersInOrder
  <1>1. pane \in [Sessions -> PaneType] /\ pane[s] \in PaneType BY PaneFacts DEF Inv, TypeOK
  <1>2. MaxGen \in Nat /\ MaxAttempts \in Nat /\ 0 \in 0..MaxAttempts BY ConstantsAssumption
  <1>3. ASSUME NEW p \in PaneType, pane' = [pane EXCEPT ![s] = p], UNCHANGED Rest
        PROVE  Inv' /\ EntersInOrder
    BY <1>1, <1>3, PaneStep
  <1>4. CASE WorkerFinishes(s)
    <2>1. PICK report \in {0, pane[s].text} :
            pane' = [pane EXCEPT ![s].mode = "idle", ![s].report = report]
      BY <1>4 DEF WorkerFinishes
    <2>2. report \in 0..MaxAttempts BY <1>1, <1>2 DEF PaneType
    <2> DEFINE p == [pane[s] EXCEPT !.mode = "idle", !.report = report]
    <2>3. p \in PaneType BY <1>1, <2>2 DEF PaneType
    <2>4. pane' = [pane EXCEPT ![s] = p] BY <1>1, <2>1
    <2>5. UNCHANGED Rest BY <1>4 DEF WorkerFinishes
    <2> HIDE DEF p
    <2>6. QED BY <1>3, <2>3, <2>4, <2>5
  <1>5. CASE WorkerAsks(s)
    <2> DEFINE p == [pane[s] EXCEPT !.mode = "waiting"]
    <2>1. p \in PaneType BY <1>1 DEF PaneType
    <2>2. pane' = [pane EXCEPT ![s] = p] /\ UNCHANGED Rest BY <1>1, <1>5 DEF WorkerAsks
    <2> HIDE DEF p
    <2>3. QED BY <1>3, <2>1, <2>2
  <1>6. CASE WorkerAnswered(s)
    <2> DEFINE p == [pane[s] EXCEPT !.mode = "busy"]
    <2>1. p \in PaneType BY <1>1 DEF PaneType
    <2>2. pane' = [pane EXCEPT ![s] = p] /\ UNCHANGED Rest BY <1>1, <1>6 DEF WorkerAnswered
    <2> HIDE DEF p
    <2>3. QED BY <1>3, <2>1, <2>2
  <1>7. CASE PaneStops(s)
    <2>1. PICK state \in {"exited", "gone"} :
            pane' = [pane EXCEPT ![s].state = state, ![s].mode = "idle",
                                 ![s].text = 0, ![s].report = 0]
      BY <1>7 DEF PaneStops
    <2> DEFINE p == [pane[s] EXCEPT !.state = state, !.mode = "idle", !.text = 0, !.report = 0]
    <2>2. p \in PaneType BY <1>1, <1>2 DEF PaneType
    <2>3. pane' = [pane EXCEPT ![s] = p] BY <1>1, <2>1
    <2>4. UNCHANGED Rest BY <1>7 DEF PaneStops
    <2> HIDE DEF p
    <2>5. QED BY <1>3, <2>2, <2>3, <2>4
  <1>8. CASE PaneResumes(s)
    <2> DEFINE p == [pane[s] EXCEPT !.state = "live"]
    <2>1. p \in PaneType BY <1>1 DEF PaneType
    <2>2. pane' = [pane EXCEPT ![s] = p] /\ UNCHANGED Rest BY <1>1, <1>8 DEF PaneResumes
    <2> HIDE DEF p
    <2>3. QED BY <1>3, <2>1, <2>2
  <1>9. CASE PaneReplaced(s)
    <2> DEFINE p == [gen |-> pane[s].gen + 1, state |-> "live", mode |-> "idle",
                     text |-> 0, report |-> 0]
    <2>1. pane[s].gen + 1 \in 1..MaxGen
      <3>1. pane[s].gen \in 1..MaxGen BY <1>1 DEF PaneType
      <3>2. pane[s].gen < MaxGen BY <1>9 DEF PaneReplaced
      <3>3. QED BY <1>2, <3>1, <3>2
    <2>2. p \in PaneType BY <1>2, <2>1 DEF PaneType
    <2>3. pane' = [pane EXCEPT ![s] = p] /\ UNCHANGED Rest BY <1>1, <1>9 DEF PaneReplaced
    <2> HIDE DEF p
    <2>4. QED BY <1>3, <2>2, <2>3
  <1>10. QED BY <1>4, <1>5, <1>6, <1>7, <1>8, <1>9

\* The process ends; the file is what remains.
LEMMA CrashKeeps == ASSUME Inv, Crash PROVE Inv' /\ EntersInOrder
  <1>1. /\ up' = FALSE /\ crashes < MaxCrashes /\ crashes' = crashes + 1
        /\ mem' = disk /\ disk' = disk
        /\ phase' = "idle" /\ cur' = None /\ tgt' = NoTarget /\ out' = ""
        /\ sample' = NoSample /\ obs' = NoObs
        /\ UNCHANGED <<faults, pane, drawn, typed, entered>>
    BY DEF Crash, inputs
  <1>2. crashes' \in 0..MaxCrashes
    <2>1. crashes \in 0..MaxCrashes BY DEF Inv, TypeOK
    <2>2. MaxCrashes \in Nat BY ConstantsAssumption
    <2>3. crashes < MaxCrashes /\ crashes' = crashes + 1 BY <1>1
    <2>4. QED BY <2>1, <2>2, <2>3
  <1>3. NoTarget \in [session: Sessions \cup {None}, gen: 0..MaxGen]
    BY ConstantsAssumption DEF NoTarget
  <1>4. DOMAIN NoObs = {} BY DEF NoObs
  <1>5. TypeOK' BY <1>1, <1>2, <1>3, <1>4 DEF Inv, TypeOK
  <1>6. Stores'
    <2>1. Enters(disk, disk) BY DEF Enters
    <2>2. QED BY <1>1, <2>1 DEF Inv, Stores
  <1>7. Holds' BY <1>1 DEF Holds, Delivering
  <1>8. Undrawn' BY <1>1 DEF Inv, Undrawn
  <1>9. EntersInOrder BY <1>1, EntersStep DEF Inv, Stores
  <1>10. QED BY <1>5, <1>6, <1>7, <1>8, <1>9 DEF Inv

\* The store a restart writes.
ReconciledStore == [j \in Jobs |-> Reconciled(disk[j])]

\* An interrupted dispatch keeps its locks and its attempt.
LEMMA ReconciledFit ==
  ASSUME Inv, mem = disk
  PROVE  Fit(mem, ReconciledStore, drawn, typed, entered)
  <1> DEFINE r == ReconciledStore
  <1>1. /\ mem \in [Jobs -> JobType] /\ Kept(mem) /\ drawn \in Nat
        /\ Told(mem, drawn, typed, entered) /\ Apart(mem, Queue(mem))
        /\ \A j \in Present(mem) : JobValid(mem[j])
    BY StoreFacts
  <1>2. ASSUME NEW j \in Jobs, mem[j].status # "dispatching" PROVE r[j] = mem[j]
    BY <1>2 DEF ReconciledStore, Reconciled
  <1>3. ASSUME NEW j \in Jobs, mem[j].status = "dispatching"
        PROVE  /\ r[j] \in JobType /\ r[j].status = "reconcile_required" /\ JobValid(r[j])
               /\ r[j].session = mem[j].session /\ r[j].attempt = mem[j].attempt
               /\ r[j].pos = mem[j].pos
    <2> DEFINE to == "reconcile_required"
    <2>1. r[j] = [mem[j] EXCEPT !.status = to] BY <1>3 DEF ReconciledStore, Reconciled
    <2>2. to \in Statuses /\ to \notin TerminalStatuses /\ to # "done"
      BY DEF Statuses, TerminalStatuses
    <2> HIDE DEF r
    <2>3. /\ r[j] \in JobType /\ r[j].status = to /\ r[j].session = mem[j].session
          /\ r[j].attempt = mem[j].attempt /\ r[j].pos = mem[j].pos
          /\ r[j].finished = mem[j].finished /\ r[j].verified = mem[j].verified
      BY <1>1, <2>1, <2>2 DEF JobType
    <2>4. mem[j].session # None /\ ~mem[j].finished /\ ~mem[j].verified
      <3>1. j \in Present(mem) BY <1>3 DEF Present
      <3>2. JobValid(mem[j]) BY <1>1, <3>1
      <3>3. QED BY <1>3, <3>2 DEF JobValid, LockStatuses, TerminalStatuses
    <2>5. JobValid(r[j]) BY <2>2, <2>3, <2>4 DEF JobValid
    <2>6. QED BY <2>3, <2>5
  <1>4. r = [j \in Jobs |-> r[j]] BY DEF ReconciledStore
  <1> HIDE DEF r
  <1>5. r \in [Jobs -> JobType] BY <1>1, <1>2, <1>3, <1>4
  <1>6. /\ Present(r) = Present(mem) /\ Active(r) \subseteq Active(mem) /\ Queue(r) = Queue(mem)
    <2>1. \A j \in Jobs : /\ r[j].status # "absent" <=> mem[j].status # "absent"
                          /\ r[j].status \in LockStatuses <=> mem[j].status \in LockStatuses
                          /\ r[j].status \in QueueStatuses <=> mem[j].status \in QueueStatuses
      BY <1>2, <1>3 DEF LockStatuses, QueueStatuses
    <2>2. QED BY <2>1 DEF Present, Active, Queue
  <1>7. Kept(r)
    <2>1. \A j \in Present(mem) : Alike(mem[j], r[j]) \/ JobValid(r[j])
      BY <1>1, <1>2, <1>3, StatusFacts
    <2>2. \A j \in Active(r) : j \in Active(mem) /\ r[j].session = mem[j].session
      <3>1. Active(mem) \subseteq Jobs BY DEF Active
      <3>2. QED BY <1>2, <1>3, <1>6, <3>1
    <2>3. QED BY <1>1, <1>5, <1>6, <2>1, <2>2, EditKept
  <1>8. Told(r, drawn, typed, entered)
    <2>1. ASSUME NEW j \in Jobs
          PROVE  /\ r[j].attempt = mem[j].attempt /\ (j \in Queue(r) => j \in Queue(mem))
                 /\ j \in Bound /\ r[j].status \in Handed => mem[j].status \in Handed
      BY <1>2, <1>3, <1>6 DEF Handed
    <2>2. QED BY <1>1, <1>5, <2>1, EditTold
  <1>9. Apart(r, Queue(r))
    <2>1. \A j \in Queue(mem) : j \in Jobs /\ r[j].pos = mem[j].pos
      BY <1>2, <1>3 DEF Queue
    <2>2. QED BY <1>1, <1>6, <2>1 DEF Apart
  <1>10. Fit(mem, r, drawn, typed, entered) BY <1>6, <1>7, <1>8, <1>9, NormalFit
  <1>11. QED BY <1>10 DEF r

\* systemd restarts the server.
LEMMA RestartKeeps == ASSUME Inv, Restart PROVE Inv' /\ EntersInOrder
  <1>1. /\ ~up /\ up' /\ Written(ReconciledStore)
        /\ UNCHANGED <<pane, phase, cur, tgt, out, sample, obs, drawn, typed, entered, crashes>>
    BY DEF Restart, ReconciledStore, opVars, watch, inputs
  <1>2. mem = disk /\ phase = "idle" BY <1>1 DEF Inv, Holds
  <1>3. Fit(mem, ReconciledStore, drawn, typed, entered) BY <1>2, ReconciledFit
  <1>4. Stores' /\ mem' \in [Jobs -> JobType] /\ disk' \in [Jobs -> JobType]
        /\ faults' \in 0..MaxFaults /\ EntersInOrder
    <2>1. Told(mem, drawn, typed, entered) /\ Told(disk, drawn, typed, entered)
      BY DEF Inv, Stores
    <2>2. QED BY <1>1, <1>3, <2>1, PersistStep DEF Persist
  <1>5. up' = TRUE BY DEF Restart
  <1>6. TypeOK' BY <1>1, <1>4, <1>5 DEF Inv, TypeOK
  <1>7. Undrawn' BY <1>1 DEF Inv, Undrawn
  <1>8. QED BY <1>1, <1>2, <1>4, <1>6, <1>7, IdleHolds DEF Inv

--------------------------------------------------------------------------------
(* The specification.                                                             *)

\* A server without missions keeps what it promises.
LEMMA InitSound == ASSUME Init PROVE Inv
  <1>1. /\ mem = [j \in Jobs |-> Absent] /\ disk = mem
        /\ pane = [s \in Sessions |-> [gen |-> 1, state |-> "live", mode |-> "idle",
                                       text |-> 0, report |-> 0]]
        /\ up = TRUE /\ phase = "idle" /\ cur = None /\ tgt = NoTarget /\ out = ""
        /\ sample = NoSample /\ obs = NoObs
        /\ drawn = 0 /\ typed = [n \in Attempts |-> 0] /\ entered = [n \in Attempts |-> 0]
        /\ crashes = 0 /\ faults = 0
    BY DEF Init
  <1>2. /\ MaxGen \in Nat \ {0} /\ MaxAttempts \in Nat /\ MaxCrashes \in Nat /\ MaxFaults \in Nat
        /\ MaxActive \in Nat \ {0} /\ MaxJobs \in Nat /\ Bound \subseteq Jobs
    BY ConstantsAssumption
  <1>3. Absent \in JobType
    <2>1. Cardinality(Jobs) \in Nat BY JobSets
    <2>2. QED BY <1>2, <2>1 DEF Absent, JobType
  <1>4. [gen |-> 1, state |-> "live", mode |-> "idle", text |-> 0, report |-> 0] \in PaneType
    BY <1>2 DEF PaneType
  <1>5. /\ mem \in [Jobs -> JobType] /\ pane \in [Sessions -> PaneType]
        /\ tgt \in [session: Sessions \cup {None}, gen: 0..MaxGen] /\ DOMAIN obs = {}
    <2>1. NoTarget \in [session: Sessions \cup {None}, gen: 0..MaxGen] BY <1>2 DEF NoTarget
    <2>2. DOMAIN NoObs = {} BY DEF NoObs
    <2>3. QED BY <1>1, <1>3, <1>4, <2>1, <2>2
  <1>6. TypeOK
    <2>1. 0 \in 0..MaxAttempts /\ 0 \in 0..MaxCrashes /\ 0 \in 0..MaxFaults BY <1>2
    <2>2. typed \in [Attempts -> Nat] /\ entered \in [Attempts -> Nat] BY <1>1
    <2>3. QED BY <1>1, <1>5, <2>1, <2>2 DEF TypeOK
  <1>7. \A j \in Jobs : mem[j].status = "absent" /\ mem[j].attempt = 0
    BY <1>1 DEF Absent
  <1>8. Present(mem) = {} /\ Active(mem) = {} /\ Queue(mem) = {}
    BY <1>7 DEF Present, Active, Queue, LockStatuses, QueueStatuses
  <1>9. Cardinality({}) = 0 BY FS_EmptySet
  <1>10. Sound(mem) BY <1>2, <1>5, <1>8, <1>9 DEF Sound, Valid, Exclusive, Apart
  <1>11. Told(mem, drawn, typed, entered)
    <2>1. \A j \in Jobs : mem[j].attempt <= drawn
      <3>1. drawn = 0 BY <1>1
      <3>2. QED BY <1>7, <3>1
    <2>2. \A j \in Bound : mem[j].status \notin {"running", "needs_you", "verifying", "done"}
      BY <1>2, <1>7
    <2>3. QED BY <1>8, <2>1, <2>2 DEF Told
  <1>12. Stores BY <1>1, <1>8, <1>10, <1>11 DEF Stores, Enters
  <1>13. Holds BY <1>1 DEF Holds, Delivering
  <1>14. Undrawn BY <1>1 DEF Undrawn
  <1>15. QED BY <1>6, <1>12, <1>13, <1>14 DEF Inv

\* Every step keeps it.
LEMMA NextKeeps == ASSUME Inv, [Next]_vars PROVE Inv' /\ EntersInOrder
  <1>1. CASE Requests
    <2>1. ASSUME NEW j \in Jobs, Create(j) \/ EnsureDelivery(j) PROVE Inv' /\ EntersInOrder
      BY <2>1, CreateKeeps
    <2>2. ASSUME NEW j \in Jobs, NEW to \in Statuses, Transition(j, to) PROVE Inv' /\ EntersInOrder
      BY <2>2, TransitionKeeps
    <2>3. ASSUME NEW j \in Jobs, NEW k \in Jobs, Move(j, k) PROVE Inv' /\ EntersInOrder
      BY <2>3, MoveKeeps
    <2>4. ASSUME NEW j \in Jobs, NEW to \in {"done", "failed"}, FinalizeDelivery(j, to)
          PROVE  Inv' /\ EntersInOrder
      BY <2>4, FinalizeKeeps
    <2>5. ASSUME NEW j \in Bound, AbortDelivery(Run[j]) PROVE Inv' /\ EntersInOrder BY <2>5, AbortKeeps
    <2>6. QED BY <1>1, <2>1, <2>2, <2>3, <2>4, <2>5 DEF Requests
  <1>2. CASE Assignments
    <2>1. ASSUME NEW j \in Jobs, NEW s \in Sessions, AdoptCheck(j, s) \/ Reserve(j, s)
          PROVE  Inv' /\ EntersInOrder
      BY <2>1, CheckKeeps
    <2>2. QED BY <1>2, <2>1, AdoptCommitKeeps, WithdrawKeeps, ClaimKeeps, PreflightKeeps,
                 TypeKeeps, EnterKeeps, RecordKeeps DEF Assignments, Delivery
  <1>3. CASE Environment
    <2>1. ASSUME NEW s \in Sessions,
                 \/ WorkerFinishes(s) \/ WorkerAsks(s) \/ WorkerAnswered(s)
                 \/ PaneStops(s) \/ PaneResumes(s) \/ PaneReplaced(s)
          PROVE  Inv' /\ EntersInOrder
      BY <2>1, TerminalKeeps
    <2>2. QED BY <1>3, <2>1, CrashKeeps, RestartKeeps DEF Environment
  <1>4. CASE UNCHANGED vars
    <2>1. UNCHANGED Rest /\ pane' = pane
      BY <1>4 DEF vars, Rest, store, opVars, watch, inputs
    <2>2. pane' \in [Sessions -> PaneType] BY <2>1 DEF Inv, TypeOK
    <2>3. QED BY <2>1, <2>2, PaneStep
  <1>5. QED BY <1>1, <1>2, <1>3, <1>4, ObserveKeeps, SuperviseKeeps DEF Next

\* The inductive invariant holds: whatever operators, Delivery Runs, workers, the
\* Supervisor, restarts and failing writes do to the missions of server.js.
THEOREM InvHolds == Spec => []Inv
  <1>1. Init => Inv BY InitSound
  <1>2. Inv /\ [Next]_vars => Inv' BY NextKeeps
  <1>3. QED BY <1>1, <1>2, PTL DEF Spec

\* What the invariant says of the store in memory and of the file: active missions
\* share no worker and no directories, and are no more than MISSION_MAX_ACTIVE; queued
\* ones have positions of their own.
THEOREM LocksHold == Spec => [](LocksSafe /\ ActiveLimit)
  <1>1. Inv => LocksSafe /\ ActiveLimit
    BY DEF Inv, Stores, Sound, LocksSafe, LocksExclusive, ActiveLimit, QueueOrdered, Apart
  <1>2. QED BY <1>1, InvHolds, PTL

\* Over crashes and failing writes: the store can be started from, no text is sent
\* twice unasked, the claim is on disk before the text, and a Delivery Run's mission
\* is done only by a text that was submitted.
THEOREM MissionsAreSafe == Spec => []MissionSafe
  <1>1. ASSUME Inv PROVE MissionSafe
    <2>1. TypeOK /\ StoreValid BY <1>1 DEF Inv, Stores, Sound, StoreValid
    <2>2. NoSilentResend BY <1>1 DEF Inv, Stores, Told, NoSilentResend
    <2>3. ClaimDurable BY <1>1, DeliveringFacts DEF ClaimDurable, Delivering
    <2>4. BoundDoneWasSubmitted BY <1>1 DEF Inv, Stores, Told, BoundDoneWasSubmitted
    <2>5. QED BY <2>1, <2>2, <2>3, <2>4 DEF MissionSafe
  <1>2. QED BY <1>1, InvHolds, PTL

\* Text is only typed into the live pane the mission's claim names on disk (server.js
\* dispatchMission and the guards of typeLiteralText).
THEOREM TypedIntoClaim == Spec => TypedInBoundPane
  <1>1. ASSUME Inv, Next PROVE TypedToClaim
    <2>1. CASE Type
      <3>1. phase \in Delivering BY <2>1 DEF Type, Delivering
      <3>2. mem = disk /\ mem[cur].session = tgt.session /\ mem[cur].gen = tgt.gen
        BY <1>1, <3>1, DeliveringFacts
      <3>3. typed' # typed => Exact(tgt.session, tgt.gen) BY <2>1 DEF Type
      <3>4. QED BY <3>2, <3>3 DEF TypedToClaim
    <2>2. CASE ~Type
      <3>1. ASSUME Requests PROVE typed' = typed
        BY <3>1 DEF Requests, Create, EnsureDelivery, Transition, Move, FinalizeDelivery,
                    AbortDelivery, inputs
      <3>2. ASSUME Assignments PROVE typed' = typed
        BY <2>2, <3>2 DEF Assignments, Delivery, AdoptCheck, Reserve, AdoptCommit, Withdraw,
                          Claim, Preflight, Enter, Record, inputs
      <3>3. ASSUME Environment PROVE typed' = typed
        BY <3>3 DEF Environment, WorkerFinishes, WorkerAsks, WorkerAnswered, PaneStops,
                    PaneResumes, PaneReplaced, Rest, Crash, Restart, inputs
      <3>4. ASSUME Observe \/ Supervise PROVE typed' = typed
        BY <3>4 DEF Observe, Supervise, inputs
      <3>5. QED BY <1>1, <3>1, <3>2, <3>3, <3>4 DEF Next, TypedToClaim
    <2>3. QED BY <2>1, <2>2
  <1>2. Inv /\ [Next]_vars => [TypedToClaim]_vars BY <1>1
  <1>3. QED BY <1>2, InvHolds, PTL DEF Spec, TypedInBoundPane

\* A mission that enters the queue stands before every queued mission of a lower
\* priority (server.js placeMissionByPriority), through whatever write it came.
THEOREM EnteringByPriority == Spec => EntersByPriority
  <1>1. Inv /\ [Next]_vars => [EntersInOrder]_vars BY NextKeeps
  <1>2. QED BY <1>1, InvHolds, PTL DEF Spec, EntersByPriority

================================================================================
