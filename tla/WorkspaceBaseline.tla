------------------------- MODULE WorkspaceBaseline -------------------------
(* The workspace baselines of src/workspace-baseline.js and src/server.js: a  *)
(* fingerprint of a Git checkout, taken before and after the work of a        *)
(* delivery run to see what the agent changed. A checkout cannot be locked:   *)
(* agents, editors and Git write while it is read. The capture reads Git's    *)
(* state three times, command by command, and every file twice between them,  *)
(* and gives up when two readings differ.                                     *)
EXTENDS Naturals, FiniteSets

CONSTANTS
  Paths,            \* files of the checkout, and instruction files
  Instructions,     \* instruction files that apply, outside the checkout
  Committed,        \* the files that are there and in the index at first
  Allowed,          \* the allowed paths of the step
  MaxEntries,       \* limits.maxEntries
  MaxWrites,        \* bound: changes of the workspace
  MaxCaptures       \* bound: captures

Checkout ==
  Instructions \subseteq Paths /\ Committed \subseteq Paths /\ MaxWrites \in Nat

VARIABLES
  world,            \* the workspace
  phase,            \* the step of the run
  expected, built,  \* its baselines: before the step, and as implemented
  cap,              \* the capture under way
  lived,            \* what the workspace was since that capture began
  torn,             \* a capture returned what the workspace never was
  writes, captures

vars == <<world, phase, expected, built, cap, lived, torn, writes, captures>>

\* Shapes of a repository that cannot be fingerprinted: an untrusted or moved
\* .git directory or a sparse checkout, links to other repositories or
\* unmerged files in the index, files the index conceals.
Shapes == {"git_dir", "gitlink", "concealed"}

NoBaseline == [head |-> 0, index |-> {}, files |-> {}]
NoGit == [head |-> 0, index |-> {}, untracked |-> {}, ignored |-> {}, odd |-> {}]
NoCapture == [for |-> "none", round |-> 0, part |-> "head", git |-> NoGit, prev |-> NoGit,
              files |-> {}, first |-> {}]

\* ------------------------------------------------------ what Git lists

Content(w, p) == w.tree[p]
Untracked(w) == {p \in Paths \ Instructions :
                   Content(w, p) # 0 /\ ~(\E e \in w.index : e[1] = p) /\ p \notin w.hidden}
Ignored(w) == {p \in w.hidden : Content(w, p) # 0 /\ ~(\E e \in w.index : e[1] = p)}
Indexed(git) == {e[1] : e \in git.index}

\* What a workspace has to look like for a baseline of it.
Shown(w) == [head |-> w.head, index |-> w.index,
             files |-> {<<p, Content(w, p)>> : p \in {q \in Paths :
                          \/ q \in {e[1] : e \in w.index}
                          \/ Content(w, q) # 0 /\ q \notin Ignored(w)}}]

\* ------------------------------------------------------ the world

Init ==
  /\ world = [tree |-> [p \in Paths |-> IF p \in Committed \union Instructions THEN 1 ELSE 0],
              index |-> {<<p, 1>> : p \in Committed}, head |-> 1,
              hidden |-> {}, linked |-> {}, odd |-> {}, gone |-> {}]
  /\ phase = "new" /\ expected = NoBaseline /\ built = NoBaseline
  /\ cap = NoCapture /\ lived = {} /\ torn = FALSE
  /\ writes = 0 /\ captures = 0

\* Content that was replaced does not come back.
World(w) ==
  /\ writes < MaxWrites /\ writes' = writes + 1
  /\ world' = w
  /\ lived' = IF cap.for = "none" THEN {} ELSE lived \union {w}
  /\ UNCHANGED <<phase, expected, built, cap, torn, captures>>

Write(p) == p \notin world.gone /\ World([world EXCEPT !.tree[p] = writes + 2])
Delete(p) ==
  /\ Content(world, p) # 0 /\ p \notin Instructions
  /\ World([world EXCEPT !.tree[p] = 0, !.gone = @ \union {p}])
Stage(p) ==
  /\ Content(world, p) # 0 /\ p \notin Instructions \union world.hidden
  /\ <<p, Content(world, p)>> \notin world.index
  /\ World([world EXCEPT !.index =
              {e \in @ : e[1] # p} \union {<<p, Content(world, p)>>}])
Commit == World([world EXCEPT !.head = @ + 1])
Hide(p) == p \notin Committed \union Instructions /\ World([world EXCEPT !.hidden = @ \union {p}])
\* A hard link, a special file or a symbolic link that leaves the checkout.
Link(p) == Content(world, p) # 0 /\ World([world EXCEPT !.linked = @ \union {p}])
Reshape(shape) == World([world EXCEPT !.odd = @ \union {shape}])

\* ------------------------------------------------------ the capture

Begin(for) ==
  /\ cap.for = "none" /\ captures < MaxCaptures
  /\ cap' = [NoCapture EXCEPT !.for = for, !.round = 1]
  /\ lived' = {world} /\ captures' = captures + 1
  /\ UNCHANGED <<world, phase, expected, built, torn, writes>>

Reading(part) == cap.for # "none" /\ cap.part = part
Advances == UNCHANGED <<world, phase, expected, built, lived, torn, writes, captures>>

Refuse ==
  cap' = NoCapture /\ lived' = {} /\ UNCHANGED <<world, phase, expected, built, torn, writes, captures>>

\* The directories, the branch, the commit and the sparse settings.
ReadIdentity ==
  /\ Reading("head")
  /\ cap' = [cap EXCEPT !.git = [NoGit EXCEPT !.head = world.head,
                                   !.odd = world.odd \intersect {"git_dir"}],
                        !.part = "index"]
  /\ Advances

ReadIndex ==
  /\ Reading("index")
  /\ cap' = [cap EXCEPT !.git.index = world.index,
                        !.git.odd = @ \union (world.odd \intersect {"gitlink"}),
                        !.part = "flags"]
  /\ Advances

ReadIndexFlags ==
  /\ Reading("flags")
  /\ cap' = [cap EXCEPT !.git.odd = @ \union (world.odd \intersect {"concealed"})
                          \union (IF {e[1] : e \in world.index} = Indexed(cap.git)
                                    THEN {} ELSE {"mismatch"}),
                        !.part = "untracked"]
  /\ Advances

ReadUntracked ==
  /\ Reading("untracked")
  /\ cap' = [cap EXCEPT !.git.untracked = Untracked(world), !.part = "ignored"]
  /\ Advances

Eligible(git) ==
  /\ git.odd = {} /\ git.ignored = {}
  /\ git.untracked \intersect Indexed(git) = {}
  /\ Cardinality(git.index) + Cardinality(git.untracked) <= MaxEntries

\* The last command of a reading: unless it differs from the one before, the
\* files come next, and after the third reading the baseline is complete.
ReadIgnored ==
  /\ Reading("ignored")
  /\ LET git == [cap.git EXCEPT !.ignored = Ignored(world)] IN
     /\ cap.round > 1 => git = cap.prev
     /\ Eligible(git)
     /\ cap' = [cap EXCEPT !.git = git, !.part = IF cap.round = 3 THEN "done" ELSE "files"]
  /\ Advances

Unstable ==
  /\ Reading("ignored")
  /\ LET git == [cap.git EXCEPT !.ignored = Ignored(world)] IN
       (cap.round > 1 /\ git # cap.prev) \/ ~Eligible(git)
  /\ Refuse

\* What is read in turn: the index, the untracked files, the instructions.
Todo ==
  LET read == {f[1] : f \in cap.files}
      tracked == Indexed(cap.git) \ read
      untracked == cap.git.untracked \ read
  IN CASE tracked # {} -> tracked
       [] tracked = {} /\ untracked # {} -> untracked
       [] OTHER -> Instructions \ read

\* A file is hashed between two looks at its times, so as of one moment.
Fingerprint(p) ==
  /\ Reading("files") /\ Todo # {} /\ p = CHOOSE q \in Todo : TRUE
  /\ p \notin world.linked
  /\ Content(world, p) = 0 => p \in Indexed(cap.git)
  /\ cap' = [cap EXCEPT !.files = @ \union {<<p, Content(world, p)>>}]
  /\ Advances

\* It is of no kind that is read, is gone, or changes while it is read.
Unreadable(p) ==
  /\ Reading("files") /\ Todo # {} /\ p = CHOOSE q \in Todo : TRUE
  /\ \/ p \in world.linked
     \/ Content(world, p) = 0 /\ p \notin Indexed(cap.git)
     \/ \E w \in lived : Content(w, p) # Content(world, p)
  /\ Refuse

\* mutant: the second fingerprints replace the first
FilesReadOnce ==
  /\ Reading("files") /\ Todo = {}
  /\ cap' = [cap EXCEPT !.round = @ + 1, !.part = "head", !.prev = cap.git,
                        !.first = cap.files, !.files = IF cap.round = 1 THEN {} ELSE @]
  /\ Advances

\* The first fingerprints are kept, the second have to agree with them.
FilesRead ==
  /\ Reading("files") /\ Todo = {}
  /\ cap.round = 2 => cap.files = cap.first
  /\ cap' = [cap EXCEPT !.round = @ + 1, !.part = "head", !.prev = cap.git,
                        !.first = cap.files, !.files = IF cap.round = 1 THEN {} ELSE @]
  /\ Advances

FilesDiffer == Reading("files") /\ Todo = {} /\ cap.round = 2 /\ cap.files # cap.first /\ Refuse

Baseline == [head |-> cap.git.head, index |-> cap.git.index, files |-> cap.files]

\* ------------------------------------------------------ its use in a run

ChangedPaths(before, after) ==
  {p \in Paths \ Instructions :
     {f \in before.files : f[1] = p} # {f \in after.files : f[1] = p}}

\* Nothing but allowed files of the working tree changed, and some did.
Compares(before, after) ==
  /\ before.head = after.head /\ before.index = after.index
  /\ \A p \in Instructions : {f \in before.files : f[1] = p} = {f \in after.files : f[1] = p}
  /\ ChangedPaths(before, after) # {}
  /\ ChangedPaths(before, after) \subseteq Allowed

Complete(for, verdict, next, b, e) ==
  /\ Reading("done") /\ cap.for = for /\ verdict
  /\ phase' = next /\ built' = b /\ expected' = e
  /\ cap' = NoCapture /\ lived' = {}
  /\ torn' = (torn \/ (\A w \in lived : Shown(w) # Baseline)
                   \/ (\A w \in lived : Ignored(w) # {}))
  /\ UNCHANGED <<world, writes, captures>>

AskStart == phase = "new" /\ Begin("start")
RunStarts == Complete("start", TRUE, "ready", built, Baseline)

AskMission == phase = "ready" /\ Begin("mission")
MissionLinked == Complete("mission", Baseline = expected, "linked", built, expected)
OffCourse == Complete("mission", Baseline # expected, "off_course", built, expected)

AskDispatch == phase = "linked" /\ Begin("dispatch")
Dispatched == Complete("dispatch", Baseline = expected, "dispatched", built, expected)
DispatchRefused == Complete("dispatch", Baseline # expected, phase, built, expected)

AskImplementation == phase = "dispatched" /\ Begin("implementation")
ImplementationCaptured ==
  Complete("implementation", Compares(expected, Baseline), "captured", Baseline, expected)
CaptureRefused == Complete("implementation", ~Compares(expected, Baseline), phase, built, expected)

\* The next step builds on the verified one.
AskVerification == phase = "captured" /\ Begin("verify")
Verified == Complete("verify", Baseline = built, "ready", built, built)
VerificationRefused == Complete("verify", Baseline # built, phase, built, expected)

\* ------------------------------------------------------ the specification

Writers ==
  \/ \E p \in Paths : Write(p) \/ Delete(p) \/ Stage(p) \/ Hide(p) \/ Link(p)
  \/ Commit
  \/ \E shape \in Shapes : Reshape(shape)

Capture ==
  \/ ReadIdentity \/ ReadIndex \/ ReadIndexFlags \/ ReadUntracked \/ ReadIgnored \/ Unstable
  \/ \E p \in Paths : Fingerprint(p) \/ Unreadable(p)
  \/ FilesRead \/ FilesDiffer

Run ==
  \/ AskStart \/ RunStarts
  \/ AskMission \/ MissionLinked \/ OffCourse
  \/ AskDispatch \/ Dispatched \/ DispatchRefused
  \/ AskImplementation \/ ImplementationCaptured \/ CaptureRefused
  \/ AskVerification \/ Verified \/ VerificationRefused

Next == Writers \/ Capture \/ Run

Spec == Init /\ [][Next]_vars

\* ------------------------------------------------------ properties

TypeOK ==
  /\ phase \in {"new", "ready", "linked", "dispatched", "captured", "off_course"}
  /\ cap.for \in {"none", "start", "mission", "dispatch", "implementation", "verify"}
  /\ cap.round \in 0 .. 3 /\ cap.git.untracked \subseteq Paths
  /\ torn \in BOOLEAN /\ writes \in 0 .. MaxWrites

\* Whatever writes meanwhile, a baseline is the whole workspace as it was at
\* one moment of its capture, without the files that Git then ignores: no
\* mixture of files of different times, no file it does not show. At some
\* moment of the capture Git ignores none.
OfOneMoment == ~torn

\* The parts together.
BaselineSafe == TypeOK /\ OfOneMoment
=============================================================================
