---------------------------- MODULE Orchestrator ----------------------------
(***************************************************************************)
(* Alice's seeded memory and its archive, and the demo of orchestrator.py  *)
(* in which Bob learns from it: agents/seed_alice.py, alice.py, bob.py and *)
(* orchestrator.py over MemoryService.                                     *)
(*                                                                         *)
(* Two processes share the archive: "seed" is the command that builds it,  *)
(* "demo" the one that hosts Alice and Bob.  Both save through one name    *)
(* beside it: open (which truncates), write, os.replace.  An open handle   *)
(* follows its file through a rename.  A crash loses what is in memory and *)
(* leaves the files as they are.  The demo's steps may be called in any    *)
(* order.  The payment for a query is DarkPool's business.                 *)
(***************************************************************************)
EXTENDS MemoryService, Constitution

CONSTANTS
  Corpora,        \* by version: texts in the order of make_corpus, and pinned rules
  Ours,           \* the version of the demo's Alice
  Size,           \* corpus_size of the demo's Alice
  Seeds,          \* --seed and --model of the seed command: a version for each
  SeedSizes,      \* --n of the seed command
  Kept,           \* version and size of the archives that may be there already
  BobRules,       \* Bob's constitution: a sequence of rules
  ExtraRules,     \* what a child may be given on top
  RuleId,         \* rule_id, or the kind of a rule without one
  Meaning,        \* by rule: the rest of its dict
  Caps,           \* memory_working_cap
  Hits,           \* the entries that Bob's questions find (bound)
  Ahead,          \* how far step 5 looks ahead
  Generations, MaxTime, MaxCrashes, MaxStarts    \* bounds

Processes == {"seed", "demo"}

\* The seed command pins the rules of this code, whatever its seed and model.
Sizes(v) == 1 .. Len(Corpora[v].texts)
RulesOf(v) == Corpora[v].rules
AliceRules == RulesOf(Ours)

ASSUME OrchestratorAssumption ==
  /\ \A v \in DOMAIN Corpora :
       Len(Corpora[v].texts) \in Nat /\ IsFiniteSet(RulesOf(v))
  /\ Ours \in DOMAIN Corpora /\ Size \in Sizes(Ours)
  /\ Seeds \subseteq DOMAIN Corpora
  /\ \A v \in Seeds : RulesOf(v) = AliceRules /\ SeedSizes \subseteq Sizes(v)
  /\ \A k \in Kept : k = <<k[1], k[2]>> /\ k[1] \in DOMAIN Corpora /\ k[2] \in Sizes(k[1])
  /\ ExtraRules \subseteq DOMAIN RuleId
  /\ BobRules \in Seq(DOMAIN RuleId) /\ DOMAIN Meaning = DOMAIN RuleId
  /\ \A r \in DOMAIN RuleId : Field(Meaning[r], "bound", 0) \in Nat
  /\ Caps \subseteq Nat /\ Ahead \in Nat
  /\ Generations \in Nat \ {0}
  /\ MaxTime \in Nat /\ MaxCrashes \in Nat /\ MaxStarts \in Nat

VARIABLES
  now,
  archive, tmp,     \* mem_path and mem_path.tmp
  pc, job,          \* by process: next step, entries asked and what follows a save
  ram,              \* by process: Alice's memory
  handle,           \* by process: the file it writes to
  mixed,            \* processes whose file another one opened before they were done
  results,          \* top of last_query_results
  agents,           \* Bob and his descendants: constitution and memory
  crashes, starts

fileVars == <<archive, tmp>>
procVars == <<pc, job, ram, handle, mixed>>
bobVars == <<results, agents>>
vars == <<now, fileVars, procVars, bobVars, crashes, starts>>

-----------------------------------------------------------------------------
(***************************************************************************)
(* Alice's memory and its file.                                            *)
(***************************************************************************)

\* _build_memory and _cold_build_with_centroid: the corpus, then the rules.  The
\* origin names the version, whose seed turns every vector.
AroundZero(v) == <<"zero", v>>
AroundMean(v, n) == <<"mean", v, n>>
Traces(n) == {<<"trace", k>> : k \in 1 .. n}
PinTraces(v) == {<<"pinned", r>> : r \in RulesOf(v)}

Build(centroid, n, t) ==
  LET m == Centered(centroid)   v == centroid[2]
  IN [centroid |-> Origin(m),
      entries |-> [id \in Traces(n) \cup PinTraces(v) |->
         IF id \in Traces(n) THEN Entry(m, "working", FALSE, Corpora[v].texts[id[2]], t)
         ELSE Entry(m, "pinned", TRUE, id[2], t)]]
Builds(v, n, t) == {Build(AroundZero(v), n, t), Build(AroundMean(v, n), n, t)}

\* What is built is neither a missing nor a torn file.
ASSUME FilesAssumption ==
  /\ NoFile # Torn
  /\ \A v \in DOMAIN Corpora : \A n \in Sizes(v), t \in 0 .. MaxTime :
       \A m \in Builds(v, n, t) : Readable(m)

\* A readable archive with as many entries as this corpus and these rules have;
\* nothing else of it is looked at.
EnoughForCorpus(file, n) == Readable(file) /\ Count(file) >= n
Usable(file, n) == Readable(file) /\ Count(file) >= n + Cardinality(AliceRules)

Idle == [p \in Processes |-> "off"]
NoJob == [v |-> Ours, n |-> 0, then |-> "off"]

Init ==
  /\ now = 0
  /\ archive \in {NoFile, Torn} \cup UNION {Builds(k[1], k[2], 0) : k \in Kept}
  /\ tmp = NoFile
  /\ pc = Idle /\ job = [p \in Processes |-> NoJob]
  /\ ram = [p \in Processes |-> EmptyMemory]
  /\ handle = Idle /\ mixed = {}
  /\ results = {}
  /\ agents = << >>
  /\ crashes = 0 /\ starts = 0

\* The seed command with its --seed, --model and --n, and --force, which skips
\* the cache; or whatever step of the demo finds Alice not bootstrapped.
StartSeed(v, n, force) ==
  /\ pc["seed"] = "off"
  /\ starts < MaxStarts                                           \* bound
  /\ starts' = starts + 1
  /\ job' = [job EXCEPT !["seed"] = [v |-> v, n |-> n, then |-> "boot"]]
  /\ IF force \/ ~Usable(archive, n)
     THEN /\ ram' = [ram EXCEPT !["seed"] = Build(AroundMean(v, n), n, now)]
          /\ pc' = [pc EXCEPT !["seed"] = "open"]
     ELSE pc' = [pc EXCEPT !["seed"] = "boot"] /\ UNCHANGED ram
  /\ UNCHANGED <<now, fileVars, handle, mixed, bobVars, crashes>>

StartDemo ==
  /\ pc["demo"] = "off"
  /\ pc' = [pc EXCEPT !["demo"] = "boot"]
  /\ job' = [job EXCEPT !["demo"] = [v |-> Ours, n |-> Size, then |-> "ready"]]
  /\ UNCHANGED <<now, fileVars, ram, handle, mixed, bobVars, crashes, starts>>

\* A process that has ended or died keeps nothing.
Ended(p) ==
  /\ pc' = [pc EXCEPT ![p] = "off"]
  /\ job' = [job EXCEPT ![p] = NoJob]
  /\ ram' = [ram EXCEPT ![p] = EmptyMemory]

\* Alice.bootstrap: the archive if it will do, else a build around the origin,
\* which is saved.  The seed command ends with it.
Warm(p) ==
  IF p = "seed" THEN Ended(p)
  ELSE /\ ram' = [ram EXCEPT ![p] = archive]
       /\ pc' = [pc EXCEPT ![p] = "ready"]
       /\ UNCHANGED job
Cold(p) ==
  /\ ram' = [ram EXCEPT ![p] = Build(AroundZero(job[p].v), job[p].n, now)]
  /\ pc' = [pc EXCEPT ![p] = "open"]
  /\ job' = [job EXCEPT ![p].then = IF p = "seed" THEN "off" ELSE "ready"]

BootstrapOrRaise(p) ==
  /\ pc[p] = "boot" /\ archive # Torn
  /\ IF Usable(archive, job[p].n) THEN Warm(p) ELSE Cold(p)
  /\ UNCHANGED <<now, fileVars, handle, mixed, bobVars, crashes, starts>>
Bootstrap(p) ==
  /\ pc[p] = "boot"
  /\ IF Usable(archive, job[p].n) THEN Warm(p) ELSE Cold(p)
  /\ UNCHANGED <<now, fileVars, handle, mixed, bobVars, crashes, starts>>

\* save, in three steps.  Two writers on one file leave either of their
\* contents or a mixture that no one can read.
Others(p) == {q \in Processes \ {p} : pc[q] \in {"write", "replace"}}
Touched(p) ==
  IF \E q \in Others(p) : handle[q] = "tmp" THEN {p} \cup Others(p) ELSE Others(p)

OpenInPlace(p) ==
  /\ pc[p] = "open"
  /\ pc' = [pc EXCEPT ![p] = "write"]
  /\ handle' = [handle EXCEPT ![p] = "archive"]
  /\ archive' = Torn
  /\ mixed' = mixed \cup Touched(p)
  /\ UNCHANGED <<now, tmp, job, ram, bobVars, crashes, starts>>
Open(p) ==
  /\ pc[p] = "open"
  /\ pc' = [pc EXCEPT ![p] = "write"]
  /\ handle' = [handle EXCEPT ![p] = "tmp"]
  /\ tmp' = Torn
  /\ mixed' = mixed \cup Touched(p)
  /\ UNCHANGED <<now, archive, job, ram, bobVars, crashes, starts>>

Written(p) == IF p \in mixed THEN {ram[p], Torn} ELSE {ram[p]}
Write(p) ==
  /\ pc[p] = "write"
  /\ pc' = [pc EXCEPT ![p] = "replace"]
  /\ handle' = [handle EXCEPT ![p] = "off"]
  /\ CASE handle[p] = "tmp" -> tmp' \in Written(p) /\ UNCHANGED archive
       [] handle[p] = "archive" -> archive' \in Written(p) /\ UNCHANGED tmp
       [] OTHER -> UNCHANGED fileVars       \* its file has been replaced
  /\ UNCHANGED <<now, job, ram, mixed, bobVars, crashes, starts>>

\* os.replace raises when the other writer has moved the file away.
Moved(h) == CASE h = "tmp" -> "archive" [] h = "archive" -> "gone" [] OTHER -> h
Replace(p) ==
  /\ pc[p] = "replace"
  /\ mixed' = mixed \ {p}
  /\ IF tmp = NoFile
     THEN Ended(p) /\ UNCHANGED <<fileVars, handle>>
     ELSE /\ archive' = tmp /\ tmp' = NoFile
          /\ handle' = [q \in Processes |-> Moved(handle[q])]
          /\ IF job[p].then = "off" THEN Ended(p)
             ELSE pc' = [pc EXCEPT ![p] = job[p].then] /\ UNCHANGED <<job, ram>>
  /\ UNCHANGED <<now, bobVars, crashes, starts>>

\* A process dies; the demo takes Alice, Bob and his family with it.
Crash(p) ==
  /\ pc[p] # "off"
  /\ crashes < MaxCrashes                                         \* bound
  /\ crashes' = crashes + 1
  /\ Ended(p)
  /\ handle' = [handle EXCEPT ![p] = "off"]
  /\ mixed' = mixed \ {p}
  /\ IF p = "demo" THEN results' = {} /\ agents' = << >> ELSE UNCHANGED bobVars
  /\ UNCHANGED <<now, fileVars, starts>>

-----------------------------------------------------------------------------
(***************************************************************************)
(* Bob and the steps of the demo.                                          *)
(***************************************************************************)

RuleTrace(r) == <<"pinned", RuleId[r]>>
PinRule(m, r) == Add(m, RuleTrace(r), "pinned", TRUE, r, now)

\* A constitution pinned rule by rule into memory m.
WithRules(m, rules) ==
  LET after[k \in 0 .. Len(rules)] ==
        IF k = 0 THEN m ELSE PinRule(after[k - 1], rules[k])
  IN after[Len(rules)]

\* Bob after bootstrap, which changes nothing the second time.
Family ==
  IF agents # << >> THEN agents
  ELSE <<[rules |-> BobRules, memory |-> WithRules(EmptyMemory, BobRules)]>>

\* Step 5 of demo_e2e anchors the root of the archive, after a look ahead.
AnchoredRoot == Root(Decayed(archive, now + Ahead))

\* Any entry may come first; the lesson is written down as a working trace.
Learned(family, id) ==
  [family EXCEPT ![1].memory =
     Add(@, <<"learned", id>>, "working", FALSE, ram["demo"].entries[id].text, now)]

Top == Ids(ram["demo"]) \cap Hits

\* Bob's steps touch no file: they are tried while nobody saves (bound).
Ready == pc["demo"] = "ready" /\ pc["seed"] = "off"

SpawnBob ==
  /\ Ready
  /\ agents' = Family
  /\ UNCHANGED <<now, fileVars, procVars, results, crashes, starts>>

QueryAlice ==
  /\ Ready
  /\ agents' = Family
  /\ \E id \in Top : results' = {id}
  /\ UNCHANGED <<now, fileVars, procVars, crashes, starts>>

\* Steps 3 and 4 query first when nothing has been; 4 then learns from a query
\* of its own.
Asked == IF results = {} THEN Top ELSE results
RecordLesson ==
  /\ Ready
  /\ \E id \in Asked : results' = {id} /\ agents' = Learned(Family, id)
  /\ UNCHANGED <<now, fileVars, procVars, crashes, starts>>

\* The label of the transfer that decide makes; no step reads it (last_intent).
Dicts(rules) == [k \in DOMAIN rules |-> Meaning[rules[k]]]
Label(rules, amount) == Classify(Dicts(rules), TransferIntent(amount))

AttemptViolatingTrade ==
  /\ Ready
  /\ \E first \in Asked, id \in Top :
       results' = {first} /\ agents' = Learned(Family, id)
  /\ UNCHANGED <<now, fileVars, procVars, crashes, starts>>

\* Working entries come in to show the eviction, and the clock goes ahead.
DecayMemory ==
  LET padded(m) == Add(m, <<"working", "padding">>, "working", FALSE, "padding", now)
  IN /\ Ready
     /\ agents' = [Family EXCEPT ![1].memory = Decayed(padded(@), now + Ahead)]
     /\ UNCHANGED <<now, fileVars, procVars, results, crashes, starts>>

\* spawn_child: the parent's constitution and extra rules; the parent's memory,
\* then the extra rules pinned.  A new child takes the place of an older one.
SpawnChild(g, extra, cap) ==
  /\ Ready
  /\ g \in DOMAIN Family /\ g < Generations                        \* bound
  /\ \E m \in Clones(Family[g].memory, cap) :
       agents' = SubSeq(Family, 1, g)
                 \o <<[rules |-> Family[g].rules \o extra,
                       memory |-> WithRules(m, extra)]>>
  /\ UNCHANGED <<now, fileVars, procVars, results, crashes, starts>>

Elapse ==
  /\ now < MaxTime                                                \* bound
  /\ now' = now + 1
  /\ UNCHANGED <<fileVars, procVars, bobVars, crashes, starts>>

Extras == {<< >>} \cup {<<r>> : r \in ExtraRules}
Work(p) == Bootstrap(p) \/ Open(p) \/ Write(p) \/ Replace(p)
Step ==
  \/ SpawnBob \/ QueryAlice \/ RecordLesson \/ AttemptViolatingTrade
  \/ DecayMemory
  \/ \E g \in 1 .. Generations, extra \in Extras, cap \in Caps :
       SpawnChild(g, extra, cap)

Next ==
  \/ \E v \in Seeds, n \in SeedSizes, force \in BOOLEAN : StartSeed(v, n, force)
  \/ StartDemo
  \/ \E p \in Processes : Work(p) \/ Crash(p)
  \/ Step
  \/ Elapse

Spec == Init /\ [][Next]_vars

\* The demo is started again after a crash or a failed save, and both
\* processes run on.
FairSpec ==
  /\ Spec
  /\ WF_vars(StartDemo)
  /\ \A p \in Processes : WF_vars(Work(p))

=============================================================================
