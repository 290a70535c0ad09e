---------------------------- MODULE RecoveryProofs ----------------------------
(***************************************************************************)
(* Proofs about recovery: drift reports and rollbacks over any resources,  *)
(* review branches with any number of requests over any drafts.            *)
(*                                                                         *)
(* Nothing locks the working tree.  What keeps two requests apart is that  *)
(* each writes its files before it looks for others' (Verify): of two with *)
(* different drafts, the second to look finds the first's files, until     *)
(* they are committed.                                                     *)
(***************************************************************************)
EXTENDS ReviewHandoff, Drift, FiniteSetTheorems, WellFoundedInduction, TLAPS

Holding(h)   == handoff[h].pc \in {"add", "commit", "back", "delete"}
Verified(h)  == handoff[h].pc \in {"exists", "base", "checkout"}
Committed(d) == d \in reviewed /\ \A h \in Handoffs : Holding(h) => Draft(h) # d

(* A request that may still command git: it holds its branch, or found its *)
(* files in the tree and may still get one.                                *)
Contends(h) == Holding(h) \/ (Verified(h) /\ ~Committed(Draft(h)))
Alone(h) == \A g \in Handoffs \ {h} : handoff[g].pc # "idle" => Draft(g) # Draft(h)

(* Branches: one request at a time holds a draft's branch; a branch has    *)
(* been made by some request; what is checked out exists; and commits are  *)
(* made by requests that end with them.                                    *)
BranchesInv ==
  /\ ReviewTypeOK /\ disturbed \in BOOLEAN
  /\ \A h \in Handoffs : Holding(h) => Draft(h) \in reviewed
  /\ \A h, g \in Handoffs : Holding(h) /\ Holding(g) /\ Draft(h) = Draft(g) => h = g
  /\ head \in Drafts => head \in reviewed
  /\ head = "main" => hasMain
  /\ \A d \in reviewed : \E k \in Handoffs : Draft(k) = d /\ (Holding(k) \/ handoff[k].pc \in {"done", "failed"})
  /\ \A c \in commits : c.by \in Handoffs /\ handoff[c.by].pc \in {"done", "failed"}

(* Files: those that contend agree on the draft; its files are in the tree *)
(* and nobody else's are staged; who has a branch has it checked out.      *)
TreeInv ==
  /\ \A h, g \in Handoffs : Contends(h) /\ Contends(g) => Draft(h) = Draft(g)
  /\ \A h \in Handoffs : Contends(h) => tree[Draft(h)] # "clean" /\ Staged \subseteq {Draft(h), "state"}
  /\ \A h \in Handoffs : handoff[h].pc \in {"add", "commit", "back"} => head = Draft(h)
  /\ \A c \in commits : c.branch = Draft(c.by) /\ c.files \subseteq {Draft(c.by), "state"}

(* Failures: a request alone with its draft knows a base it can return to, *)
(* and leaves its branch behind only with a commit, without a base or      *)
(* because git failed its cleanup.                                         *)
HasBase(h)  == handoff[h].base # Draft(h) /\ (handoff[h].base \in reviewed \/ handoff[h].base = "main")
Stranded(h) == h \in uncleaned \/ (handoff[h].base = "main" /\ ~hasMain)

CleanupInv ==
  \A h \in Handoffs : Alone(h) =>
    /\ handoff[h].pc \in {"checkout", "add", "commit", "back"} => HasBase(h)
    /\ handoff[h].pc = "delete" => head # Draft(h) \/ Stranded(h)
    /\ handoff[h].pc = "failed" /\ Draft(h) \in reviewed =>
         Stranded(h) \/ \E c \in commits : c.branch = Draft(h)

ReviewInv == BranchesInv /\ (~disturbed => TreeInv /\ CleanupInv)

-----------------------------------------------------------------------------
(* A step of one request changes its record only. *)
Moves(h, new) == handoff' = [handoff EXCEPT ![h] = new]

LEMMA OneMoves ==
  ASSUME ReviewTypeOK, NEW h \in Handoffs, NEW new \in HandoffRecord, Moves(h, new)
  PROVE  /\ handoff' \in [Handoffs -> HandoffRecord] /\ handoff'[h] = new
         /\ \A g \in Handoffs \ {h} :
              handoff'[g] = handoff[g] /\ Draft(g)' = Draft(g) /\ Holding(g)' = Holding(g) /\ Verified(g)' = Verified(g)
  BY DEF ReviewTypeOK, Moves, Draft, Holding, Verified

LEMMA NamesApart ==
  {"main", "detached", "source", "state"} \intersect Drafts = {} /\ Drafts \subseteq Paths /\ "state" \in Paths
  BY HandoffAssumption DEF Paths

(* Who is alone with a draft that has a branch made the branch itself.     *)
LEMMA OwnBranch ==
  ASSUME BranchesInv, NEW h \in Handoffs, Alone(h), Draft(h) \in reviewed
  PROVE  Holding(h) \/ handoff[h].pc \in {"done", "failed"}
<1>1. PICK k \in Handoffs : Draft(k) = Draft(h) /\ (Holding(k) \/ handoff[k].pc \in {"done", "failed"})
  BY DEF BranchesInv
<1>2. handoff[k].pc # "idle"
  BY <1>1 DEF Holding
<1> QED BY <1>1, <1>2 DEF Alone

(* So at its checkout it still contends.                                   *)
LEMMA AloneContends ==
  ASSUME BranchesInv, NEW h \in Handoffs, Alone(h), handoff[h].pc \in {"checkout", "add", "commit", "back", "delete"}
  PROVE  Contends(h)
  BY OwnBranch DEF Contends, Holding, Verified, Committed

(* Two that hold branches and agree on the draft are one.                  *)
LEMMA OneHolder ==
  ASSUME BranchesInv, TreeInv, NEW h \in Handoffs, NEW g \in Handoffs, Holding(h), Holding(g)
  PROVE  g = h
  BY DEF BranchesInv, TreeInv, Contends

-----------------------------------------------------------------------------
(* Steps of a request that holds no branch and gets none: it looks at the  *)
(* tree, writes its files or gives up.                                     *)
Quiet(h, new) ==
  /\ ~Holding(h) /\ handoff[h].pc \notin {"done", "failed"}
  /\ new.pc \notin {"idle", "add", "commit", "back", "delete", "done"}
  /\ handoff[h].pc = "idle" \/ new.draft = Draft(h)
  /\ UNCHANGED <<head, hasMain, reviewed, commits, disturbed, uncleaned>>
  /\ tree' \in [Paths -> {"clean", "changed", "staged"}]
  /\ \A p \in Paths : (tree[p] # "clean" => tree'[p] # "clean") /\ (tree'[p] = "staged" => tree[p] = "staged")
  /\ new.pc \in {"exists", "base", "checkout"} =>
       Verified(h) \/ (EnsureNoUnrelatedChanges(new.draft) /\ new.draft \in ChangedPaths)
  /\ new.pc = "checkout" => new.base = head \/ new.base = "main"

LEMMA QuietStep ==
  ASSUME ReviewInv, NEW h \in Handoffs, NEW new \in HandoffRecord, Moves(h, new), Quiet(h, new)
  PROVE  ReviewInv'
<1>m. /\ handoff' \in [Handoffs -> HandoffRecord] /\ handoff'[h] = new
      /\ \A g \in Handoffs \ {h} :
           handoff'[g] = handoff[g] /\ Draft(g)' = Draft(g) /\ Holding(g)' = Holding(g) /\ Verified(g)' = Verified(g)
  BY OneMoves DEF ReviewInv, BranchesInv
<1>q. /\ head' = head /\ hasMain' = hasMain /\ reviewed' = reviewed /\ commits' = commits
      /\ disturbed' = disturbed /\ uncleaned' = uncleaned
      /\ ~Holding(h) /\ ~Holding(h)' /\ Draft(h)' = new.draft
      /\ \A k \in Handoffs : Holding(k) \/ handoff[k].pc \in {"done", "failed"} => k # h /\ handoff[k].pc # "idle"
  BY <1>m DEF Quiet, Holding, Draft
<1>1. BranchesInv'
  <2>1. ReviewTypeOK' /\ disturbed' \in BOOLEAN
    BY <1>m, <1>q DEF ReviewInv, BranchesInv, ReviewTypeOK, Quiet
  <2>2. \A d \in reviewed' : \E k \in Handoffs : Draft(k)' = d /\ (Holding(k)' \/ handoff'[k].pc \in {"done", "failed"})
    <3> SUFFICES ASSUME NEW d \in reviewed
                 PROVE  \E k \in Handoffs : Draft(k)' = d /\ (Holding(k)' \/ handoff'[k].pc \in {"done", "failed"})
      BY <1>q
    <3>1. PICK k \in Handoffs : Draft(k) = d /\ (Holding(k) \/ handoff[k].pc \in {"done", "failed"})
      BY DEF ReviewInv, BranchesInv
    <3> QED BY <3>1, <1>m, <1>q
  <2>3. \A g \in Handoffs : Holding(g)' => g # h /\ Holding(g) /\ Draft(g)' = Draft(g)
    BY <1>m, <1>q
  <2>4. \A c \in commits' : c.by \in Handoffs /\ handoff'[c.by].pc \in {"done", "failed"}
    BY <1>m, <1>q DEF ReviewInv, BranchesInv
  <2> QED BY <2>1, <2>2, <2>3, <2>4, <1>q DEF ReviewInv, BranchesInv
<1>2. ASSUME ~disturbed PROVE TreeInv' /\ CleanupInv'
  <2>t. TreeInv /\ CleanupInv /\ BranchesInv
    BY <1>2 DEF ReviewInv
  <2>c. \A d : Committed(d)' <=> Committed(d)
    BY <1>m, <1>q DEF Committed
  <2>1. \A g \in Handoffs \ {h} : Contends(g)' => Contends(g)
    BY <2>c, <1>m DEF Contends
  <2>2. ASSUME Contends(h)'
        PROVE  /\ tree'[new.draft] # "clean" /\ Staged \subseteq {new.draft, "state"}
               /\ \A g \in Handoffs \ {h} : Contends(g) => Draft(g) = new.draft
    <3>1. Verified(h)' /\ ~Committed(new.draft) /\ new.pc \in {"exists", "base", "checkout"}
      BY <2>2, <2>c, <1>m, <1>q DEF Contends, Verified
    <3>d. new.draft \in Drafts /\ new.draft \in Paths
      BY NamesApart DEF HandoffRecord
    <3>2. CASE Verified(h)
      <4>1. new.draft = Draft(h)
        BY <3>2 DEF Quiet, Verified
      <4>2. Contends(h)
        BY <3>1, <3>2, <4>1 DEF Contends
      <4> QED BY <2>t, <4>1, <4>2, <3>d DEF TreeInv, Quiet
    <3>3. CASE EnsureNoUnrelatedChanges(new.draft) /\ new.draft \in ChangedPaths
      <4>1. tree'[new.draft] # "clean"
        BY <3>3, <3>d DEF ChangedPaths, Quiet
      <4>2. Staged \subseteq {new.draft, "state"}
        BY <3>3 DEF Staged, EnsureNoUnrelatedChanges, ChangedPaths, Ignorable
      <4>3. ASSUME NEW g \in Handoffs, Contends(g) PROVE Draft(g) = new.draft
        <5>1. tree[Draft(g)] # "clean" /\ Draft(g) \in Drafts
          BY <4>3, <2>t DEF TreeInv, BranchesInv, ReviewTypeOK, HandoffRecord, Draft
        <5> QED BY <5>1, <3>3, NamesApart DEF EnsureNoUnrelatedChanges, ChangedPaths, Ignorable
      <4> QED BY <4>1, <4>2, <4>3
    <3> QED BY <3>1, <3>2, <3>3 DEF Quiet
  <2>s. Staged' \subseteq Staged
    BY DEF Staged, Quiet
  <2>3. \A g \in Handoffs : Contends(g)' => tree'[Draft(g)'] # "clean" /\ Staged' \subseteq {Draft(g)', "state"}
    <3>1. ASSUME NEW g \in Handoffs \ {h}, Contends(g)'
          PROVE  tree'[Draft(g)'] # "clean" /\ Staged' \subseteq {Draft(g)', "state"}
      <4>1. tree[Draft(g)] # "clean" /\ Staged \subseteq {Draft(g), "state"} /\ Draft(g)' = Draft(g)
        BY <3>1, <2>1, <2>t, <1>m DEF TreeInv
      <4>2. Draft(g) \in Paths
        BY NamesApart, <2>t DEF BranchesInv, ReviewTypeOK, HandoffRecord, Draft
      <4> QED BY <4>1, <4>2, <2>s DEF Quiet
    <3> QED BY <3>1, <2>2, <2>s, <1>q
  <2>4. \A g, k \in Handoffs : Contends(g)' /\ Contends(k)' => Draft(g)' = Draft(k)'
    BY <2>t, <2>1, <2>2, <1>m, <1>q DEF TreeInv
  <2>5. TreeInv'
    <3>1. \A g \in Handoffs : handoff'[g].pc \in {"add", "commit", "back"} => head' = Draft(g)'
      BY <2>t, <1>m, <1>q DEF TreeInv, Holding
    <3>2. \A c \in commits' : c.branch = Draft(c.by)' /\ c.files \subseteq {Draft(c.by)', "state"}
      BY <2>t, <1>m, <1>q DEF TreeInv, BranchesInv
    <3> QED BY <2>3, <2>4, <3>1, <3>2 DEF TreeInv
  <2>6. \A g \in Handoffs \ {h} : Alone(g)' => Alone(g)
    <3> SUFFICES ASSUME NEW g \in Handoffs \ {h}, Alone(g)', handoff[h].pc # "idle"
                 PROVE  Draft(h) # Draft(g)
      BY <1>m DEF Alone
    <3> QED BY <1>m, <1>q DEF Alone, Quiet
  <2>7. Alone(h)' => new.draft \notin reviewed
    <3> SUFFICES ASSUME Alone(h)', new.draft \in reviewed PROVE FALSE
      OBVIOUS
    <3>1. PICK k \in Handoffs : Draft(k) = new.draft /\ (Holding(k) \/ handoff[k].pc \in {"done", "failed"})
      BY <2>t DEF BranchesInv
    <3> QED BY <3>1, <1>m, <1>q DEF Alone
  <2>8. CleanupInv'
    <3>1. ASSUME NEW g \in Handoffs \ {h}, Alone(g)'
          PROVE  /\ handoff'[g].pc \in {"checkout", "add", "commit", "back"} => HasBase(g)'
                 /\ handoff'[g].pc = "delete" => head' # Draft(g)' \/ Stranded(g)'
                 /\ handoff'[g].pc = "failed" /\ Draft(g)' \in reviewed' =>
                      Stranded(g)' \/ \E c \in commits' : c.branch = Draft(g)'
      <4>1. Alone(g) /\ handoff'[g] = handoff[g] /\ Draft(g)' = Draft(g)
        BY <3>1, <2>6, <1>m
      <4>2. HasBase(g)' = HasBase(g) /\ Stranded(g)' = Stranded(g)
        BY <4>1, <1>q DEF HasBase, Stranded
      <4> QED BY <4>1, <4>2, <2>t, <1>q DEF CleanupInv
    <3>2. ASSUME Alone(h)', new.pc = "checkout" PROVE HasBase(h)'
      <4>1. new.draft \notin reviewed /\ new.draft \in Drafts /\ new.draft # "main"
        BY <3>2, <2>7, NamesApart DEF HandoffRecord
      <4>2. new.base \in Drafts \union {"main"}
        BY DEF HandoffRecord
      <4>3. new.base = head \/ new.base = "main"
        BY <3>2 DEF Quiet
      <4>4. head \in Drafts => head \in reviewed
        BY <2>t DEF BranchesInv
      <4> QED BY <4>1, <4>2, <4>3, <4>4, <1>m, <1>q DEF HasBase
    <3>3. new.pc \notin {"add", "commit", "back", "delete"}
      BY DEF Quiet
    <3> QED BY <3>1, <3>2, <3>3, <2>7, <1>m, <1>q DEF CleanupInv
  <2> QED BY <2>5, <2>8
<1> QED BY <1>1, <1>2, <1>q DEF ReviewInv

-----------------------------------------------------------------------------
(* A branch is made: nobody else can have contended for another draft.     *)
LEMMA CheckedOut ==
  ASSUME ReviewInv, NEW h \in Handoffs, NEW new \in HandoffRecord, Moves(h, new),
         handoff[h].pc = "checkout", new.pc = "add", new.draft = Draft(h), new.base = handoff[h].base,
         Draft(h) \notin reviewed, head' = Draft(h), reviewed' = reviewed \union {Draft(h)},
         UNCHANGED <<hasMain, tree, commits, disturbed, uncleaned>>
  PROVE  ReviewInv'
<1>m. /\ handoff' \in [Handoffs -> HandoffRecord] /\ handoff'[h] = new
      /\ \A g \in Handoffs \ {h} :
           handoff'[g] = handoff[g] /\ Draft(g)' = Draft(g) /\ Holding(g)' = Holding(g) /\ Verified(g)' = Verified(g)
  BY OneMoves DEF ReviewInv, BranchesInv
<1>q. ~Holding(h) /\ Holding(h)' /\ Draft(h)' = Draft(h) /\ Draft(h) \in Drafts /\ Contends(h)
  BY <1>m DEF Holding, Draft, HandoffRecord, Contends, Verified, Committed
<1>1. BranchesInv'
  <2>1. ReviewTypeOK' /\ disturbed' \in BOOLEAN
    BY <1>m, <1>q DEF ReviewInv, BranchesInv, ReviewTypeOK
  <2>2. \A g \in Handoffs : Holding(g)' => Draft(g)' \in reviewed' /\ (g # h => Draft(g) # Draft(h))
    BY <1>m, <1>q DEF ReviewInv, BranchesInv
  <2>3. \A g, k \in Handoffs : Holding(g)' /\ Holding(k)' /\ Draft(g)' = Draft(k)' => g = k
    BY <2>2, <1>m, <1>q DEF ReviewInv, BranchesInv
  <2>4. \A d \in reviewed' : \E k \in Handoffs : Draft(k)' = d /\ (Holding(k)' \/ handoff'[k].pc \in {"done", "failed"})
    <3>1. ASSUME NEW d \in reviewed
          PROVE  \E k \in Handoffs : Draft(k)' = d /\ (Holding(k)' \/ handoff'[k].pc \in {"done", "failed"})
      <4>1. PICK k \in Handoffs : Draft(k) = d /\ (Holding(k) \/ handoff[k].pc \in {"done", "failed"})
        BY DEF ReviewInv, BranchesInv
      <4> QED BY <4>1, <1>m, <1>q
    <3> QED BY <3>1, <1>q
  <2>5. head' \in reviewed' /\ head' # "main"
    BY <1>q, NamesApart
  <2>6. \A c \in commits' : c.by \in Handoffs /\ handoff'[c.by].pc \in {"done", "failed"}
    BY <1>m DEF ReviewInv, BranchesInv
  <2> QED BY <2>1, <2>2, <2>3, <2>4, <2>5, <2>6 DEF BranchesInv
<1>2. ASSUME ~disturbed PROVE TreeInv' /\ CleanupInv'
  <2>t. TreeInv /\ CleanupInv /\ BranchesInv
    BY <1>2 DEF ReviewInv
  <2>1. \A g \in Handoffs : Contends(g)' => Contends(g) /\ Draft(g)' = Draft(g)
    BY <1>m, <1>q DEF Contends, Committed
  <2>2. \A g \in Handoffs \ {h} : ~Holding(g)
    BY <1>1, <1>m, <1>q, <2>t DEF TreeInv, Contends, BranchesInv
  <2>3. TreeInv'
    <3>1. \A g \in Handoffs : handoff'[g].pc \in {"add", "commit", "back"} => head' = Draft(g)'
      BY <2>2, <1>m, <1>q DEF Holding
    <3>2. Staged' = Staged
      BY DEF Staged
    <3>3. \A c \in commits' : c.branch = Draft(c.by)' /\ c.files \subseteq {Draft(c.by)', "state"}
      BY <2>t, <1>m, <1>q DEF TreeInv, BranchesInv
    <3>4. \A g \in Handoffs : Contends(g)' => tree'[Draft(g)'] # "clean" /\ Staged' \subseteq {Draft(g)', "state"}
      BY <2>1, <2>t, <3>2 DEF TreeInv
    <3>5. \A g, k \in Handoffs : Contends(g)' /\ Contends(k)' => Draft(g)' = Draft(k)'
      BY <2>1, <2>t DEF TreeInv
    <3> QED BY <3>1, <3>3, <3>4, <3>5 DEF TreeInv
  <2>4. CleanupInv'
    <3> SUFFICES ASSUME NEW g \in Handoffs, Alone(g)'
                 PROVE  /\ handoff'[g].pc \in {"checkout", "add", "commit", "back"} => HasBase(g)'
                        /\ handoff'[g].pc = "delete" => head' # Draft(g)' \/ Stranded(g)'
                        /\ handoff'[g].pc = "failed" /\ Draft(g)' \in reviewed' =>
                             Stranded(g)' \/ \E c \in commits' : c.branch = Draft(g)'
      BY DEF CleanupInv
    <3>1. Alone(g) /\ Draft(g)' = Draft(g)
      BY <1>m, <1>q DEF Alone
    <3>2. CASE g = h
      BY <3>1, <3>2, <1>m, <1>q, <2>t DEF CleanupInv, HasBase
    <3>3. CASE g # h
      <4>1. Draft(g) # Draft(h) /\ handoff'[g] = handoff[g]
        BY <3>1, <3>3, <1>m DEF Alone
      <4>2. handoff[g].pc \notin {"add", "commit", "back", "delete"}
        BY <3>3, <2>2 DEF Holding
      <4>3. handoff[g].pc = "checkout" => HasBase(g)'
        BY <3>1, <4>1, <2>t DEF CleanupInv, HasBase
      <4>4. handoff[g].pc = "failed" /\ Draft(g) \in reviewed =>
              Stranded(g)' \/ \E c \in commits : c.branch = Draft(g)
        BY <3>1, <4>1, <2>t DEF CleanupInv, Stranded
      <4> QED BY <3>1, <4>1, <4>2, <4>3, <4>4
    <3> QED BY <3>2, <3>3
  <2> QED BY <2>3, <2>4
<1> QED BY <1>1, <1>2 DEF ReviewInv

(* Adding the files, or a commit that fails.                               *)
LEMMA HoldStep ==
  ASSUME ReviewInv, NEW h \in Handoffs, NEW new \in HandoffRecord, Moves(h, new),
         handoff[h].pc \in {"add", "commit"}, new.pc \in {"commit", "back"},
         new.draft = Draft(h), new.base = handoff[h].base,
         tree' = tree \/ tree' = [tree EXCEPT ![Draft(h)] = "staged"],
         UNCHANGED <<head, hasMain, reviewed, commits, disturbed, uncleaned>>
  PROVE  ReviewInv'
<1>m. /\ handoff' \in [Handoffs -> HandoffRecord] /\ handoff'[h] = new
      /\ \A g \in Handoffs \ {h} :
           handoff'[g] = handoff[g] /\ Draft(g)' = Draft(g) /\ Holding(g)' = Holding(g) /\ Verified(g)' = Verified(g)
  BY OneMoves DEF ReviewInv, BranchesInv
<1>q. Holding(h) /\ Holding(h)' /\ Draft(h)' = Draft(h) /\ Draft(h) \in Paths
  BY <1>m, NamesApart DEF Holding, Draft, HandoffRecord
<1>1. BranchesInv'
  <2>1. ReviewTypeOK' /\ disturbed' \in BOOLEAN
    BY <1>m, <1>q DEF ReviewInv, BranchesInv, ReviewTypeOK
  <2>2. \A g \in Handoffs : (Holding(g)' <=> Holding(g)) /\ Draft(g)' = Draft(g)
    BY <1>m, <1>q, Zenon
  <2>3. \A d \in reviewed : \E k \in Handoffs : Draft(k)' = d /\ (Holding(k)' \/ handoff'[k].pc \in {"done", "failed"})
    <3> SUFFICES ASSUME NEW d \in reviewed
                 PROVE  \E k \in Handoffs : Draft(k)' = d /\ (Holding(k)' \/ handoff'[k].pc \in {"done", "failed"})
      OBVIOUS
    <3>1. PICK k \in Handoffs : Draft(k) = d /\ (Holding(k) \/ handoff[k].pc \in {"done", "failed"})
      BY DEF ReviewInv, BranchesInv
    <3> QED BY <3>1, <2>2, <1>m
  <2>4. \A c \in commits' : c.by \in Handoffs /\ handoff'[c.by].pc \in {"done", "failed"}
    BY <1>m DEF ReviewInv, BranchesInv
  <2> QED BY <2>1, <2>2, <2>3, <2>4 DEF ReviewInv, BranchesInv
<1>2. ASSUME ~disturbed PROVE TreeInv' /\ CleanupInv'
  <2>t. TreeInv /\ CleanupInv /\ BranchesInv
    BY <1>2 DEF ReviewInv
  <2>1. \A g \in Handoffs : Contends(g)' = Contends(g) /\ Draft(g)' = Draft(g)
    BY <1>m, <1>q DEF Contends, Committed
  <2>2. ASSUME NEW g \in Handoffs, Contends(g)
        PROVE  tree'[Draft(g)] # "clean" /\ Staged' \subseteq {Draft(g), "state"}
    <3>1. Draft(g) = Draft(h) /\ tree[Draft(h)] # "clean" /\ Staged \subseteq {Draft(h), "state"}
      BY <2>2, <2>t, <1>q DEF TreeInv, Contends
    <3>2. tree \in [Paths -> {"clean", "changed", "staged"}]
      BY <2>t DEF BranchesInv, ReviewTypeOK
    <3> QED BY <3>1, <3>2, <1>q DEF Staged
  <2>3. TreeInv'
    <3>1. \A g \in Handoffs : handoff'[g].pc \in {"add", "commit", "back"} => head' = Draft(g)'
      BY <2>t, <2>1, <1>m DEF TreeInv
    <3>2. \A c \in commits' : c.branch = Draft(c.by)' /\ c.files \subseteq {Draft(c.by)', "state"}
      BY <2>t, <2>1 DEF TreeInv, BranchesInv
    <3>3. \A g \in Handoffs : Contends(g)' => tree'[Draft(g)'] # "clean" /\ Staged' \subseteq {Draft(g)', "state"}
      BY <2>1, <2>2
    <3>4. \A g, k \in Handoffs : Contends(g)' /\ Contends(k)' => Draft(g)' = Draft(k)'
      BY <2>1, <2>t DEF TreeInv
    <3> QED BY <3>1, <3>2, <3>3, <3>4 DEF TreeInv
  <2>4. CleanupInv'
    <3> SUFFICES ASSUME NEW g \in Handoffs, Alone(g)'
                 PROVE  /\ handoff'[g].pc \in {"checkout", "add", "commit", "back"} => HasBase(g)'
                        /\ handoff'[g].pc = "delete" => head' # Draft(g)' \/ Stranded(g)'
                        /\ handoff'[g].pc = "failed" /\ Draft(g)' \in reviewed' =>
                             Stranded(g)' \/ \E c \in commits' : c.branch = Draft(g)'
      BY DEF CleanupInv
    <3>1. Alone(g) /\ Draft(g)' = Draft(g) /\ handoff'[g].base = handoff[g].base
      BY <1>m, <1>q DEF Alone
    <3>2. HasBase(g)' = HasBase(g) /\ Stranded(g)' = Stranded(g)
      BY <3>1 DEF HasBase, Stranded
    <3>3. CASE g = h
      BY <3>1, <3>2, <3>3, <1>m, <2>t DEF CleanupInv
    <3>4. CASE g # h
      BY <3>1, <3>2, <3>4, <1>m, <2>t DEF CleanupInv
    <3> QED BY <3>3, <3>4
  <2> QED BY <2>3, <2>4
<1> QED BY <1>1, <1>2 DEF ReviewInv

(* A commit: its branch stays for good, and the files leave the tree.      *)
LEMMA CommitStep ==
  ASSUME ReviewInv, NEW h \in Handoffs, NEW new \in HandoffRecord, Moves(h, new),
         handoff[h].pc = "commit", new.pc \in {"done", "failed"}, new.draft = Draft(h), new.base = handoff[h].base,
         commits' = commits \union {[by |-> h, branch |-> head, files |-> Staged]},
         tree' = [p \in Paths |-> IF p \in Staged THEN "clean" ELSE tree[p]],
         UNCHANGED <<head, hasMain, reviewed, disturbed, uncleaned>>
  PROVE  ReviewInv'
<1>m. /\ handoff' \in [Handoffs -> HandoffRecord] /\ handoff'[h] = new
      /\ \A g \in Handoffs \ {h} :
           handoff'[g] = handoff[g] /\ Draft(g)' = Draft(g) /\ Holding(g)' = Holding(g) /\ Verified(g)' = Verified(g)
  BY OneMoves DEF ReviewInv, BranchesInv
<1>q. Holding(h) /\ ~Holding(h)' /\ ~Verified(h)' /\ Draft(h)' = Draft(h)
  BY <1>m DEF Holding, Verified, Draft
<1>c. DEFINE record == [by |-> h, branch |-> head, files |-> Staged]
<1>1. BranchesInv'
  <2>1. ReviewTypeOK' /\ disturbed' \in BOOLEAN
    BY <1>m DEF ReviewInv, BranchesInv, ReviewTypeOK
  <2>2. \A g \in Handoffs : Draft(g)' = Draft(g) /\ (Holding(g)' => Holding(g))
    BY <1>m, <1>q
  <2>3. \A d \in reviewed : \E k \in Handoffs : Draft(k)' = d /\ (Holding(k)' \/ handoff'[k].pc \in {"done", "failed"})
    <3> SUFFICES ASSUME NEW d \in reviewed
                 PROVE  \E k \in Handoffs : Draft(k)' = d /\ (Holding(k)' \/ handoff'[k].pc \in {"done", "failed"})
      OBVIOUS
    <3>1. PICK k \in Handoffs : Draft(k) = d /\ (Holding(k) \/ handoff[k].pc \in {"done", "failed"})
      BY DEF ReviewInv, BranchesInv
    <3> QED BY <3>1, <2>2, <1>m
  <2>4. \A c \in commits' : c.by \in Handoffs /\ handoff'[c.by].pc \in {"done", "failed"}
    BY <1>m DEF ReviewInv, BranchesInv
  <2> QED BY <2>1, <2>2, <2>3, <2>4 DEF ReviewInv, BranchesInv
<1>2. ASSUME ~disturbed PROVE TreeInv' /\ CleanupInv'
  <2>t. TreeInv /\ CleanupInv /\ BranchesInv
    BY <1>2 DEF ReviewInv
  <2>1. ASSUME NEW g \in Handoffs PROVE ~Contends(g)'
    <3>1. CASE g = h
      BY <3>1, <1>q DEF Contends
    <3>2. CASE g # h /\ Draft(g) = Draft(h)
      <4>1. ~Holding(g)
        BY <3>2, <1>q, <2>t DEF BranchesInv
      <4>2. Committed(Draft(h))'
        BY <1>m, <1>q, <2>t DEF Committed, BranchesInv
      <4>3. ~Holding(g)' /\ Draft(g)' = Draft(h)'
        BY <3>2, <4>1, <1>m, <1>q
      <4>4. Committed(Draft(g))'
        BY <4>2, <4>3
      <4> QED BY <4>3, <4>4, Zenon DEF Contends
    <3>3. CASE g # h /\ Draft(g) # Draft(h)
      <4>1. ~Contends(g)
        BY <3>3, <1>q, <2>t DEF TreeInv, Contends
      <4>2. Committed(Draft(g)) => Committed(Draft(g))'
        BY <3>3, <1>m, <1>q DEF Committed
      <4> QED BY <3>3, <4>1, <4>2, <1>m DEF Contends
    <3> QED BY <3>1, <3>2, <3>3
  <2>2. head = Draft(h) /\ Staged \subseteq {Draft(h), "state"}
    BY <2>t, <1>q DEF TreeInv, Contends
  <2>3. TreeInv'
    <3>1. \A g \in Handoffs : handoff'[g].pc \notin {"add", "commit", "back"}
      BY <2>1 DEF Contends, Holding
    <3>2. \A c \in commits' : c.branch = Draft(c.by)' /\ c.files \subseteq {Draft(c.by)', "state"}
      <4>1. \A c \in commits : c.branch = Draft(c.by)' /\ c.files \subseteq {Draft(c.by)', "state"}
        BY <2>t, <1>m, <1>q DEF TreeInv, BranchesInv
      <4>2. record.branch = Draft(record.by)' /\ record.files \subseteq {Draft(record.by)', "state"}
        BY <2>2, <1>q
      <4> QED BY <4>1, <4>2
    <3> QED BY <2>1, <3>1, <3>2 DEF TreeInv
  <2>4. CleanupInv'
    <3> SUFFICES ASSUME NEW g \in Handoffs, Alone(g)'
                 PROVE  /\ handoff'[g].pc \in {"checkout", "add", "commit", "back"} => HasBase(g)'
                        /\ handoff'[g].pc = "delete" => head' # Draft(g)' \/ Stranded(g)'
                        /\ handoff'[g].pc = "failed" /\ Draft(g)' \in reviewed' =>
                             Stranded(g)' \/ \E c \in commits' : c.branch = Draft(g)'
      BY DEF CleanupInv
    <3>1. Alone(g) /\ Draft(g)' = Draft(g) /\ handoff'[g].base = handoff[g].base
      BY <1>m, <1>q DEF Alone
    <3>2. HasBase(g)' = HasBase(g) /\ Stranded(g)' = Stranded(g)
      BY <3>1 DEF HasBase, Stranded
    <3>3. CASE g = h
      <4>1. record \in commits' /\ record.branch = Draft(h)
        BY <2>2
      <4> QED BY <3>1, <3>3, <4>1, <1>m
    <3>4. CASE g # h
      BY <3>1, <3>2, <3>4, <1>m, <2>t DEF CleanupInv
    <3> QED BY <3>3, <3>4
  <2> QED BY <2>3, <2>4
<1> QED BY <1>1, <1>2 DEF ReviewInv

-----------------------------------------------------------------------------
(* Leaving the branch: who holds one holds it alone.                       *)
LEMMA BackStep ==
  ASSUME ReviewInv, NEW h \in Handoffs, NEW new \in HandoffRecord, Moves(h, new),
         handoff[h].pc = "back", new.pc = "delete", new.draft = Draft(h), new.base = handoff[h].base,
         \/ /\ head' = IF (IF new.base = "main" THEN hasMain ELSE new.base \in reviewed) THEN new.base ELSE head
            /\ uncleaned' = uncleaned
         \/ head' = head /\ uncleaned' = uncleaned \union {h},
         UNCHANGED <<hasMain, reviewed, tree, commits, disturbed>>
  PROVE  ReviewInv'
<1>m. /\ handoff' \in [Handoffs -> HandoffRecord] /\ handoff'[h] = new
      /\ \A g \in Handoffs \ {h} :
           handoff'[g] = handoff[g] /\ Draft(g)' = Draft(g) /\ Holding(g)' = Holding(g) /\ Verified(g)' = Verified(g)
  BY OneMoves DEF ReviewInv, BranchesInv
<1>q. Holding(h) /\ Holding(h)' /\ Draft(h)' = Draft(h) /\ (Verified(h)' <=> Verified(h))
  BY <1>m DEF Holding, Draft, Verified
<1>g. \A g \in Handoffs : (Holding(g)' <=> Holding(g)) /\ (Verified(g)' <=> Verified(g)) /\ Draft(g)' = Draft(g)
  BY <1>m, <1>q, Zenon
<1>b. new.base \in Drafts \union {"main"} /\ "main" \notin Drafts
  BY NamesApart DEF HandoffRecord
<1>1. BranchesInv'
  <2>1. ReviewTypeOK' /\ disturbed' \in BOOLEAN
    BY <1>m, <1>b DEF ReviewInv, BranchesInv, ReviewTypeOK
  <2>2. \A d \in reviewed : \E k \in Handoffs : Draft(k)' = d /\ (Holding(k)' \/ handoff'[k].pc \in {"done", "failed"})
    <3> SUFFICES ASSUME NEW d \in reviewed
                 PROVE  \E k \in Handoffs : Draft(k)' = d /\ (Holding(k)' \/ handoff'[k].pc \in {"done", "failed"})
      OBVIOUS
    <3>1. PICK k \in Handoffs : Draft(k) = d /\ (Holding(k) \/ handoff[k].pc \in {"done", "failed"})
      BY DEF ReviewInv, BranchesInv
    <3> QED BY <3>1, <1>g, <1>m
  <2>3. \A c \in commits' : c.by \in Handoffs /\ handoff'[c.by].pc \in {"done", "failed"}
    BY <1>m DEF ReviewInv, BranchesInv
  <2>4. (head' \in Drafts => head' \in reviewed') /\ (head' = "main" => hasMain')
    BY <1>b DEF ReviewInv, BranchesInv
  <2> QED BY <2>1, <2>2, <2>3, <2>4, <1>g DEF ReviewInv, BranchesInv
<1>2. ASSUME ~disturbed PROVE TreeInv' /\ CleanupInv'
  <2>t. TreeInv /\ CleanupInv /\ BranchesInv
    BY <1>2 DEF ReviewInv
  <2>1. \A d : Committed(d)' <=> Committed(d)
    BY <1>g DEF Committed
  <2>2. \A g \in Handoffs : Contends(g)' <=> Contends(g)
    BY <2>1, <1>g, Zenon DEF Contends
  <2>3. \A g \in Handoffs \ {h} : ~Holding(g)
    BY <2>t, <1>q, OneHolder
  <2>4. TreeInv'
    <3>1. \A g \in Handoffs : handoff'[g].pc \notin {"add", "commit", "back"}
      BY <2>3, <1>m DEF Holding
    <3>2. \A c \in commits' : c.branch = Draft(c.by)' /\ c.files \subseteq {Draft(c.by)', "state"}
      BY <2>t, <1>g DEF TreeInv, BranchesInv
    <3>3. Staged' = Staged
      BY DEF Staged
    <3>4. \A g \in Handoffs : Contends(g)' => tree'[Draft(g)'] # "clean" /\ Staged' \subseteq {Draft(g)', "state"}
      BY <2>2, <2>t, <3>3, <1>g DEF TreeInv
    <3>5. \A g, k \in Handoffs : Contends(g)' /\ Contends(k)' => Draft(g)' = Draft(k)'
      BY <2>2, <2>t, <1>g DEF TreeInv
    <3> QED BY <3>1, <3>2, <3>4, <3>5 DEF TreeInv
  <2>5. CleanupInv'
    <3> SUFFICES ASSUME NEW g \in Handoffs, Alone(g)'
                 PROVE  /\ handoff'[g].pc \in {"checkout", "add", "commit", "back"} => HasBase(g)'
                        /\ handoff'[g].pc = "delete" => head' # Draft(g)' \/ Stranded(g)'
                        /\ handoff'[g].pc = "failed" /\ Draft(g)' \in reviewed' =>
                             Stranded(g)' \/ \E c \in commits' : c.branch = Draft(g)'
      BY DEF CleanupInv
    <3>1. Alone(g) /\ Draft(g)' = Draft(g) /\ handoff'[g].base = handoff[g].base
      BY <1>m, <1>q DEF Alone
    <3>2. (HasBase(g)' <=> HasBase(g)) /\ (Stranded(g) => Stranded(g)')
      BY <3>1 DEF HasBase, Stranded
    <3>3. CASE g = h
      <4>1. HasBase(h)
        BY <3>1, <3>3, <2>t DEF CleanupInv
      <4>2. head' # Draft(h) \/ Stranded(h)'
        BY <4>1, <3>1, <3>3 DEF HasBase, Stranded
      <4> QED BY <3>1, <3>2, <3>3, <4>2, <1>m
    <3>4. CASE g # h
      <4>1. handoff'[g] = handoff[g] /\ handoff[g].pc # "delete"
        BY <3>4, <1>m, <2>3 DEF Holding
      <4> QED BY <3>1, <3>2, <4>1, <2>t DEF CleanupInv
    <3> QED BY <3>3, <3>4
  <2> QED BY <2>4, <2>5
<1> QED BY <1>1, <1>2 DEF ReviewInv

(* The end of a failure: the branch goes unless it is checked out.         *)
LEMMA DeleteStep ==
  ASSUME ReviewInv, NEW h \in Handoffs, NEW new \in HandoffRecord, Moves(h, new),
         handoff[h].pc = "delete", new.pc = "failed", new.draft = Draft(h), new.base = handoff[h].base,
         \/ /\ reviewed' = IF head = Draft(h) THEN reviewed ELSE reviewed \ {Draft(h)}
            /\ uncleaned' = uncleaned
         \/ reviewed' = reviewed /\ uncleaned' = uncleaned \union {h},
         UNCHANGED <<head, hasMain, tree, commits, disturbed>>
  PROVE  ReviewInv'
<1>m. /\ handoff' \in [Handoffs -> HandoffRecord] /\ handoff'[h] = new
      /\ \A g \in Handoffs \ {h} :
           handoff'[g] = handoff[g] /\ Draft(g)' = Draft(g) /\ Holding(g)' = Holding(g) /\ Verified(g)' = Verified(g)
  BY OneMoves DEF ReviewInv, BranchesInv
<1>q. Holding(h) /\ ~Holding(h)' /\ ~Verified(h)' /\ Draft(h)' = Draft(h)
  BY <1>m DEF Holding, Draft, Verified
<1>1. BranchesInv'
  <2>1. ReviewTypeOK' /\ disturbed' \in BOOLEAN
    BY <1>m DEF ReviewInv, BranchesInv, ReviewTypeOK
  <2>2. \A g \in Handoffs : Draft(g)' = Draft(g) /\ (Holding(g)' => Holding(g) /\ g # h)
    BY <1>m, <1>q
  <2>3. \A d \in reviewed' : \E k \in Handoffs : Draft(k)' = d /\ (Holding(k)' \/ handoff'[k].pc \in {"done", "failed"})
    <3> SUFFICES ASSUME NEW d \in reviewed
                 PROVE  \E k \in Handoffs : Draft(k)' = d /\ (Holding(k)' \/ handoff'[k].pc \in {"done", "failed"})
      OBVIOUS
    <3>1. PICK k \in Handoffs : Draft(k) = d /\ (Holding(k) \/ handoff[k].pc \in {"done", "failed"})
      BY DEF ReviewInv, BranchesInv
    <3> QED BY <3>1, <2>2, <1>m
  <2>4. \A c \in commits' : c.by \in Handoffs /\ handoff'[c.by].pc \in {"done", "failed"}
    BY <1>m DEF ReviewInv, BranchesInv
  <2>5. \A g \in Handoffs : Holding(g)' => Draft(g)' \in reviewed'
    BY <2>2, <1>q DEF ReviewInv, BranchesInv
  <2>6. (head' \in Drafts => head' \in reviewed') /\ (head' = "main" => hasMain')
    BY DEF ReviewInv, BranchesInv
  <2> QED BY <2>1, <2>2, <2>3, <2>4, <2>5, <2>6 DEF ReviewInv, BranchesInv
<1>2. ASSUME ~disturbed PROVE TreeInv' /\ CleanupInv'
  <2>t. TreeInv /\ CleanupInv /\ BranchesInv
    BY <1>2 DEF ReviewInv
  <2>1. \A g \in Handoffs \ {h} : ~Holding(g)
    BY <2>t, <1>q, OneHolder
  <2>h. Contends(h)
    BY <1>q DEF Contends
  <2>2. ASSUME NEW g \in Handoffs, Contends(g)' PROVE g # h /\ Contends(g) /\ Draft(g)' = Draft(g)
    <3>1. g # h /\ Verified(g) /\ Draft(g)' = Draft(g) /\ ~Committed(Draft(g))'
      BY <2>2, <2>1, <1>m, <1>q DEF Contends
    <3>2. CASE Draft(g) = Draft(h)
      <4>1. ~Committed(Draft(g))
        BY <3>2, <1>q DEF Committed
      <4> QED BY <3>1, <4>1, Zenon DEF Contends
    <3>3. CASE Draft(g) # Draft(h)
      <4>1. Committed(Draft(g)) => Committed(Draft(g))'
        BY <3>1, <3>3, <1>m, <1>q DEF Committed
      <4>2. ~Committed(Draft(g))
        BY <3>1, <4>1
      <4> QED BY <3>1, <4>2, Zenon DEF Contends
    <3> QED BY <3>2, <3>3
  <2>3. TreeInv'
    <3>1. \A g \in Handoffs : handoff'[g].pc \notin {"add", "commit", "back"}
      BY <2>1, <1>m DEF Holding
    <3>2. \A c \in commits' : c.branch = Draft(c.by)' /\ c.files \subseteq {Draft(c.by)', "state"}
      BY <2>t, <1>m, <1>q DEF TreeInv, BranchesInv
    <3>3. Staged' = Staged
      BY DEF Staged
    <3>4. \A g \in Handoffs : Contends(g)' => tree'[Draft(g)'] # "clean" /\ Staged' \subseteq {Draft(g)', "state"}
      BY <2>2, <2>t, <3>3 DEF TreeInv
    <3>5. \A g, k \in Handoffs : Contends(g)' /\ Contends(k)' => Draft(g)' = Draft(k)'
      BY <2>2, <2>t DEF TreeInv
    <3> QED BY <3>1, <3>2, <3>4, <3>5 DEF TreeInv
  <2>4. CleanupInv'
    <3> SUFFICES ASSUME NEW g \in Handoffs, Alone(g)'
                 PROVE  /\ handoff'[g].pc \in {"checkout", "add", "commit", "back"} => HasBase(g)'
                        /\ handoff'[g].pc = "delete" => head' # Draft(g)' \/ Stranded(g)'
                        /\ handoff'[g].pc = "failed" /\ Draft(g)' \in reviewed' =>
                             Stranded(g)' \/ \E c \in commits' : c.branch = Draft(g)'
      BY DEF CleanupInv
    <3>1. Alone(g) /\ Draft(g)' = Draft(g) /\ handoff'[g].base = handoff[g].base
      BY <1>m, <1>q DEF Alone
    <3>2. Stranded(g) => Stranded(g)'
      BY <3>1 DEF Stranded
    <3>3. CASE g = h
      <4>1. head # Draft(h) \/ Stranded(h)
        BY <3>1, <3>3, <2>t DEF CleanupInv
      <4>2. Draft(h) \notin reviewed' \/ head = Draft(h) \/ Stranded(h)'
        BY DEF Stranded
      <4> QED BY <3>1, <3>2, <3>3, <4>1, <4>2, <1>m
    <3>4. CASE g # h
      <4>1. handoff'[g] = handoff[g] /\ ~Holding(g)
        BY <3>4, <1>m, <2>1
      <4>2. Draft(g) # Draft(h)
        BY <3>1, <3>4 DEF Alone
      <4>3. handoff[g].pc # "checkout"
        BY <3>1, <4>2, <2>t, <2>h, AloneContends DEF TreeInv
      <4> QED BY <3>1, <3>2, <4>1, <4>3, <2>t DEF CleanupInv, Holding
    <3> QED BY <3>3, <3>4
  <2> QED BY <2>3, <2>4
<1> QED BY <1>1, <1>2 DEF ReviewInv

-----------------------------------------------------------------------------
(* Go as a step of one record.                                             *)
LEMMA GoMoves ==
  ASSUME ReviewTypeOK, NEW h \in Handoffs, NEW pc, Go(h, pc),
         pc \in {"write", "verify", "exists", "base", "add", "commit", "back", "delete", "done", "failed"}
  PROVE  \E new \in HandoffRecord : Moves(h, new) /\ new.pc = pc /\ new.draft = Draft(h) /\ new.base = handoff[h].base
<1> DEFINE new == [handoff[h] EXCEPT !.pc = pc]
<1>1. handoff[h] \in HandoffRecord
  BY DEF ReviewTypeOK
<1>2. new \in HandoffRecord /\ new.pc = pc /\ new.draft = Draft(h) /\ new.base = handoff[h].base
  BY <1>1 DEF HandoffRecord, Draft
<1>3. Moves(h, new)
  BY Zenon DEF Go, Moves
<1> QED BY <1>2, <1>3

(* A step that only says where its request goes next is quiet.             *)
LEMMA QuietGo ==
  ASSUME ReviewInv, NEW h \in Handoffs, NEW pc, Go(h, pc),
         handoff[h].pc \in {"check", "write", "verify", "exists", "base", "checkout"},
         pc \in {"write", "verify", "exists", "base", "failed"},
         UNCHANGED <<head, hasMain, reviewed, commits, disturbed, uncleaned>>,
         tree' \in [Paths -> {"clean", "changed", "staged"}],
         \A p \in Paths : (tree[p] # "clean" => tree'[p] # "clean") /\ (tree'[p] = "staged" => tree[p] = "staged"),
         pc \in {"exists", "base"} => Verified(h) \/ (EnsureNoUnrelatedChanges(Draft(h)) /\ Draft(h) \in ChangedPaths)
  PROVE  ReviewInv'
<1>1. PICK new \in HandoffRecord : Moves(h, new) /\ new.pc = pc /\ new.draft = Draft(h) /\ new.base = handoff[h].base
  BY GoMoves DEF ReviewInv, BranchesInv
<1>2. Quiet(h, new)
  BY <1>1 DEF Quiet, Holding
<1> QED BY <1>1, <1>2, QuietStep

(* The steps of a request, one by one.                                     *)
LEMMA RequestStep ==
  ASSUME ReviewInv, NEW h \in Handoffs,
         \/ Propose(h) \/ CheckTree(h) \/ WriteArtifacts(h) \/ Verify(h) \/ BranchExists(h)
         \/ BaseBranch(h) \/ Checkout(h) \/ Add(h) \/ Commit(h) \/ Back(h) \/ DeleteBranch(h)
  PROVE  ReviewInv'
<1>t. ReviewTypeOK /\ handoff[h] \in HandoffRecord /\ tree \in [Paths -> {"clean", "changed", "staged"}]
  BY DEF ReviewInv, BranchesInv, ReviewTypeOK
<1>p. Draft(h) \in Drafts /\ Draft(h) \in Paths
  BY <1>t, NamesApart DEF HandoffRecord, Draft
<1>1. CASE Propose(h)
  <2>1. PICK d \in Drafts, pc \in {"check", "write", "failed"} :
          handoff' = [handoff EXCEPT ![h] = [@ EXCEPT !.pc = pc, !.draft = d]]
    BY <1>1 DEF Propose
  <2> DEFINE new == [handoff[h] EXCEPT !.pc = pc, !.draft = d]
  <2>2. new \in HandoffRecord /\ new.pc = pc /\ new.draft = d
    BY <1>t DEF HandoffRecord
  <2>3. Moves(h, new)
    BY <2>1, Zenon DEF Moves
  <2>4. Quiet(h, new)
    BY <1>1, <1>t, <2>2 DEF Propose, Quiet, Holding
  <2> QED BY <2>2, <2>3, <2>4, QuietStep
<1>2. CASE CheckTree(h)
  <2>1. PICK pc \in {"write", "failed"} : Go(h, pc)
    BY <1>2 DEF CheckTree
  <2> QED BY <1>2, <1>t, <2>1, QuietGo DEF CheckTree
<1>3. CASE WriteArtifacts(h)
  <2>1. PICK written \in BOOLEAN, pc \in {"verify", "failed"} :
          /\ tree' = IF written /\ tree[Draft(h)] = "clean" THEN [tree EXCEPT ![Draft(h)] = "changed"] ELSE tree
          /\ Go(h, pc)
    BY <1>3 DEF WriteArtifacts
  <2>2. /\ tree' \in [Paths -> {"clean", "changed", "staged"}]
        /\ \A p \in Paths : (tree[p] # "clean" => tree'[p] # "clean") /\ (tree'[p] = "staged" => tree[p] = "staged")
    BY <2>1, <1>t, <1>p
  <2> QED BY <1>3, <2>1, <2>2, QuietGo DEF WriteArtifacts
<1>4. CASE Verify(h)
  <2>1. PICK sound \in BOOLEAN :
          Go(h, IF sound /\ EnsureNoUnrelatedChanges(Draft(h)) /\ Draft(h) \in ChangedPaths THEN "exists" ELSE "failed")
    BY <1>4 DEF Verify
  <2>2. CASE sound /\ EnsureNoUnrelatedChanges(Draft(h)) /\ Draft(h) \in ChangedPaths
    <3>1. Go(h, "exists")
      BY <2>1, <2>2
    <3> QED BY <1>4, <1>t, <2>2, <3>1, QuietGo DEF Verify
  <2>3. CASE ~(sound /\ EnsureNoUnrelatedChanges(Draft(h)) /\ Draft(h) \in ChangedPaths)
    <3>1. Go(h, "failed")
      BY <2>1, <2>3
    <3> QED BY <1>4, <1>t, <3>1, QuietGo DEF Verify
  <2> QED BY <2>2, <2>3
<1>5. CASE BranchExists(h)
  <2>1. PICK pc \in {"base", "failed"} : Go(h, pc)
    BY <1>5 DEF BranchExists
  <2> QED BY <1>5, <1>t, <2>1, QuietGo DEF BranchExists, Verified
<1>6. CASE BaseBranch(h)
  <2>1. CASE Go(h, "failed")
    BY <1>6, <1>t, <2>1, QuietGo DEF BaseBranch
  <2>2. CASE handoff' = [handoff EXCEPT ![h] = [@ EXCEPT !.pc = "checkout", !.base = IF head = "detached" THEN "main" ELSE head]]
    <3> DEFINE new == [handoff[h] EXCEPT !.pc = "checkout", !.base = IF head = "detached" THEN "main" ELSE head]
    <3>1. /\ new \in HandoffRecord /\ new.pc = "checkout" /\ new.draft = Draft(h)
          /\ new.base = head \/ new.base = "main"
      BY <1>t DEF HandoffRecord, Draft, ReviewTypeOK
    <3>2. Moves(h, new)
      BY <2>2, Zenon DEF Moves
    <3>3. Quiet(h, new)
      BY <1>6, <1>t, <3>1 DEF BaseBranch, Quiet, Holding, Verified
    <3> QED BY <3>1, <3>2, <3>3, QuietStep
  <2> QED BY <1>6, <2>1, <2>2 DEF BaseBranch
<1>7. CASE Checkout(h)
  <2>1. CASE Draft(h) \notin reviewed /\ head' = Draft(h) /\ reviewed' = reviewed \union {Draft(h)} /\ Go(h, "add")
    <3>1. PICK new \in HandoffRecord : Moves(h, new) /\ new.pc = "add" /\ new.draft = Draft(h) /\ new.base = handoff[h].base
      BY <2>1, <1>t, GoMoves
    <3> QED BY <1>7, <2>1, <3>1, CheckedOut DEF Checkout
  <2>2. CASE UNCHANGED <<head, reviewed>> /\ Go(h, "failed")
    BY <1>7, <1>t, <2>2, QuietGo DEF Checkout
  <2> QED BY <1>7, <2>1, <2>2 DEF Checkout
<1>8. CASE Add(h)
  <2>1. PICK pc \in {"commit", "back"} : Go(h, pc)
    BY <1>8 DEF Add
  <2>2. tree' = tree \/ tree' = [tree EXCEPT ![Draft(h)] = "staged"]
    BY <1>8 DEF Add
  <2>3. PICK new \in HandoffRecord : Moves(h, new) /\ new.pc = pc /\ new.draft = Draft(h) /\ new.base = handoff[h].base
    BY <2>1, <1>t, GoMoves
  <2> QED BY <1>8, <2>2, <2>3, HoldStep DEF Add
<1>9. CASE Commit(h)
  <2>1. CASE /\ Staged # {}
             /\ commits' = commits \union {[by |-> h, branch |-> head, files |-> Staged]}
             /\ tree' = [p \in Paths |-> IF p \in Staged THEN "clean" ELSE tree[p]]
             /\ \E pc \in {"done", "failed"} : Go(h, pc)
    <3>1. PICK pc \in {"done", "failed"} : Go(h, pc)
      BY <2>1
    <3>2. PICK new \in HandoffRecord : Moves(h, new) /\ new.pc = pc /\ new.draft = Draft(h) /\ new.base = handoff[h].base
      BY <3>1, <1>t, GoMoves
    <3> QED BY <1>9, <2>1, <3>2, CommitStep DEF Commit
  <2>2. CASE Go(h, "back") /\ UNCHANGED <<tree, commits>>
    <3>1. PICK new \in HandoffRecord : Moves(h, new) /\ new.pc = "back" /\ new.draft = Draft(h) /\ new.base = handoff[h].base
      BY <2>2, <1>t, GoMoves
    <3> QED BY <1>9, <2>2, <3>1, HoldStep DEF Commit
  <2> QED BY <1>9, <2>1, <2>2 DEF Commit
<1>10. CASE Back(h)
  <2>1. PICK new \in HandoffRecord : Moves(h, new) /\ new.pc = "delete" /\ new.draft = Draft(h) /\ new.base = handoff[h].base
    BY <1>10, <1>t, GoMoves DEF Back
  <2> QED BY <1>10, <2>1, BackStep DEF Back
<1>11. CASE DeleteBranch(h)
  <2>1. PICK new \in HandoffRecord : Moves(h, new) /\ new.pc = "failed" /\ new.draft = Draft(h) /\ new.base = handoff[h].base
    BY <1>11, <1>t, GoMoves DEF DeleteBranch
  <2> QED BY <1>11, <2>1, DeleteStep DEF DeleteBranch
<1> QED BY <1>1, <1>2, <1>3, <1>4, <1>5, <1>6, <1>7, <1>8, <1>9, <1>10, <1>11

(* The owner: with any request past its own look at the tree, it disturbs. *)
LEMMA OwnerStep ==
  ASSUME ReviewInv, NEW newTree \in [Paths -> {"clean", "changed", "staged"}],
         NEW newHead \in Drafts \union {"main", "detached"}, Owner(newTree, newHead),
         newHead \in Drafts => newHead \in reviewed, newHead = "main" => hasMain
  PROVE  ReviewInv'
<1>1. /\ tree' = newTree /\ head' = newHead /\ hasMain' = hasMain /\ reviewed' = reviewed
      /\ handoff' = handoff /\ commits' = commits /\ uncleaned' = uncleaned
      /\ disturbed' = (disturbed \/ \E h \in Handoffs : Late(h))
  BY DEF Owner
<1>2. \A h : Draft(h)' = Draft(h) /\ (Holding(h)' <=> Holding(h)) /\ (Verified(h)' <=> Verified(h))
  BY <1>1 DEF Draft, Holding, Verified
<1>3. BranchesInv'
  <2>1. ReviewTypeOK' /\ disturbed' \in BOOLEAN
    BY <1>1 DEF ReviewInv, BranchesInv, ReviewTypeOK
  <2> QED BY <2>1, <1>1, <1>2 DEF ReviewInv, BranchesInv
<1>4. ASSUME ~disturbed' PROVE TreeInv' /\ CleanupInv'
  <2>1. TreeInv /\ CleanupInv /\ \A h \in Handoffs : ~Holding(h) /\ ~Verified(h)
    BY <1>1, <1>4 DEF ReviewInv, Late, Holding, Verified
  <2>2. \A h \in Handoffs : ~Contends(h)' /\ handoff[h].pc \notin {"checkout", "add", "commit", "back", "delete"}
    BY <2>1, <1>2 DEF Contends, Holding, Verified
  <2>3. TreeInv'
    BY <2>1, <2>2, <1>1, <1>2 DEF TreeInv
  <2>4. \A h \in Handoffs : (Alone(h)' => Alone(h)) /\ (Stranded(h)' <=> Stranded(h))
    BY <1>1, <1>2 DEF Alone, Stranded
  <2>5. CleanupInv'
    BY <2>1, <2>2, <2>4, <1>1, <1>2 DEF CleanupInv
  <2> QED BY <2>3, <2>5
<1> QED BY <1>3, <1>4 DEF ReviewInv

(* The invariant holds initially.                                          *)
LEMMA ReviewStart == ASSUME ReviewInit PROVE ReviewInv
<1>1. (CHOOSE d \in Drafts : TRUE) \in Drafts
  BY HandoffAssumption
<1>2. ReviewTypeOK /\ \A h \in Handoffs : handoff[h].pc = "idle"
  BY <1>1 DEF ReviewInit, ReviewTypeOK, HandoffRecord
<1>3. \A h \in Handoffs : ~Holding(h) /\ ~Verified(h) /\ ~Contends(h)
  BY <1>2 DEF Holding, Verified, Contends
<1>4. BranchesInv
  BY <1>2, <1>3, NamesApart DEF ReviewInit, BranchesInv
<1>5. TreeInv
  BY <1>2, <1>3 DEF ReviewInit, TreeInv
<1>6. CleanupInv
  BY <1>2 DEF CleanupInv
<1> QED BY <1>4, <1>5, <1>6 DEF ReviewInv

(* Every step keeps it.                                                    *)
LEMMA ReviewKept == ASSUME ReviewInv, [ReviewNext]_reviewVars PROVE ReviewInv'
<1>t. tree \in [Paths -> {"clean", "changed", "staged"}] /\ head \in Drafts \union {"main", "detached"} /\ reviewed \subseteq Drafts
  BY DEF ReviewInv, BranchesInv, ReviewTypeOK
<1>h. (head \in Drafts => head \in reviewed) /\ (head = "main" => hasMain)
  BY DEF ReviewInv, BranchesInv
<1>1. ASSUME NEW h \in Handoffs,
             \/ Propose(h) \/ CheckTree(h) \/ WriteArtifacts(h) \/ Verify(h) \/ BranchExists(h)
             \/ BaseBranch(h) \/ Checkout(h) \/ Add(h) \/ Commit(h) \/ Back(h) \/ DeleteBranch(h)
      PROVE  ReviewInv'
  BY <1>1, RequestStep
<1>2. CASE OwnerChanges
  <2>1. PICK p \in {"source", "state"}, s \in {"changed", "staged"} : Owner([tree EXCEPT ![p] = s], head)
    BY <1>2 DEF OwnerChanges
  <2>2. [tree EXCEPT ![p] = s] \in [Paths -> {"clean", "changed", "staged"}]
    BY <1>t
  <2> QED BY <2>1, <2>2, <1>t, <1>h, OwnerStep
<1>3. CASE OwnerCommits
  <2>1. [p \in Paths |-> "clean"] \in [Paths -> {"clean", "changed", "staged"}]
    OBVIOUS
  <2> QED BY <2>1, <1>3, <1>t, <1>h, OwnerStep DEF OwnerCommits
<1>4. CASE OwnerSwitches
  <2>1. PICK b \in reviewed \union {"main"} : (b = "main" => hasMain) /\ Owner(tree, b)
    BY <1>4 DEF OwnerSwitches
  <2>2. b \in Drafts \union {"main", "detached"} /\ (b \in Drafts => b \in reviewed)
    BY <2>1, <1>t, NamesApart
  <2> QED BY <2>1, <2>2, <1>t, OwnerStep
<1>5. CASE UNCHANGED reviewVars
  <2>1. \A h : /\ Draft(h)' = Draft(h) /\ (Holding(h)' <=> Holding(h)) /\ (Verified(h)' <=> Verified(h))
               /\ (HasBase(h)' <=> HasBase(h)) /\ (Stranded(h)' <=> Stranded(h)) /\ (Alone(h)' <=> Alone(h))
    BY <1>5 DEF reviewVars, Draft, Holding, Verified, HasBase, Stranded, Alone
  <2>2. (\A d : Committed(d)' <=> Committed(d)) /\ Staged' = Staged /\ (ReviewTypeOK' <=> ReviewTypeOK)
    BY <1>5, <2>1 DEF reviewVars, Committed, Staged, ReviewTypeOK
  <2>3. \A h : Contends(h)' <=> Contends(h)
    BY <2>1, <2>2 DEF Contends
  <2>4. BranchesInv'
    BY <1>5, <2>1, <2>2 DEF reviewVars, ReviewInv, BranchesInv
  <2>5. TreeInv => TreeInv'
    BY <1>5, <2>1, <2>2, <2>3 DEF reviewVars, TreeInv
  <2>6. CleanupInv => CleanupInv'
    BY <1>5, <2>1 DEF reviewVars, CleanupInv
  <2> QED BY <1>5, <2>4, <2>5, <2>6 DEF reviewVars, ReviewInv
<1> QED BY <1>1, <1>2, <1>3, <1>4, <1>5 DEF ReviewNext

(* For any requests and drafts: the inductive invariant.                   *)
THEOREM ReviewInvariant == ReviewInit /\ [][ReviewNext]_reviewVars => []ReviewInv
<1>1. ReviewInit => ReviewInv
  BY ReviewStart
<1>2. ReviewInv /\ [ReviewNext]_reviewVars => ReviewInv'
  BY ReviewKept
<1> QED BY <1>1, <1>2, PTL

(* ReviewsSeparate of ReviewHandoff, for any requests and drafts: while    *)
(* the owner leaves git alone, a review branch gets its own artifacts      *)
(* only, requests of different drafts never command git together, and no   *)
(* failed request leaves an empty branch behind, unless git fails its      *)
(* cleanup or in one of the two cases the property names.                  *)
THEOREM BranchesSeparate == ReviewInit /\ [][ReviewNext]_reviewVars => []ReviewsSeparate
<1>1. ReviewInv => ReviewsSeparate
  <2> SUFFICES ASSUME ReviewInv, ~disturbed
               PROVE  /\ \A c \in commits : c.branch = Draft(c.by) /\ c.files \subseteq {Draft(c.by), "state"}
                      /\ \A h, g \in Handoffs :
                           h # g /\ {handoff[h].pc, handoff[g].pc} \subseteq {"add", "commit", "back"} => Draft(h) = Draft(g)
                      /\ \A h \in Handoffs :
                           handoff[h].pc = "failed" /\ Draft(h) \in reviewed =>
                             \/ \E c \in commits : c.branch = Draft(h)
                             \/ h \in uncleaned
                             \/ handoff[h].base = "main" /\ ~hasMain
                             \/ \E g \in Handoffs \ {h} : handoff[g].pc # "idle" /\ Draft(g) = Draft(h)
    BY DEF ReviewsSeparate
  <2>t. BranchesInv /\ TreeInv /\ CleanupInv
    BY DEF ReviewInv
  <2>1. ASSUME NEW h \in Handoffs, NEW g \in Handoffs, {handoff[h].pc, handoff[g].pc} \subseteq {"add", "commit", "back"}
        PROVE  Draft(h) = Draft(g)
    BY <2>1, <2>t DEF TreeInv
  <2>2. ASSUME NEW h \in Handoffs, handoff[h].pc = "failed", Draft(h) \in reviewed,
               \A g \in Handoffs \ {h} : handoff[g].pc = "idle" \/ Draft(g) # Draft(h)
        PROVE  Stranded(h) \/ \E c \in commits : c.branch = Draft(h)
    <3>1. Alone(h)
      BY <2>2 DEF Alone
    <3> QED BY <2>2, <3>1, <2>t DEF CleanupInv
  <2> QED BY <2>1, <2>2, <2>t DEF TreeInv, Stranded
<1> QED BY <1>1, ReviewInvariant, PTL

(***************************************************************************)
(* Drift and rollback.                                                     *)
(***************************************************************************)

LEMMA DriftStart == DriftInit => DriftTypeOK
<1> SUFFICES ASSUME DriftInit PROVE DriftTypeOK
  OBVIOUS
<1>1. <<>> \in Seq(Block) /\ <<>> \in Seq(Seq(Instance))
  OBVIOUS
<1>2. blocks \in [Addresses -> Seq(Block)] /\ entries \in [Addresses -> Seq(Seq(Instance))]
  BY <1>1 DEF DriftInit
<1>3. /\ checkpoints \in Seq([tool : {"terraform", "pulumi"}, env : {"none", "prod"}])
      /\ Len(checkpoints) <= MaxCheckpoints
  BY DriftAssumption DEF DriftInit
<1> QED BY <1>2, <1>3 DEF DriftInit, DriftTypeOK

LEMMA ShortenedType ==
  ASSUME NEW S, NEW s \in Seq(S)
  PROVE  Shortened(s) \in Seq(S)
<1>1. CASE s = <<>>
  BY <1>1 DEF Shortened
<1>2. CASE s # <<>>
  <2>1. Len(s) \in Nat /\ Len(s) # 0
    BY <1>2
  <2>2. \A i \in 1 .. Len(s) - 1 : s[i] \in S
    BY <2>1
  <2>3. SubSeq(s, 1, Len(s) - 1) \in Seq(S)
    BY <2>1, <2>2
  <2> QED BY <1>2, <2>3 DEF Shortened
<1> QED BY <1>1, <1>2

LEMMA DriftTypesKept == DriftTypeOK /\ [DriftNext]_driftVars => DriftTypeOK'
<1> SUFFICES ASSUME DriftTypeOK, [DriftNext]_driftVars PROVE DriftTypeOK'
  OBVIOUS
<1> USE DEF DriftTypeOK
<1>1. CASE EditCode
  <2>p. PICK a \in Addresses :
          \E new \in {Shortened(blocks[a])} \union {Append(blocks[a], b) : b \in Block} :
            blocks' = [blocks EXCEPT ![a] = new]
    BY <1>1 DEF EditCode
  <2>1. PICK new \in {Shortened(blocks[a])} \union {Append(blocks[a], b) : b \in Block} :
          blocks' = [blocks EXCEPT ![a] = new]
    BY <2>p
  <2>2. blocks[a] \in Seq(Block)
    OBVIOUS
  <2>3. Shortened(blocks[a]) \in Seq(Block) /\ \A b \in Block : Append(blocks[a], b) \in Seq(Block)
    BY <2>2, ShortenedType
  <2>4. new \in Seq(Block)
    BY <2>1, <2>3
  <2>5. blocks' \in [Addresses -> Seq(Block)]
    BY <2>1, <2>4
  <2> QED BY <1>1, <2>5 DEF EditCode
<1>2. CASE LiveChanges
  <2>p. PICK a \in Addresses :
          \E new \in {Shortened(entries[a]), Append(entries[a], <<>>)} \union
                     {Append(Shortened(entries[a]), Append(entries[a][Len(entries[a])], i)) :
                        i \in IF entries[a] = <<>> THEN {} ELSE Instance} :
            entries' = [entries EXCEPT ![a] = new]
    BY <1>2 DEF LiveChanges
  <2>1. PICK new \in {Shortened(entries[a]), Append(entries[a], <<>>)} \union
                     {Append(Shortened(entries[a]), Append(entries[a][Len(entries[a])], i)) :
                        i \in IF entries[a] = <<>> THEN {} ELSE Instance} :
          entries' = [entries EXCEPT ![a] = new]
    BY <2>p
  <2>2. entries[a] \in Seq(Seq(Instance)) /\ <<>> \in Seq(Instance)
    OBVIOUS
  <2>3. Shortened(entries[a]) \in Seq(Seq(Instance))
    BY <2>2, ShortenedType
  <2>4. Append(entries[a], <<>>) \in Seq(Seq(Instance))
    BY <2>2
  <2>5. ASSUME entries[a] # <<>>, NEW i \in Instance
        PROVE  Append(Shortened(entries[a]), Append(entries[a][Len(entries[a])], i)) \in Seq(Seq(Instance))
    <3>1. Len(entries[a]) \in 1 .. Len(entries[a])
      BY <2>2, <2>5
    <3>2. entries[a][Len(entries[a])] \in Seq(Instance)
      BY <2>2, <3>1
    <3>3. Append(entries[a][Len(entries[a])], i) \in Seq(Instance)
      BY <3>2
    <3> QED BY <2>3, <3>3
  <2>6. new \in Seq(Seq(Instance))
    BY <2>1, <2>3, <2>4, <2>5
  <2>7. entries' \in [Addresses -> Seq(Seq(Instance))]
    BY <2>1, <2>6
  <2> QED BY <1>2, <2>7 DEF LiveChanges
<1>3. CASE Suppress
  BY <1>3 DEF Suppress
<1>4. CASE RecordSnapshot
  <2>1. PICK c \in [tool : {"terraform", "pulumi"}, env : {"none", "prod"}] : checkpoints' = Append(checkpoints, c)
    BY <1>4 DEF RecordSnapshot
  <2>2. Len(checkpoints) \in Nat /\ Len(checkpoints) < MaxCheckpoints
    BY <1>4 DEF RecordSnapshot
  <2>3. /\ checkpoints' \in Seq([tool : {"terraform", "pulumi"}, env : {"none", "prod"}])
        /\ Len(checkpoints') = Len(checkpoints) + 1
    BY <2>1
  <2>4. Len(checkpoints') <= MaxCheckpoints
    BY <2>2, <2>3, DriftAssumption
  <2> QED BY <1>4, <2>3, <2>4 DEF RecordSnapshot
<1>5. CASE DamageSnapshot
  BY <1>5 DEF DamageSnapshot
<1>6. CASE UNCHANGED driftVars
  BY <1>6 DEF driftVars
<1> QED BY <1>1, <1>2, <1>3, <1>4, <1>5, <1>6 DEF DriftNext

(* The addresses that findings name, before any are suppressed.            *)
LEMMA FoundAddresses ==
  {f.address : f \in AllFindings} = MissingFromState \union Unmanaged \union Drifted
<1> DEFINE found == {f.address : f \in AllFindings}
           M == {DriftFinding(a, "missing", "none", "missing_from_state") : a \in MissingFromState}
           U == {DriftFinding(a, "unmanaged", "none", "unauthorized") : a \in Unmanaged}
           D == UNION {{DriftFinding(a, "drifted", f, ClassifyDrift(a)) : f \in ChangedFields(a)} : a \in Drifted}
<1>1. AllFindings = M \union U \union D
  BY DEF AllFindings
<1>2. \A a, status, path, class : DriftFinding(a, status, path, class).address = a
  BY DEF DriftFinding
<1>3. \A a \in MissingFromState : DriftFinding(a, "missing", "none", "missing_from_state") \in M
  OBVIOUS
<1>4. \A a \in Unmanaged : DriftFinding(a, "unmanaged", "none", "unauthorized") \in U
  OBVIOUS
<1>5. \A a \in Drifted : \E f \in ChangedFields(a) : DriftFinding(a, "drifted", f, ClassifyDrift(a)) \in D
  BY DEF Drifted
<1>6. \A x \in M : x.address \in MissingFromState
  BY <1>2
<1>7. \A x \in U : x.address \in Unmanaged
  BY <1>2
<1>8. \A x \in D : x.address \in Drifted
  BY <1>2
<1> HIDE DEF M, U, D
<1>9. found \subseteq MissingFromState \union Unmanaged \union Drifted
  BY <1>1, <1>6, <1>7, <1>8
<1>10. MissingFromState \union Unmanaged \union Drifted \subseteq found
  <2>1. ASSUME NEW a \in MissingFromState PROVE a \in found
    BY <1>1, <1>2, <1>3
  <2>2. ASSUME NEW a \in Unmanaged PROVE a \in found
    BY <1>1, <1>2, <1>4
  <2>3. ASSUME NEW a \in Drifted PROVE a \in found
    BY <1>1, <1>2, <1>5
  <2> QED BY <2>1, <2>2, <2>3
<1> QED BY <1>9, <1>10

(* Every resource of either side is counted once: in sync, or with the     *)
(* findings.                                                               *)
LEMMA CountedOnce ==
  Report.total = Report.inSync + Cardinality({f.address : f \in Report.findings \union Report.suppressed})
<1> DEFINE found == MissingFromState \union Unmanaged \union Drifted
<1>1. {f.address : f \in Report.findings \union Report.suppressed} = found
  <2>1. Report.findings \union Report.suppressed = AllFindings
    BY DEF Report, Findings, Suppressed
  <2> QED BY <2>1, FoundAddresses
<1>2. InCode \subseteq Addresses /\ Unmanaged \subseteq Addresses /\ InSync \subseteq Addresses /\ found \subseteq Addresses
  BY DEF InCode, Unmanaged, Managed, InSync, Drifted, MissingFromState
<1>3. IsFiniteSet(InCode) /\ IsFiniteSet(Unmanaged) /\ IsFiniteSet(InSync) /\ IsFiniteSet(found)
  BY <1>2, DriftAssumption, FS_Subset
<1>4. Drifted \subseteq InCode \intersect Managed
  BY DEF Drifted, ChangedFields
<1>5. InCode \intersect Unmanaged = {} /\ InSync \intersect found = {} /\ InCode \union Unmanaged = InSync \union found
  BY <1>4 DEF Unmanaged, InSync, MissingFromState
<1> HIDE DEF found
<1>6. /\ Cardinality(InCode \union Unmanaged) = Cardinality(InCode) + Cardinality(Unmanaged) - Cardinality(InCode \intersect Unmanaged)
      /\ Cardinality(InSync \union found) = Cardinality(InSync) + Cardinality(found) - Cardinality(InSync \intersect found)
  BY <1>3, FS_Union
<1>7. /\ Cardinality(InCode) \in Nat /\ Cardinality(Unmanaged) \in Nat
      /\ Cardinality(InSync) \in Nat /\ Cardinality(found) \in Nat /\ Cardinality({}) = 0
  BY <1>3, FS_CardinalityType, FS_EmptySet
<1>8. Cardinality(InCode) + Cardinality(Unmanaged) = Cardinality(InSync) + Cardinality(found)
  <2>1. Cardinality(InCode \intersect Unmanaged) = 0 /\ Cardinality(InSync \intersect found) = 0
    <3>1. InCode \intersect Unmanaged = {} /\ InSync \intersect found = {}
      BY <1>5
    <3> QED BY <1>7, <3>1
  <2>2. Cardinality(InCode \union Unmanaged) = Cardinality(InCode) + Cardinality(Unmanaged)
    BY <1>6, <1>7, <2>1
  <2>3. Cardinality(InSync \union found) = Cardinality(InSync) + Cardinality(found)
    BY <1>6, <1>7, <2>1
  <2>4. Cardinality(InCode \union Unmanaged) = Cardinality(InSync \union found)
    BY <1>5
  <2> QED BY <2>2, <2>3, <2>4
<1> QED BY <1>1, <1>8 DEF Report

(* A finding is open, or a rule that names something it has hides it.      *)
LEMMA HiddenByRule ==
  ASSUME DriftTypeOK, NEW g \in AllFindings, g \notin Findings
  PROVE  \E rule \in suppressions : /\ rule.address \in {"none", g.address} /\ rule.env \in {"none", env}
                                    /\ \E s \in DOMAIN rule : rule[s] # "none"
<1>1. PICK rule \in suppressions : RuleMatches(rule, g)
  BY DEF Findings, Suppressed
<1>2. rule \in SuppressionRule
  BY DriftAssumption DEF DriftTypeOK
<1>3. "address" \in DOMAIN rule /\ "env" \in DOMAIN rule
  BY <1>2 DEF SuppressionRule
<1>4. \A s \in DOMAIN rule : rule[s] # "none" => rule[s] = IF s = "env" THEN env ELSE g[s]
  BY <1>1 DEF RuleMatches, Selectors
<1>5. rule.address \in {"none", g.address}
  <2>1. rule["address"] # "none" => rule["address"] = g["address"]
    BY <1>3, <1>4
  <2> QED BY <2>1
<1>6. rule.env \in {"none", env}
  <2>1. rule["env"] # "none" => rule["env"] = env
    BY <1>3, <1>4
  <2> QED BY <2>1
<1>7. \E s \in DOMAIN rule : rule[s] # "none"
  BY <1>1 DEF RuleMatches, Selectors
<1> QED BY <1>5, <1>6, <1>7

(* Numbers below a bound have a greatest one.                              *)
LEMMA GreatestOf ==
  ASSUME NEW n \in Nat, NEW S, S \subseteq 1 .. n, S # {}
  PROVE  \E x \in S : \A k \in S : k <= x
<1> DEFINE distances == {n - j : j \in S}
<1>0. \A j \in S : j \in 1 .. n
  OBVIOUS
<1>1. distances \in SUBSET Nat /\ distances # {}
  <2>1. \A j \in S : n - j \in Nat
    BY <1>0
  <2>2. \E j \in S : TRUE
    OBVIOUS
  <2>3. \A d \in distances : d \in Nat
    BY <2>1
  <2>4. distances # {}
    BY <2>2
  <2> QED BY <2>3, <2>4
<1>2. PICK d \in distances : \A m \in distances : ~(<<m, d>> \in OpToRel(<, Nat))
  BY <1>1, NatLessThanWellFounded, WFMin
<1>3. \A m \in distances : d <= m
  <2>1. \A m \in distances : m < d => <<m, d>> \in OpToRel(<, Nat)
    BY <1>1 DEF OpToRel
  <2>2. \A m \in distances : ~(m < d)
    BY <1>2, <2>1, Zenon
  <2> HIDE DEF distances
  <2>3. d \in Nat /\ \A m \in distances : m \in Nat
    BY <1>1
  <2> QED BY <2>2, <2>3
<1>4. PICK x \in S : d = n - x
  BY <1>2
<1>5. ASSUME NEW k \in S PROVE k <= x
  <2>1. n - k \in distances
    OBVIOUS
  <2>2. n - x <= n - k
    BY <1>3, <1>4, <2>1
  <2> QED BY <1>0, <2>2
<1> QED BY <1>5

(* What is compared are parts of the address: one of its blocks, and one   *)
(* of its instances.                                                       *)
LEMMA ComparedParts ==
  ASSUME DriftTypeOK, NEW a \in Addresses
  PROVE  /\ a \in InCode  <=> Blocks(a) # {}
         /\ a \in Managed <=> Instances(a) # {}
         /\ a \in InCode \intersect Managed => <<code[a], live[a]>> \in Parts(a)
<1>1. PICK b \in Nat, n \in Nat : DOMAIN blocks[a] = 1 .. b /\ DOMAIN entries[a] = 1 .. n
  <2>1. blocks[a] \in Seq(Block) /\ entries[a] \in Seq(Seq(Instance))
    BY DEF DriftTypeOK
  <2> QED BY <2>1
<1>2. ASSUME a \in InCode PROVE code[a] \in Blocks(a)
  <2>1. blocks[a] \in Seq(Block) /\ blocks[a] # <<>>
    BY <1>2 DEF DriftTypeOK, InCode
  <2>2. Len(blocks[a]) \in DOMAIN blocks[a]
    BY <2>1
  <2>3. code[a] = blocks[a][Len(blocks[a])]
    BY <1>2 DEF code
  <2> QED BY <2>2, <2>3 DEF Blocks
<1>3. ASSUME Blocks(a) # {} PROVE a \in InCode
  BY <1>3 DEF Blocks, InCode
<1>4. ASSUME NEW i \in DOMAIN entries[a]
      PROVE  entries[a][i] # <<>> <=> DOMAIN entries[a][i] # {}
  <2>1. entries[a] \in Seq(Seq(Instance))
    BY DEF DriftTypeOK
  <2>2. entries[a][i] \in Seq(Instance)
    BY <2>1, <1>4
  <2>3. CASE entries[a][i] = <<>>
    BY <2>3
  <2>4. CASE entries[a][i] # <<>>
    <3>1. 1 \in DOMAIN entries[a][i]
      BY <2>2, <2>4
    <3> QED BY <2>4, <3>1
  <2> QED BY <2>3, <2>4
<1>5. ASSUME a \in Managed PROVE live[a] \in Instances(a)
  <2>1. Existing(a) \subseteq 1 .. n /\ Existing(a) # {}
    BY <1>1, <1>5 DEF Existing, Managed
  <2>2. \E i \in Existing(a) : \A j \in Existing(a) : j <= i
    BY <2>1, GreatestOf
  <2>3. Last(a) \in Existing(a)
    BY <2>2 DEF Last
  <2>4. Last(a) \in DOMAIN entries[a] /\ entries[a][Last(a)] # <<>>
    BY <2>3 DEF Existing
  <2>5. entries[a][Last(a)] \in Seq(Instance)
    <3>1. entries[a] \in Seq(Seq(Instance))
      BY DEF DriftTypeOK
    <3> QED BY <2>4, <3>1
  <2>6. 1 \in DOMAIN entries[a][Last(a)]
    BY <2>4, <2>5
  <2>7. live[a] = entries[a][Last(a)][1]
    BY <1>5 DEF live
  <2> QED BY <2>4, <2>6, <2>7 DEF Instances
<1>6. ASSUME Instances(a) # {} PROVE a \in Managed
  <2>1. PICK i \in DOMAIN entries[a] : DOMAIN entries[a][i] # {}
    BY <1>6 DEF Instances
  <2>2. i \in Existing(a)
    BY <1>4, <2>1 DEF Existing
  <2> QED BY <2>2 DEF Managed
<1> QED BY <1>2, <1>3, <1>5, <1>6 DEF Parts

(* What the parts of an address all differ in is found.                    *)
LEMMA DifferenceFound ==
  ASSUME DriftTypeOK, NEW a \in Addresses, Disagrees(a)
  PROVE  \E g \in AllFindings : g.address = a
<1>1. a \in MissingFromState \union Unmanaged \union Drifted
  <2>1. CASE (Blocks(a) = {}) # (Instances(a) = {})
    BY <2>1, ComparedParts DEF MissingFromState, Unmanaged
  <2>2. CASE Parts(a) # {} /\ \A p \in Parts(a) : \E f \in DriftFields : DifferIn(p[1], p[2], f)
    <3>1. Blocks(a) # {} /\ Instances(a) # {}
      BY <2>2 DEF Parts
    <3>2. a \in InCode \intersect Managed /\ <<code[a], live[a]>> \in Parts(a)
      BY <3>1, ComparedParts
    <3>3. \E f \in DriftFields : DifferIn(code[a], live[a], f)
      BY <2>2, <3>2
    <3>4. ChangedFields(a) # {}
      BY <3>2, <3>3 DEF ChangedFields, DifferIn
    <3> QED BY <3>4 DEF Drifted
  <2> QED BY <2>1, <2>2 DEF Disagrees
<1>2. a \in {f.address : f \in AllFindings}
  BY <1>1, FoundAddresses
<1> QED BY <1>2

(* What a finding that says drifted is about.                              *)
LEMMA DriftedFinding ==
  ASSUME DriftTypeOK, NEW g \in AllFindings,
         g.status = "drifted" \/ g.address \in InCode \intersect Managed
  PROVE  /\ g.address \in Addresses /\ g.address \in InCode \intersect Managed
         /\ g.path \in ChangedFields(g.address)
         /\ g.classification = ClassifyDrift(g.address)
<1>1. \A b, status, path, class : /\ DriftFinding(b, status, path, class).address = b
                                  /\ DriftFinding(b, status, path, class).status = status
                                  /\ DriftFinding(b, status, path, class).path = path
                                  /\ DriftFinding(b, status, path, class).classification = class
  BY DEF DriftFinding
<1>2. g \notin {DriftFinding(b, "missing", "none", "missing_from_state") : b \in MissingFromState}
  BY <1>1 DEF MissingFromState
<1>3. g \notin {DriftFinding(b, "unmanaged", "none", "unauthorized") : b \in Unmanaged}
  BY <1>1 DEF Unmanaged
<1>4. PICK b \in Drifted : \E f \in ChangedFields(b) : g = DriftFinding(b, "drifted", f, ClassifyDrift(b))
  BY <1>2, <1>3 DEF AllFindings
<1>5. PICK f \in ChangedFields(b) : g = DriftFinding(b, "drifted", f, ClassifyDrift(b))
  BY <1>4
<1>6. g.address = b /\ g.path = f /\ g.classification = ClassifyDrift(b)
  BY <1>1, <1>5
<1>7. b \in Addresses /\ b \in InCode \intersect Managed
  BY <1>4 DEF Drifted, ChangedFields
<1> QED BY <1>5, <1>6, <1>7

(* A field that is reported differs in parts of the address.               *)
LEMMA ReportedDiffers ==
  ASSUME DriftTypeOK, NEW g \in AllFindings, g.status = "drifted"
  PROVE  \E p \in Parts(g.address) : DifferIn(p[1], p[2], g.path)
<1>1. /\ g.address \in Addresses /\ g.address \in InCode \intersect Managed
      /\ g.path \in ChangedFields(g.address)
  BY DriftedFinding
<1>2. <<code[g.address], live[g.address]>> \in Parts(g.address)
  BY <1>1, ComparedParts
<1>3. DifferIn(code[g.address], live[g.address], g.path)
  BY <1>1 DEF ChangedFields, DifferIn
<1> QED BY <1>2, <1>3

(* Revert takes up the findings of an address whose parts all differ in    *)
(* size: its drift is not legitimate.                                      *)
LEMMA SizeReverted ==
  ASSUME DriftTypeOK, NEW g \in Findings,
         Parts(g.address) # {}, \A p \in Parts(g.address) : DifferIn(p[1], p[2], "size")
  PROVE  g \in Taken("revert")
<1>1. g \in AllFindings
  BY DEF Findings
<1>2. g.address \in Addresses
  <2>1. g.address \in MissingFromState \union Unmanaged \union Drifted
    BY <1>1, FoundAddresses
  <2> QED BY <2>1 DEF MissingFromState, Unmanaged, Drifted, InCode, Managed
<1>3. g.address \in InCode \intersect Managed
  <2>1. Blocks(g.address) # {} /\ Instances(g.address) # {}
    BY DEF Parts
  <2> QED BY <1>2, <2>1, ComparedParts
<1>4. <<code[g.address], live[g.address]>> \in Parts(g.address)
  BY <1>2, <1>3, ComparedParts
<1>5. DifferIn(code[g.address], live[g.address], "size")
  BY <1>4
<1>6. "size" \in ChangedFields(g.address)
  BY <1>3, <1>5 DEF ChangedFields, DifferIn, DriftFields
<1>7. ClassifyDrift(g.address) # "legitimate"
  BY <1>6 DEF ClassifyDrift, DriftMetadata
<1>8. g.classification = ClassifyDrift(g.address)
  BY <1>1, <1>3, DriftedFinding
<1> QED BY <1>7, <1>8 DEF Taken

LEMMA Proposed ==
  ASSUME NEW mode, NEW f \in Taken(mode)
  PROVE  \E p \in Proposal(mode) : p.finding = f
<1> DEFINE p == [finding |-> f, action |-> Action(mode, f)]
<1>1. p \in Proposal(mode)
  BY DEF Proposal
<1>2. p.finding = f
  OBVIOUS
<1> HIDE DEF p
<1> QED BY <1>1, <1>2

(* The checkpoint a rollback compares with is the newest other one.        *)
LEMMA NewestOther ==
  ASSUME DriftTypeOK, NEW i \in DOMAIN checkpoints, Others(i) # {}
  PROVE  RollbackCurrent(i) \in Others(i) /\ \A k \in Others(i) : k <= RollbackCurrent(i)
<1>1. PICK n \in Nat : DOMAIN checkpoints = 1 .. n
  BY DEF DriftTypeOK
<1>2. Others(i) \subseteq 1 .. n
  BY <1>1 DEF Others
<1>3. \E x \in Others(i) : \A k \in Others(i) : k <= x
  BY <1>2, GreatestOf
<1>4. RollbackCurrent(i) = CHOOSE x \in Others(i) : \A k \in Others(i) : k <= x
  BY DEF RollbackCurrent
<1> QED BY <1>3, <1>4

(* DriftAccounted of Drift, for any resources, blocks, instances and       *)
(* suppression rules: what every block and instance of an address differ   *)
(* in is not lost on its way to a proposal, no field is reported that none *)
(* differ in, and a rollback compares with the newest checkpoint of its    *)
(* kind.                                                                   *)
THEOREM DifferencesAccounted == DriftInit /\ [][DriftNext]_driftVars => []DriftAccounted
<1>1. ASSUME DriftTypeOK PROVE DriftAccounted
  <2> USE <1>1
  <2>1. ASSUME NEW a \in Addresses, Disagrees(a)
        PROVE  \/ \E f \in Report.findings : f.address = a
               \/ \E rule \in suppressions : /\ rule.address \in {"none", a} /\ rule.env \in {"none", env}
                                             /\ \E s \in DOMAIN rule : rule[s] # "none"
    <3>1. PICK g \in AllFindings : g.address = a
      BY <2>1, DifferenceFound
    <3>2. CASE g \in Findings
      BY <3>1, <3>2 DEF Report
    <3>3. CASE g \notin Findings
      BY <3>1, <3>3, HiddenByRule
    <3> QED BY <3>2, <3>3
  <2>2. {p.finding : p \in Proposal("codify") \union Proposal("revert")} = Report.findings
    <3>1. Taken("codify") = Findings /\ Taken("revert") \subseteq Findings
      BY DEF Taken
    <3>2. \A mode : \A p \in Proposal(mode) : p.finding \in Taken(mode)
      BY DEF Proposal
    <3>3. \A f \in Taken("codify") : \E p \in Proposal("codify") : p.finding = f
      BY Proposed
    <3>4. Report.findings = Findings
      BY DEF Report
    <3>5. \A p \in Proposal("codify") \union Proposal("revert") : p.finding \in Findings
      BY <3>1, <3>2
    <3>6. \A f \in Findings : \E p \in Proposal("codify") \union Proposal("revert") : p.finding = f
      BY <3>1, <3>3
    <3> QED BY <3>4, <3>5, <3>6
  <2>3. ASSUME NEW f \in Report.findings,
               Parts(f.address) # {}, \A p \in Parts(f.address) : DifferIn(p[1], p[2], "size")
        PROVE  \E p \in Proposal("revert") : p.finding = f
    <3>1. f \in Taken("revert")
      BY <2>3, SizeReverted DEF Report
    <3> QED BY <3>1, Proposed
  <2>5. ASSUME NEW f \in Report.findings \union Report.suppressed, f.status = "drifted"
        PROVE  \E p \in Parts(f.address) : DifferIn(p[1], p[2], f.path)
    <3>1. f \in AllFindings
      BY DEF Report, Findings, Suppressed
    <3> QED BY <2>5, <3>1, ReportedDiffers
  <2>4. ASSUME NEW i \in DOMAIN checkpoints, RollbackCurrent(i) # 0, ~(RollbackCurrent(i) > i),
               NEW j \in DOMAIN checkpoints, j > i
        PROVE  checkpoints[j] # checkpoints[i]
    <3>1. Others(i) # {}
      BY <2>4 DEF RollbackCurrent
    <3>2. DOMAIN checkpoints \subseteq Nat
      BY DEF DriftTypeOK
    <3>3. RollbackCurrent(i) \in DOMAIN checkpoints /\ \A k \in Others(i) : k <= RollbackCurrent(i)
      BY <3>1, NewestOther DEF Others
    <3>4. j \notin Others(i)
      BY <2>4, <3>2, <3>3
    <3> QED BY <2>4, <3>2, <3>4 DEF Others
  <2> QED BY <2>1, <2>2, <2>3, <2>4, <2>5, CountedOnce DEF DriftAccounted
<1> QED BY <1>1, DriftStart, DriftTypesKept, PTL
=============================================================================
