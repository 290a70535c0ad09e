---------------------------- MODULE ReviewHandoff ----------------------------
(***************************************************************************)
(* Review branches for drift remediation and rollback                      *)
(* (review/handoff.go, the .../pr endpoints of api/router.go and           *)
(* open_remediation_pr of the MCP server): generated artifacts are written *)
(* into the project's working tree and committed on a branch of their own, *)
(* command by command, in a tree other requests and its owner use too.     *)
(*                                                                         *)
(* A draft names the proposal, its artifact files and its branch.          *)
(***************************************************************************)
EXTENDS Integers, FiniteSets

CONSTANTS
  Handoffs,     \* the requests of a behaviour
  Drafts,
  MaxOwnerActs  \* a bound of the model

ASSUME HandoffAssumption ==
  MaxOwnerActs \in Nat /\ Drafts # {} /\ {"main", "detached", "source", "state"} \intersect Drafts = {}

VARIABLES
  head,       \* what is checked out
  hasMain,    \* there is a branch "main"
  reviewed,   \* the review branches
  tree,       \* of each path: clean, changed or staged
  handoff,    \* of each request: where it is and what it holds
  commits,    \* history: who committed what to which branch
  ownerActs,  \* how often the owner has used git
  disturbed,  \* history: the owner used git during the last commands of a request
  uncleaned   \* history: requests whose cleanup git failed

reviewVars == <<head, hasMain, reviewed, tree, handoff, commits, ownerActs, disturbed, uncleaned>>

(* "source": any file of the project; "state": any file that               *)
(* isIgnorableDirtyPath knows, such as terraform.tfstate.                  *)
Paths == Drafts \union {"source", "state"}
Ignorable(path) == path = "state"

HandoffRecord == [pc : {"idle", "check", "write", "verify", "exists", "base", "checkout",
                        "add", "commit", "back", "delete", "done", "failed"},
                  draft : Drafts, base : Drafts \union {"main"}]

ReviewTypeOK ==
  /\ head \in Drafts \union {"main", "detached"} /\ reviewed \subseteq Drafts
  /\ tree \in [Paths -> {"clean", "changed", "staged"}]
  /\ handoff \in [Handoffs -> HandoffRecord] /\ uncleaned \subseteq Handoffs

Draft(h) == handoff[h].draft
Go(h, pc) == handoff' = [handoff EXCEPT ![h].pc = pc]
Late(h) == handoff[h].pc \in {"exists", "base", "checkout", "add", "commit", "back", "delete"}

-----------------------------------------------------------------------------
(* ChangedPaths: git status, untracked files included. *)
ChangedPaths == {p \in Paths : tree[p] # "clean"}
EnsureNoUnrelatedChanges(d) == \A p \in ChangedPaths : p = d \/ Ignorable(p)

(* A request builds its proposal afresh; the API checks the tree before it *)
(* writes, the MCP server does not.                                        *)
Propose(h) ==
  /\ handoff[h].pc = "idle"
  /\ \E d \in Drafts, pc \in {"check", "write", "failed"} :
       handoff' = [handoff EXCEPT ![h] = [@ EXCEPT !.pc = pc, !.draft = d]]
  /\ UNCHANGED <<head, hasMain, reviewed, tree, commits, ownerActs, disturbed, uncleaned>>

CheckTree(h) ==
  /\ handoff[h].pc = "check"
  /\ \E sound \in BOOLEAN : Go(h, IF sound /\ EnsureNoUnrelatedChanges(Draft(h)) THEN "write" ELSE "failed")
  /\ UNCHANGED <<head, hasMain, reviewed, tree, commits, ownerActs, disturbed, uncleaned>>

(* The files carry the time they were rendered.  A failure may leave some. *)
WriteArtifacts(h) ==
  /\ handoff[h].pc = "write"
  /\ \E written \in BOOLEAN, pc \in {"verify", "failed"} :
       /\ pc = "verify" => written
       /\ tree' = IF written /\ tree[Draft(h)] = "clean" THEN [tree EXCEPT ![Draft(h)] = "changed"] ELSE tree
       /\ Go(h, pc)
  /\ UNCHANGED <<head, hasMain, reviewed, commits, ownerActs, disturbed, uncleaned>>

(* Faulty variant: the tree is not looked at again. *)
VerifyNothing(h) ==
  /\ handoff[h].pc = "verify"
  /\ Go(h, "exists")
  /\ UNCHANGED <<head, hasMain, reviewed, tree, commits, ownerActs, disturbed, uncleaned>>

(* CreatePullRequestHandoff: a repository, a safe branch, regular files,   *)
(* nothing unrelated, something to commit.                                 *)
Verify(h) ==
  /\ handoff[h].pc = "verify"
  /\ \E sound \in BOOLEAN :
       Go(h, IF sound /\ EnsureNoUnrelatedChanges(Draft(h)) /\ Draft(h) \in ChangedPaths THEN "exists" ELSE "failed")
  /\ UNCHANGED <<head, hasMain, reviewed, tree, commits, ownerActs, disturbed, uncleaned>>

(* A show-ref that fails counts as no branch. *)
BranchExists(h) ==
  /\ handoff[h].pc = "exists"
  /\ \/ Draft(h) \in reviewed /\ Go(h, "failed")
     \/ Go(h, "base")
  /\ UNCHANGED <<head, hasMain, reviewed, tree, commits, ownerActs, disturbed, uncleaned>>

(* rev-parse --abbrev-ref HEAD; a detached head counts as main. *)
BaseBranch(h) ==
  /\ handoff[h].pc = "base"
  /\ \/ handoff' = [handoff EXCEPT ![h] = [@ EXCEPT !.pc = "checkout", !.base = IF head = "detached" THEN "main" ELSE head]]
     \/ Go(h, "failed")
  /\ UNCHANGED <<head, hasMain, reviewed, tree, commits, ownerActs, disturbed, uncleaned>>

(* checkout -b keeps the index and the files. *)
Checkout(h) ==
  /\ handoff[h].pc = "checkout"
  /\ \/ Draft(h) \notin reviewed /\ head' = Draft(h) /\ reviewed' = reviewed \union {Draft(h)} /\ Go(h, "add")
     \/ UNCHANGED <<head, reviewed>> /\ Go(h, "failed")
  /\ UNCHANGED <<hasMain, tree, commits, ownerActs, disturbed, uncleaned>>

Add(h) ==
  /\ handoff[h].pc = "add"
  /\ \/ Go(h, "commit") /\ tree' = IF tree[Draft(h)] = "changed" THEN [tree EXCEPT ![Draft(h)] = "staged"] ELSE tree
     \/ Go(h, "back") /\ UNCHANGED tree
  /\ UNCHANGED <<head, hasMain, reviewed, commits, ownerActs, disturbed, uncleaned>>

(* hasStagedChanges and commit: whatever is staged, on what is checked out. *)
Staged == {p \in Paths : tree[p] = "staged"}

Commit(h) ==
  /\ handoff[h].pc = "commit"
  /\ \/ /\ Staged # {}
        /\ commits' = commits \union {[by |-> h, branch |-> head, files |-> Staged]}
        /\ tree' = [p \in Paths |-> IF p \in Staged THEN "clean" ELSE tree[p]]
        /\ \E pc \in {"done", "failed"} : Go(h, pc)   \* rev-parse HEAD may fail
     \/ Go(h, "back") /\ UNCHANGED <<tree, commits>>
  /\ UNCHANGED <<head, hasMain, reviewed, ownerActs, disturbed, uncleaned>>

(* Faulty variant: the branch is deleted without leaving it. *)
StayOnBranch(h) ==
  /\ handoff[h].pc = "back"
  /\ Go(h, "delete")
  /\ UNCHANGED <<head, hasMain, reviewed, tree, commits, ownerActs, disturbed, uncleaned>>

(* cleanupBranch: two commands whose errors are discarded. *)
Back(h) ==
  /\ handoff[h].pc = "back"
  /\ \/ /\ head' = IF (IF handoff[h].base = "main" THEN hasMain ELSE handoff[h].base \in reviewed)
                   THEN handoff[h].base ELSE head
        /\ UNCHANGED uncleaned
     \/ UNCHANGED head /\ uncleaned' = uncleaned \union {h}
  /\ Go(h, "delete")
  /\ UNCHANGED <<hasMain, reviewed, tree, commits, ownerActs, disturbed>>

DeleteBranch(h) ==
  /\ handoff[h].pc = "delete"
  /\ \/ /\ reviewed' = IF head = Draft(h) THEN reviewed ELSE reviewed \ {Draft(h)}
        /\ UNCHANGED uncleaned
     \/ UNCHANGED reviewed /\ uncleaned' = uncleaned \union {h}
  /\ Go(h, "failed")
  /\ UNCHANGED <<head, hasMain, tree, commits, ownerActs, disturbed>>

-----------------------------------------------------------------------------
(* The project's owner, or its tools, change files, stage them, commit     *)
(* everything or check something out.                                      *)
Owner(newTree, newHead) ==
  /\ ownerActs < MaxOwnerActs /\ ownerActs' = ownerActs + 1
  /\ tree' = newTree /\ head' = newHead
  /\ disturbed' = (disturbed \/ \E h \in Handoffs : Late(h))
  /\ UNCHANGED <<hasMain, reviewed, handoff, commits, uncleaned>>

OwnerChanges  == \E p \in {"source", "state"}, s \in {"changed", "staged"} : Owner([tree EXCEPT ![p] = s], head)
OwnerCommits  == Owner([p \in Paths |-> "clean"], head)
OwnerSwitches == \E b \in reviewed \union {"main"} : (b = "main" => hasMain) /\ Owner(tree, b)

ReviewInit ==
  /\ hasMain \in BOOLEAN /\ head \in {"main", "detached"} /\ (head = "main" => hasMain)
  /\ reviewed = {} /\ tree = [p \in Paths |-> "clean"] /\ commits = {} /\ ownerActs = 0
  /\ disturbed = FALSE /\ uncleaned = {}
  /\ handoff = [h \in Handoffs |-> [pc |-> "idle", draft |-> CHOOSE d \in Drafts : TRUE, base |-> "main"]]

ReviewNext ==
  \/ \E h \in Handoffs : \/ Propose(h) \/ CheckTree(h) \/ WriteArtifacts(h) \/ Verify(h) \/ BranchExists(h)
                         \/ BaseBranch(h) \/ Checkout(h) \/ Add(h) \/ Commit(h) \/ Back(h) \/ DeleteBranch(h)
  \/ OwnerChanges \/ OwnerCommits \/ OwnerSwitches

-----------------------------------------------------------------------------
(* README: review branches "commit only generated ... artifacts", as long  *)
(* as the owner does not use git meanwhile.                                *)
OnlyArtifacts == ~disturbed => \A c \in commits : c.files \subseteq Drafts

(* What does hold: a commit has its own draft's artifacts only, on its own *)
(* branch, besides ignorable files somebody had staged; two handoffs of    *)
(* different drafts never command git at the same time, without any lock,  *)
(* because each writes its files before it looks for the other's; and a    *)
(* handoff that fails leaves no empty review branch, unless git failed its *)
(* cleanup, it began on a detached head without a main to return to, or    *)
(* another request had its draft.  All of it as long as the owner does not *)
(* use git meanwhile.                                                      *)
ReviewsSeparate == ~disturbed =>
  /\ \A c \in commits : c.branch = Draft(c.by) /\ c.files \subseteq {Draft(c.by), "state"}
  /\ \A h, g \in Handoffs :
       h # g /\ {handoff[h].pc, handoff[g].pc} \subseteq {"add", "commit", "back"} => Draft(h) = Draft(g)
  /\ \A h \in Handoffs :
       handoff[h].pc = "failed" /\ Draft(h) \in reviewed =>
         \/ \E c \in commits : c.branch = Draft(h)
         \/ h \in uncleaned
         \/ handoff[h].base = "main" /\ ~hasMain
         \/ \E g \in Handoffs \ {h} : handoff[g].pc # "idle" /\ Draft(g) = Draft(h)
=============================================================================
