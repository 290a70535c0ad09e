---------------------------- MODULE StoresProofs ----------------------------
(* Proofs about the stores beside the Agent Runs. *)
EXTENDS PolicyStore, ToolInventory, RouteAttempts, FiniteSetTheorems, SequenceTheorems, TLAPS

(* A non-empty set of naturals has a least element. *)
LEMMA LeastNatural ==
  ASSUME NEW T \in SUBSET Nat, T # {}
  PROVE  \E n \in T : \A m \in T : n <= m
<1>1. PICK n \in T : \A m \in T : ~(<<m, n>> \in OpToRel(<, Nat))
  BY NatLessThanWellFounded, WFMin
<1>2. \A m \in T : m < n => <<m, n>> \in OpToRel(<, Nat)
  BY DEF OpToRel
<1>3. \A m \in T : ~(m < n)
  BY <1>1, <1>2, Zenon
<1> QED BY <1>3

(* What is left of a list without repetitions when its n oldest leave. *)
LEMMA RestOfList ==
  ASSUME NEW S, NEW list \in Seq(S), IsInjective(list), NEW n \in 0 .. Len(list),
         NEW rest, rest = SubSeq(list, n + 1, Len(list))
  PROVE  /\ rest \in Seq(S) /\ IsInjective(rest)
         /\ Range(rest) = Range(list) \ {list[i] : i \in 1 .. n}
<1>1. PICK len \in Nat : len = Len(list) /\ DOMAIN list = 1 .. len /\ n \in 0 .. len
  OBVIOUS
<1>2. /\ rest \in Seq(S) /\ DOMAIN rest = 1 .. (len - n)
      /\ \A i \in 1 .. (len - n) : rest[i] = list[n + i]
  <2>1. n + 1 \in 1 .. len + 1 /\ len \in 0 .. len /\ rest = SubSeq(list, n + 1, len)
    BY <1>1
  <2>2. /\ rest \in Seq(S)
        /\ Len(rest) = IF n + 1 <= len THEN len - (n + 1) + 1 ELSE 0
        /\ \A i \in 1 .. len - (n + 1) + 1 : rest[i] = list[n + 1 + i - 1]
    <3>1. PICK a \in Nat : a = n + 1 /\ a \in 1 .. len + 1
      BY <1>1
    <3> QED BY <1>1, <2>1, <3>1, SubSeqProperties
  <2>3. n \in Nat /\ len - n \in Nat /\ Len(rest) = len - n
    BY <1>1, <2>2
  <2>4. DOMAIN rest = 1 .. (len - n)
    BY <2>2, <2>3
  <2>5. \A i \in 1 .. (len - n) : i \in 1 .. len - (n + 1) + 1 /\ n + 1 + i - 1 = n + i
    BY <1>1
  <2> QED BY <2>2, <2>4, <2>5
<1>3. \A i, j \in 1 .. len : list[i] = list[j] => i = j
  BY <1>1 DEF IsInjective
<1>4. IsInjective(rest)
  <2> SUFFICES ASSUME NEW i \in 1 .. (len - n), NEW j \in 1 .. (len - n), rest[i] = rest[j]
               PROVE  i = j
    BY <1>2 DEF IsInjective
  <2>1. n + i \in 1 .. len /\ n + j \in 1 .. len
    BY <1>1
  <2>2. list[n + i] = list[n + j]
    BY <1>2
  <2>3. n + i = n + j
    BY <1>3, <2>1, <2>2
  <2> QED BY <1>1, <2>3
<1>5. ASSUME NEW x \in Range(rest) PROVE x \in Range(list) \ {list[i] : i \in 1 .. n}
  <2>1. PICK i \in 1 .. (len - n) : x = list[n + i]
    BY <1>2, <1>5 DEF Range
  <2>2. n + i \in 1 .. len /\ \A j \in 1 .. n : j # n + i /\ j \in 1 .. len
    BY <1>1, <2>1
  <2> QED BY <1>1, <1>3, <2>1, <2>2 DEF Range
<1>6. ASSUME NEW x \in Range(list), x \notin {list[i] : i \in 1 .. n} PROVE x \in Range(rest)
  <2>1. PICK i \in 1 .. len : x = list[i]
    BY <1>1, <1>6 DEF Range
  <2>2. i - n \in 1 .. (len - n) /\ n + (i - n) = i
    BY <1>1, <1>6, <2>1
  <2>3. rest[i - n] = x
    BY <1>2, <2>1, <2>2
  <2> QED BY <1>2, <2>2, <2>3 DEF Range
<1> QED BY <1>2, <1>4, <1>5, <1>6

(* What is listed when one more is appended. *)
LEMMA OneMoreListed ==
  ASSUME NEW S, NEW list \in Seq(S), IsInjective(list), NEW x \in S, x \notin Range(list)
  PROVE  /\ Append(list, x) \in Seq(S) /\ IsInjective(Append(list, x))
         /\ Range(Append(list, x)) = Range(list) \union {x}
<1>1. PICK len \in Nat : len = Len(list) /\ DOMAIN list = 1 .. len
  OBVIOUS
<1>2. /\ Append(list, x) \in Seq(S) /\ DOMAIN Append(list, x) = 1 .. (len + 1)
      /\ Append(list, x)[len + 1] = x
      /\ \A i \in 1 .. len : Append(list, x)[i] = list[i]
  BY <1>1
<1>3. \A i \in 1 .. (len + 1) : i = len + 1 \/ i \in 1 .. len
  BY <1>1
<1>4. \A i \in 1 .. len : i \in 1 .. (len + 1) /\ list[i] # x
  BY <1>1 DEF Range
<1>5. len + 1 \in 1 .. (len + 1)
  BY <1>1
<1>6. IsInjective(Append(list, x))
  BY <1>1, <1>2, <1>3, <1>4 DEF IsInjective
<1>7. Range(Append(list, x)) = Range(list) \union {x}
  BY <1>1, <1>2, <1>3, <1>4, <1>5 DEF Range
<1> QED BY <1>2, <1>6, <1>7

-----------------------------------------------------------------------------
(* The route policies (PolicyStore).                                       *)

(* A non-empty set of numbers up to n has a greatest element. *)
LEMMA GreatestNatural ==
  ASSUME NEW n \in Nat, NEW T \in SUBSET (1 .. n), T # {}
  PROVE  \E i \in T : \A j \in T : j <= i
<1> DEFINE U == {n - i : i \in T}
<1>1. U \in SUBSET Nat /\ U # {}
  <2>1. \A i \in T : n - i \in Nat
    OBVIOUS
  <2> QED BY <2>1
<1>2. PICK k \in U : \A m \in U : k <= m
  <2> HIDE DEF U
  <2> QED BY <1>1, LeastNatural
<1>3. PICK i \in T : k = n - i
  BY <1>2
<1>4. \A j \in T : n - i <= n - j
  BY <1>2, <1>3
<1>5. \A j \in T : j \in 1 .. n /\ i \in 1 .. n
  OBVIOUS
<1>6. \A j \in T : j <= i
  BY <1>4, <1>5
<1> QED BY <1>6

(* View of any requests and any list of replacements. *)
ViewOf(requests, list, n) ==
  [s \in PolicyScopes |->
     LET writers == {i \in 1 .. n : requests[list[i]].scope = s}
     IN  IF writers = {} THEN NoPolicy
         ELSE list[CHOOSE i \in writers : \A j \in writers : j <= i]]

LastOf(requests, list, n, s, i) ==
  /\ i \in 1 .. n /\ requests[list[i]].scope = s
  /\ \A j \in 1 .. n : requests[list[j]].scope = s => j <= i

(* A scope has the policy of the last replacement that was for it. *)
LEMMA ViewAt ==
  ASSUME NEW f, NEW list, NEW n \in Nat, NEW s \in PolicyScopes
  PROVE  \/ /\ \A i \in 1 .. n : f[list[i]].scope # s
            /\ ViewOf(f, list, n)[s] = NoPolicy
         \/ \E i \in 1 .. n : LastOf(f, list, n, s, i) /\ ViewOf(f, list, n)[s] = list[i]
<1> DEFINE W == {i \in 1 .. n : f[list[i]].scope = s}
<1>1. ViewOf(f, list, n)[s] = IF W = {} THEN NoPolicy ELSE list[CHOOSE i \in W : \A j \in W : j <= i]
  BY DEF ViewOf
<1>2. CASE W = {}
  BY <1>1, <1>2
<1>3. CASE W # {}
  <2>1. W \in SUBSET (1 .. n)
    OBVIOUS
  <2>2. \E i \in W : \A j \in W : j <= i
    <3> HIDE DEF W
    <3> QED BY <1>3, <2>1, GreatestNatural
  <2>3. PICK k : k = CHOOSE i \in W : \A j \in W : j <= i
    OBVIOUS
  <2>4. k \in W /\ \A j \in W : j <= k
    <3> HIDE DEF W
    <3> QED BY <2>2, <2>3
  <2>5. LastOf(f, list, n, s, k)
    BY <2>4 DEF LastOf
  <2> QED BY <1>1, <1>3, <2>3, <2>4, <2>5
<1> QED BY <1>2, <1>3

LEMMA LastIsOne ==
  ASSUME NEW f, NEW list, NEW n \in Nat, NEW s, NEW i, NEW j,
         LastOf(f, list, n, s, i), LastOf(f, list, n, s, j)
  PROVE  i = j
<1>1. i \in 1 .. n /\ j \in 1 .. n /\ i <= j /\ j <= i
  BY DEF LastOf
<1> QED BY <1>1

(* What comes later does not change what the file was. *)
LEMMA ViewStays ==
  ASSUME NEW f, NEW g, NEW list, NEW more, NEW n \in Nat,
         \A i \in 1 .. n : more[i] = list[i] /\ g[list[i]].scope = f[list[i]].scope
  PROVE  ViewOf(g, more, n) = ViewOf(f, list, n)
<1> SUFFICES ASSUME NEW s \in PolicyScopes PROVE ViewOf(g, more, n)[s] = ViewOf(f, list, n)[s]
  BY DEF ViewOf
<1>1. CASE \A i \in 1 .. n : f[list[i]].scope # s
  <2>1. \A i \in 1 .. n : g[more[i]].scope # s
    BY <1>1
  <2>2. ViewOf(f, list, n)[s] = NoPolicy
    BY <1>1, ViewAt DEF LastOf
  <2>3. ViewOf(g, more, n)[s] = NoPolicy
    BY <2>1, ViewAt DEF LastOf
  <2> QED BY <2>2, <2>3
<1>2. CASE ~(\A i \in 1 .. n : f[list[i]].scope # s)
  <2>1. PICK i \in 1 .. n : LastOf(f, list, n, s, i) /\ ViewOf(f, list, n)[s] = list[i]
    BY <1>2, ViewAt
  <2>2. ~(\A k \in 1 .. n : g[more[k]].scope # s)
    BY <1>2
  <2>3. PICK j \in 1 .. n : LastOf(g, more, n, s, j) /\ ViewOf(g, more, n)[s] = more[j]
    BY <2>2, ViewAt
  <2>4. LastOf(f, list, n, s, j)
    BY <2>3 DEF LastOf
  <2>5. i = j
    BY <2>1, <2>4, LastIsOne
  <2> QED BY <2>1, <2>3, <2>5
<1> QED BY <1>1, <1>2

(* One more replacement changes its scope only. *)
LEMMA ViewChanges ==
  ASSUME NEW f, NEW list, NEW n \in Nat, NEW scope, scope = f[list[n + 1]].scope
  PROVE  ViewOf(f, list, n + 1) = [ViewOf(f, list, n) EXCEPT ![scope] = list[n + 1]]
<1>1. n + 1 \in Nat /\ \A i : i \in 1 .. (n + 1) <=> i \in 1 .. n \/ i = n + 1
  OBVIOUS
<1>2. ASSUME NEW s \in PolicyScopes
      PROVE  ViewOf(f, list, n + 1)[s] = IF s = scope THEN list[n + 1] ELSE ViewOf(f, list, n)[s]
  <2>1. CASE s = scope
    <3>1. LastOf(f, list, n + 1, s, n + 1)
      BY <1>1, <2>1 DEF LastOf
    <3>2. PICK i \in 1 .. (n + 1) : LastOf(f, list, n + 1, s, i) /\ ViewOf(f, list, n + 1)[s] = list[i]
      BY <1>1, <2>1, ViewAt
    <3>3. i = n + 1
      BY <1>1, <3>1, <3>2, LastIsOne
    <3> QED BY <2>1, <3>2, <3>3
  <2>2. CASE s # scope /\ \A i \in 1 .. n : f[list[i]].scope # s
    <3>1. \A i \in 1 .. (n + 1) : f[list[i]].scope # s
      BY <1>1, <2>2
    <3>2. ViewOf(f, list, n + 1)[s] = NoPolicy
      BY <1>1, <3>1, ViewAt DEF LastOf
    <3>3. ViewOf(f, list, n)[s] = NoPolicy
      BY <2>2, ViewAt DEF LastOf
    <3> QED BY <2>2, <3>2, <3>3
  <2>3. CASE s # scope /\ ~(\A i \in 1 .. n : f[list[i]].scope # s)
    <3>1. PICK i \in 1 .. n : LastOf(f, list, n, s, i) /\ ViewOf(f, list, n)[s] = list[i]
      BY <2>3, ViewAt
    <3>2. ~(\A k \in 1 .. (n + 1) : f[list[k]].scope # s)
      BY <1>1, <2>3
    <3>3. PICK j \in 1 .. (n + 1) : LastOf(f, list, n + 1, s, j) /\ ViewOf(f, list, n + 1)[s] = list[j]
      BY <1>1, <3>2, ViewAt
    <3>4. j # n + 1 /\ j \in 1 .. n
      BY <1>1, <2>3, <3>3 DEF LastOf
    <3>5. LastOf(f, list, n, s, j)
      BY <1>1, <3>3, <3>4 DEF LastOf
    <3>6. i = j
      BY <3>1, <3>5, LastIsOne
    <3> QED BY <2>3, <3>1, <3>3, <3>6
  <2> QED BY <2>1, <2>2, <2>3
<1>3. \A m : ViewOf(f, list, m) = [s \in PolicyScopes |-> ViewOf(f, list, m)[s]]
  BY DEF ViewOf
<1> QED BY <1>2, <1>3

-----------------------------------------------------------------------------
Length == Len(replaced)

(* Who is past a lock holds it; what a request writes is the file as it is *)
(* with its own scope changed.                                             *)
LocksHeld == \A r \in Saves :
  /\ save[r].pc \in {"open", "load", "replace", "unlock", "publish"} => persistMu[save[r].process] = r
  /\ save[r].pc \in {"load", "replace", "unlock"} => flock = r
  /\ save[r].pc = "replace" => save[r].snapshot = [policyFile EXCEPT ![save[r].scope] = r]

FileIsView == policyFile = ViewOf(save, replaced, Length)

(* Each request replaces the file once at most. *)
ReplacedOnce ==
  /\ \A i \in 1 .. Length : save[replaced[i]].pc \in {"unlock", "publish", "saved", "lost"}
  /\ \A i, j \in 1 .. Length : replaced[i] = replaced[j] => i = j

(* The n first replacements hold the acknowledged saves of a process. *)
Covers(requests, list, n, p) == \A i \in 1 .. Len(list) :
  requests[list[i]].pc = "saved" /\ requests[list[i]].process = p => i <= n

(* What a request is about to publish is the file as it left it, newer     *)
(* than what its process acknowledged.                                     *)
Written == \A r \in Saves : save[r].pc \in {"unlock", "publish"} =>
  \E n \in 1 .. Length :
    /\ replaced[n] = r /\ save[r].snapshot = ViewOf(save, replaced, n)
    /\ Covers(save, replaced, n, save[r].process)

Readers == \A p \in up : \E n \in 0 .. Length :
  policies[p] = ViewOf(save, replaced, n) /\ Covers(save, replaced, n, p)

PolicyInv ==
  /\ PolicyTypeOK
  /\ LocksHeld /\ FileIsView /\ ReplacedOnce /\ Written /\ Readers

LEMMA ViewIs == \A n : View(n) = ViewOf(save, replaced, n)
  BY DEF View, ViewOf

LEMMA LengthTyped ==
  ASSUME PolicyTypeOK
  PROVE  /\ Length \in Nat /\ DOMAIN replaced = 1 .. Length
         /\ \A i \in 1 .. Length : replaced[i] \in Saves
BY DEF PolicyTypeOK, Length

LEMMA PolicyInvInit == PolicyInit => PolicyInv
<1> SUFFICES ASSUME PolicyInit PROVE PolicyInv
  OBVIOUS
<1>1. /\ replaced = <<>> /\ policyFile = Empty /\ \A p \in up : policies[p] = Empty
      /\ \A r \in Saves : save[r].pc = "idle"
  BY DEF PolicyInit
<1>2. Length = 0 /\ 0 \in Nat /\ \A i \in 1 .. 0 : FALSE
  BY <1>1 DEF Length
<1>3. Empty \in Policies
  BY DEF Empty, Policies
<1>4. PolicyTypeOK
  <2>1. (CHOOSE p \in StudioProcesses : TRUE) \in StudioProcesses /\ (CHOOSE s \in PolicyScopes : TRUE) \in PolicyScopes
    BY PolicyStoreAssumption
  <2>2. save \in [Saves -> SaveRequest]
    BY <1>3, <2>1 DEF PolicyInit, SaveRequest
  <2>3. policies \in [StudioProcesses -> Policies]
    BY <1>3 DEF PolicyInit
  <2>4. /\ policyFile \in Policies /\ broken = FALSE /\ up = StudioProcesses /\ flock = NoPolicy
        /\ persistMu \in [StudioProcesses -> Saves \union {NoPolicy}] /\ replaced \in Seq(Saves)
    BY <1>1, <1>3 DEF PolicyInit
  <2> QED BY <2>2, <2>3, <2>4 DEF PolicyTypeOK
<1>5. ViewOf(save, replaced, 0) = Empty
  <2>1. \A s \in PolicyScopes : ViewOf(save, replaced, 0)[s] = NoPolicy
    BY <1>2, ViewAt
  <2> QED BY <2>1 DEF ViewOf, Empty
<1>6. LocksHeld /\ FileIsView /\ ReplacedOnce /\ Written
  BY <1>1, <1>2, <1>5 DEF LocksHeld, FileIsView, ReplacedOnce, Written
<1>7. Readers
  <2>1. 0 \in 0 .. Length /\ \A p : Covers(save, replaced, 0, p)
    BY <1>2 DEF Covers, Length
  <2> QED BY <1>1, <1>5, <2>1 DEF Readers
<1> QED BY <1>4, <1>6, <1>7 DEF PolicyInv

(* The requests that replaced the file keep their scope and process. *)
Settled(r) ==
  /\ save'[r].process = save[r].process /\ save'[r].scope = save[r].scope
  /\ save'[r].snapshot = save[r].snapshot
  /\ save[r].pc = "unlock" => save'[r].pc \in {"unlock", "publish", "lost"}
  /\ save[r].pc = "publish" => save'[r].pc \in {"publish", "lost"}
  /\ save[r].pc \in {"saved", "lost"} => save'[r].pc = save[r].pc

Replaced == {"unlock", "publish", "saved", "lost"}

(* A step that neither replaces the file nor publishes it. *)
LEMMA QuietSave ==
  ASSUME PolicyInv, UNCHANGED <<policyFile, replaced>>,
         up' \subseteq up, \A p \in up' : policies'[p] = policies[p],
         \A r \in Saves : save[r].pc \in Replaced => Settled(r),
         \A r \in Saves : save'[r].pc \in Replaced \ {"lost"} => save[r].pc \in Replaced
  PROVE  FileIsView' /\ ReplacedOnce' /\ Written' /\ Readers'
<1>1. /\ Length \in Nat /\ Length' = Length /\ replaced' = replaced
      /\ \A i \in 1 .. Length : replaced[i] \in Saves /\ save[replaced[i]].pc \in Replaced
  BY LengthTyped DEF PolicyInv, Length, ReplacedOnce, Replaced
<1>2. \A i \in 1 .. Length : Settled(replaced[i])
  BY <1>1
<1>3. ASSUME NEW n \in 0 .. Length
      PROVE  ViewOf(save', replaced', n) = ViewOf(save, replaced, n)
  <2>1. n \in Nat /\ \A i \in 1 .. n : i \in 1 .. Length
    BY <1>1
  <2>2. \A i \in 1 .. n : replaced'[i] = replaced[i] /\ save'[replaced[i]].scope = save[replaced[i]].scope
    BY <1>1, <1>2, <2>1 DEF Settled
  <2> QED BY <2>1, <2>2, ViewStays
<1>4. Length \in 0 .. Length /\ \A i \in 1 .. Length : i \in 0 .. Length
  BY <1>1
<1>5. FileIsView'
  BY <1>1, <1>3, <1>4 DEF PolicyInv, FileIsView
<1>6. \A n, p : Covers(save, replaced, n, p) => Covers(save', replaced', n, p)
  <2>1. \A i \in 1 .. Length : save'[replaced[i]].pc = "saved" =>
           save[replaced[i]].pc = "saved" /\ save'[replaced[i]].process = save[replaced[i]].process
    BY <1>1, <1>2 DEF Settled, Replaced
  <2> QED BY <1>1, <2>1 DEF Covers, Length
<1>7. ReplacedOnce'
  <2>1. \A i \in 1 .. Length : save'[replaced[i]].pc \in {"unlock", "publish", "saved", "lost"}
    BY <1>1, <1>2 DEF Settled, Replaced
  <2> QED BY <1>1, <2>1 DEF PolicyInv, ReplacedOnce
<1>8. Written'
  <2> SUFFICES ASSUME NEW r \in Saves, save'[r].pc \in {"unlock", "publish"}
               PROVE  \E n \in 1 .. Length : /\ replaced'[n] = r
                        /\ save'[r].snapshot = ViewOf(save', replaced', n)
                        /\ Covers(save', replaced', n, save'[r].process)
    BY <1>1 DEF Written
  <2>1. save[r].pc \in {"unlock", "publish"} /\ Settled(r)
    BY DEF Replaced, Settled
  <2>2. PICK n \in 1 .. Length : /\ replaced[n] = r /\ save[r].snapshot = ViewOf(save, replaced, n)
                                /\ Covers(save, replaced, n, save[r].process)
    BY <2>1 DEF PolicyInv, Written
  <2>3. save'[r].snapshot = ViewOf(save', replaced', n)
    BY <1>3, <1>4, <2>1, <2>2 DEF Settled
  <2>4. Covers(save', replaced', n, save'[r].process)
    BY <1>6, <2>1, <2>2 DEF Settled
  <2> QED BY <1>1, <2>2, <2>3, <2>4
<1>9. Readers'
  <2> SUFFICES ASSUME NEW p \in up'
               PROVE  \E n \in 0 .. Length : policies'[p] = ViewOf(save', replaced', n) /\ Covers(save', replaced', n, p)
    BY <1>1 DEF Readers
  <2>1. PICK n \in 0 .. Length : policies[p] = ViewOf(save, replaced, n) /\ Covers(save, replaced, n, p)
    BY DEF PolicyInv, Readers
  <2> QED BY <1>3, <1>6, <2>1
<1> QED BY <1>5, <1>7, <1>8, <1>9

-----------------------------------------------------------------------------
(* What a step of one request changes of it. *)
LEMMA RequestTo ==
  ASSUME NEW f \in [Saves -> SaveRequest], NEW g, NEW r \in Saves, NEW pc,
         pc \in {"wait", "open", "load", "replace", "unlock", "publish", "saved", "refused"},
         g = [f EXCEPT ![r].pc = pc]
  PROVE  /\ g \in [Saves -> SaveRequest]
         /\ \A q \in Saves \ {r} : g[q] = f[q]
         /\ g[r].pc = pc /\ g[r].process = f[r].process /\ g[r].scope = f[r].scope
         /\ g[r].snapshot = f[r].snapshot
<1>1. f[r] \in SaveRequest
  OBVIOUS
<1> DEFINE m == [f[r] EXCEPT !.pc = pc]
<1>2. m \in SaveRequest /\ m.pc = pc /\ m.process = f[r].process /\ m.scope = f[r].scope
      /\ m.snapshot = f[r].snapshot
  BY <1>1 DEF SaveRequest
<1>3. g = [f EXCEPT ![r] = m]
  OBVIOUS
<1> HIDE DEF m
<1> QED BY <1>2, <1>3

LEMMA RequestSaveKept == ASSUME PolicyInv, NEW r \in Saves, RequestSave(r) PROVE PolicyInv'
<1>1. save \in [Saves -> SaveRequest] /\ save[r] \in SaveRequest /\ save[r].pc = "idle"
  BY DEF PolicyInv, PolicyTypeOK, RequestSave
<1>2. PICK p \in up, s \in PolicyScopes, pc \in {"wait", "refused"} :
        save' = [save EXCEPT ![r] = [@ EXCEPT !.pc = pc, !.process = p, !.scope = s]]
  BY DEF RequestSave
<1>3. UNCHANGED <<policyFile, broken, policies, up, persistMu, flock, replaced>>
  BY DEF RequestSave
<1> DEFINE m == [save[r] EXCEPT !.pc = pc, !.process = p, !.scope = s]
<1>4. p \in StudioProcesses
  BY DEF PolicyInv, PolicyTypeOK
<1>5. m \in SaveRequest /\ m.pc = pc
  BY <1>1, <1>4 DEF SaveRequest
<1>6. save' = [save EXCEPT ![r] = m]
  BY <1>2
<1> HIDE DEF m
<1>7. save' \in [Saves -> SaveRequest] /\ save'[r].pc = pc /\ \A q \in Saves \ {r} : save'[q] = save[q]
  BY <1>1, <1>5, <1>6
<1>8. PolicyTypeOK'
  BY <1>3, <1>7 DEF PolicyInv, PolicyTypeOK
<1>9. LocksHeld'
  BY <1>3, <1>7 DEF PolicyInv, LocksHeld
<1>10. FileIsView' /\ ReplacedOnce' /\ Written' /\ Readers'
  <2>1. \A q \in Saves : save[q].pc \in Replaced => Settled(q)
    BY <1>1, <1>7 DEF Settled, Replaced
  <2>2. \A q \in Saves : save'[q].pc \in Replaced \ {"lost"} => save[q].pc \in Replaced
    BY <1>7 DEF Replaced
  <2> QED BY <1>3, <2>1, <2>2, QuietSave
<1> QED BY <1>8, <1>9, <1>10 DEF PolicyInv

LEMMA TakeMutexKept == ASSUME PolicyInv, NEW r \in Saves, TakeMutex(r) PROVE PolicyInv'
<1>1. /\ save \in [Saves -> SaveRequest] /\ save[r].pc = "wait"
      /\ persistMu[save[r].process] = NoPolicy
      /\ persistMu \in [StudioProcesses -> Saves \union {NoPolicy}]
      /\ persistMu' = [persistMu EXCEPT ![save[r].process] = r]
      /\ save' = [save EXCEPT ![r].pc = "open"]
      /\ UNCHANGED <<policyFile, broken, policies, up, flock, replaced>>
  BY DEF PolicyInv, PolicyTypeOK, TakeMutex, Home, SaveAt
<1>2. /\ save' \in [Saves -> SaveRequest] /\ \A q \in Saves \ {r} : save'[q] = save[q]
      /\ save'[r].pc = "open" /\ save'[r].process = save[r].process
  BY <1>1, RequestTo
<1>3. \A q \in Saves : save[q].process \in StudioProcesses
  BY <1>1 DEF SaveRequest
<1>4. persistMu' \in [StudioProcesses -> Saves \union {NoPolicy}]
  BY <1>1, <1>3
<1>5. PolicyTypeOK'
  BY <1>1, <1>2, <1>4 DEF PolicyInv, PolicyTypeOK
<1>6. LocksHeld'
  <2> SUFFICES ASSUME NEW q \in Saves
               PROVE  /\ save'[q].pc \in {"open", "load", "replace", "unlock", "publish"} =>
                           persistMu'[save'[q].process] = q
                      /\ save'[q].pc \in {"load", "replace", "unlock"} => flock' = q
                      /\ save'[q].pc = "replace" =>
                           save'[q].snapshot = [policyFile' EXCEPT ![save'[q].scope] = q]
    BY DEF LocksHeld
  <2>1. CASE q = r
    BY <1>1, <1>2, <1>3, <2>1
  <2>2. CASE q # r
    BY <1>1, <1>2, <1>3, <2>2, PolicyStoreAssumption DEF PolicyInv, LocksHeld
  <2> QED BY <2>1, <2>2
<1>7. FileIsView' /\ ReplacedOnce' /\ Written' /\ Readers'
  <2>1. \A q \in Saves : save[q].pc \in Replaced => Settled(q)
    BY <1>1, <1>2 DEF Settled, Replaced
  <2>2. \A q \in Saves : save'[q].pc \in Replaced \ {"lost"} => save[q].pc \in Replaced
    BY <1>2 DEF Replaced
  <2> QED BY <1>1, <2>1, <2>2, QuietSave
<1> QED BY <1>5, <1>6, <1>7 DEF PolicyInv

(* An error return gives up what the request holds. *)
LEMMA RefuseSaveKept ==
  ASSUME PolicyInv, NEW r \in Saves, RefuseSave(r), save[r].pc \in {"open", "load", "replace"}
  PROVE  PolicyInv'
<1>1. /\ save \in [Saves -> SaveRequest]
      /\ persistMu \in [StudioProcesses -> Saves \union {NoPolicy}]
      /\ persistMu' = [persistMu EXCEPT ![save[r].process] = NoPolicy]
      /\ flock' = IF flock = r THEN NoPolicy ELSE flock
      /\ save' = [save EXCEPT ![r].pc = "refused"]
      /\ UNCHANGED <<policyFile, broken, policies, up, replaced>>
  BY DEF PolicyInv, PolicyTypeOK, RefuseSave, Home, SaveAt
<1>2. /\ save' \in [Saves -> SaveRequest] /\ \A q \in Saves \ {r} : save'[q] = save[q]
      /\ save'[r].pc = "refused"
  BY <1>1, RequestTo
<1>3. \A q \in Saves : save[q].process \in StudioProcesses
  BY <1>1 DEF SaveRequest
<1>4. persistMu' \in [StudioProcesses -> Saves \union {NoPolicy}]
  BY <1>1, <1>3
<1>5. flock' \in Saves \union {NoPolicy}
  BY <1>1 DEF PolicyInv, PolicyTypeOK
<1>6. PolicyTypeOK'
  BY <1>1, <1>2, <1>4, <1>5 DEF PolicyInv, PolicyTypeOK
<1>7. persistMu[save[r].process] = r
  BY DEF PolicyInv, LocksHeld
<1>8. LocksHeld'
  <2> SUFFICES ASSUME NEW q \in Saves
               PROVE  /\ save'[q].pc \in {"open", "load", "replace", "unlock", "publish"} =>
                           persistMu'[save'[q].process] = q
                      /\ save'[q].pc \in {"load", "replace", "unlock"} => flock' = q
                      /\ save'[q].pc = "replace" =>
                           save'[q].snapshot = [policyFile' EXCEPT ![save'[q].scope] = q]
    BY DEF LocksHeld
  <2>1. CASE q = r
    BY <1>2, <2>1
  <2>2. CASE q # r
    BY <1>1, <1>2, <1>3, <1>7, <2>2 DEF PolicyInv, LocksHeld
  <2> QED BY <2>1, <2>2
<1>9. FileIsView' /\ ReplacedOnce' /\ Written' /\ Readers'
  <2>1. \A q \in Saves : save[q].pc \in Replaced => Settled(q)
    BY <1>2 DEF Settled, Replaced
  <2>2. \A q \in Saves : save'[q].pc \in Replaced \ {"lost"} => save[q].pc \in Replaced
    BY <1>2 DEF Replaced
  <2> QED BY <1>1, <2>1, <2>2, QuietSave
<1> QED BY <1>6, <1>8, <1>9 DEF PolicyInv

LEMMA LockFileKept == ASSUME PolicyInv, NEW r \in Saves, LockFile(r) PROVE PolicyInv'
<1>1. CASE RefuseSave(r)
  BY <1>1, RefuseSaveKept DEF LockFile
<1>2. CASE ~RefuseSave(r)
  <2>1. /\ save \in [Saves -> SaveRequest] /\ save[r].pc = "open" /\ flock = NoPolicy /\ flock' = r
        /\ save' = [save EXCEPT ![r].pc = "load"]
        /\ UNCHANGED <<policyFile, broken, policies, up, persistMu, replaced>>
    BY <1>2 DEF PolicyInv, PolicyTypeOK, LockFile, SaveAt
  <2>2. /\ save' \in [Saves -> SaveRequest] /\ \A q \in Saves \ {r} : save'[q] = save[q]
        /\ save'[r].pc = "load" /\ save'[r].process = save[r].process
    BY <2>1, RequestTo
  <2>3. PolicyTypeOK'
    BY <2>1, <2>2 DEF PolicyInv, PolicyTypeOK
  <2>4. LocksHeld'
    BY <2>1, <2>2, PolicyStoreAssumption DEF PolicyInv, LocksHeld
  <2>5. FileIsView' /\ ReplacedOnce' /\ Written' /\ Readers'
    <3>1. \A q \in Saves : save[q].pc \in Replaced => Settled(q)
      BY <2>1, <2>2 DEF Settled, Replaced
    <3>2. \A q \in Saves : save'[q].pc \in Replaced \ {"lost"} => save[q].pc \in Replaced
      BY <2>2 DEF Replaced
    <3> QED BY <2>1, <3>1, <3>2, QuietSave
  <2> QED BY <2>3, <2>4, <2>5 DEF PolicyInv
<1> QED BY <1>1, <1>2

LEMMA ReloadKept == ASSUME PolicyInv, NEW r \in Saves, Reload(r) PROVE PolicyInv'
<1>1. CASE broken
  BY <1>1, RefuseSaveKept DEF Reload
<1>2. CASE ~broken
  <2> DEFINE file == [policyFile EXCEPT ![save[r].scope] = r]
             m == [save[r] EXCEPT !.pc = "replace", !.snapshot = file]
  <2>1. /\ save \in [Saves -> SaveRequest] /\ save[r] \in SaveRequest /\ policyFile \in Policies
        /\ save[r].pc = "load"
        /\ UNCHANGED <<policyFile, broken, policies, up, persistMu, flock, replaced>>
    BY <1>2 DEF PolicyInv, PolicyTypeOK, Reload
  <2>2. file \in Policies
    BY <2>1 DEF Policies, SaveRequest
  <2>3. /\ m \in SaveRequest /\ m.pc = "replace" /\ m.process = save[r].process
        /\ m.scope = save[r].scope /\ m.snapshot = file
    BY <2>1, <2>2 DEF SaveRequest
  <2>4. save' = [save EXCEPT ![r] = m]
    BY <1>2, <2>1 DEF Reload
  <2> HIDE DEF m
  <2>5. save' \in [Saves -> SaveRequest] /\ save'[r] = m /\ \A q \in Saves \ {r} : save'[q] = save[q]
    BY <2>1, <2>3, <2>4
  <2>6. PolicyTypeOK'
    BY <2>1, <2>5 DEF PolicyInv, PolicyTypeOK
  <2>7. LocksHeld'
    <3> SUFFICES ASSUME NEW q \in Saves
                 PROVE  /\ save'[q].pc \in {"open", "load", "replace", "unlock", "publish"} =>
                             persistMu'[save'[q].process] = q
                        /\ save'[q].pc \in {"load", "replace", "unlock"} => flock' = q
                        /\ save'[q].pc = "replace" =>
                             save'[q].snapshot = [policyFile' EXCEPT ![save'[q].scope] = q]
      BY DEF LocksHeld
    <3>1. CASE q = r
      BY <2>1, <2>3, <2>5, <3>1 DEF PolicyInv, LocksHeld
    <3>2. CASE q # r
      BY <2>1, <2>5, <3>2 DEF PolicyInv, LocksHeld
    <3> QED BY <3>1, <3>2
  <2>8. FileIsView' /\ ReplacedOnce' /\ Written' /\ Readers'
    <3>1. \A q \in Saves : save[q].pc \in Replaced => Settled(q)
      BY <2>1, <2>5 DEF Settled, Replaced
    <3>2. \A q \in Saves : save'[q].pc \in Replaced \ {"lost"} => save[q].pc \in Replaced
      BY <2>3, <2>5 DEF Replaced
    <3> QED BY <2>1, <3>1, <3>2, QuietSave
  <2> QED BY <2>6, <2>7, <2>8 DEF PolicyInv
<1> QED BY <1>1, <1>2

LEMMA UnlockKept == ASSUME PolicyInv, NEW r \in Saves, Unlock(r) PROVE PolicyInv'
<1>1. /\ save \in [Saves -> SaveRequest] /\ save[r].pc = "unlock" /\ flock' = NoPolicy
      /\ save' = [save EXCEPT ![r].pc = "publish"]
      /\ UNCHANGED <<policyFile, broken, policies, up, persistMu, replaced>>
  BY DEF PolicyInv, PolicyTypeOK, Unlock, SaveAt
<1>2. /\ save' \in [Saves -> SaveRequest] /\ \A q \in Saves \ {r} : save'[q] = save[q]
      /\ save'[r].pc = "publish" /\ save'[r].process = save[r].process
      /\ save'[r].scope = save[r].scope /\ save'[r].snapshot = save[r].snapshot
  BY <1>1, RequestTo
<1>3. PolicyTypeOK'
  BY <1>1, <1>2 DEF PolicyInv, PolicyTypeOK
<1>4. LocksHeld'
  BY <1>1, <1>2 DEF PolicyInv, LocksHeld
<1>5. FileIsView' /\ ReplacedOnce' /\ Written' /\ Readers'
  <2>1. \A q \in Saves : save[q].pc \in Replaced => Settled(q)
    BY <1>1, <1>2 DEF Settled, Replaced
  <2>2. \A q \in Saves : save'[q].pc \in Replaced \ {"lost"} => save[q].pc \in Replaced
    BY <1>1, <1>2 DEF Replaced
  <2> QED BY <1>1, <2>1, <2>2, QuietSave
<1> QED BY <1>3, <1>4, <1>5 DEF PolicyInv

(* The request's policy is the last the file got; what was written and     *)
(* what is read stays a view of it.                                        *)
LEMMA ReplaceKept == ASSUME PolicyInv, NEW r \in Saves, Replace(r) PROVE PolicyInv'
<1>1. CASE RefuseSave(r)
  BY <1>1, RefuseSaveKept DEF Replace
<1>2. CASE ~RefuseSave(r)
  <2>1. /\ save \in [Saves -> SaveRequest] /\ save[r] \in SaveRequest /\ save[r].pc = "replace"
        /\ policyFile' = save[r].snapshot /\ broken' = FALSE
        /\ replaced' = Append(replaced, r) /\ save' = [save EXCEPT ![r].pc = "unlock"]
        /\ UNCHANGED <<policies, up, persistMu, flock>>
    BY <1>2 DEF PolicyInv, PolicyTypeOK, Replace, SaveAt
  <2>2. /\ save' \in [Saves -> SaveRequest] /\ \A q \in Saves \ {r} : save'[q] = save[q]
        /\ save'[r].pc = "unlock" /\ save'[r].process = save[r].process
        /\ save'[r].scope = save[r].scope /\ save'[r].snapshot = save[r].snapshot
    <3>1. save \in [Saves -> SaveRequest] /\ save' = [save EXCEPT ![r].pc = "unlock"]
      BY <2>1
    <3> QED BY <3>1, RequestTo
  <2>3. PICK L \in Nat : /\ L = Length /\ L = Len(replaced) /\ DOMAIN replaced = 1 .. L
                        /\ \A i \in 1 .. L : replaced[i] \in Saves
    BY LengthTyped DEF PolicyInv, Length
  <2>4. /\ replaced' \in Seq(Saves) /\ Len(replaced') = L + 1 /\ Length' = L + 1
        /\ replaced'[L + 1] = r /\ \A i \in 1 .. L : replaced'[i] = replaced[i]
    <3>1. replaced \in Seq(Saves)
      BY DEF PolicyInv, PolicyTypeOK
    <3> QED BY <2>1, <2>3, <3>1 DEF Length
  <2>5. \A i : i \in 1 .. (L + 1) <=> i \in 1 .. L \/ i = L + 1
    BY <2>3
  <2>6. \A i \in 1 .. L : replaced[i] # r
    BY <2>1, <2>3 DEF PolicyInv, ReplacedOnce
  <2>7. ASSUME NEW n \in 0 .. L PROVE ViewOf(save', replaced', n) = ViewOf(save, replaced, n)
    <3>1. n \in Nat /\ \A i \in 1 .. n : i \in 1 .. L
      BY <2>3
    <3>2. \A i \in 1 .. n : replaced'[i] = replaced[i] /\ save'[replaced[i]].scope = save[replaced[i]].scope
      BY <2>2, <2>3, <2>4, <2>6, <3>1
    <3> QED BY <3>1, <3>2, ViewStays
  <2>8. L \in 0 .. L /\ L + 1 \in 0 .. (L + 1) /\ L + 1 \in 1 .. (L + 1)
        /\ \A n \in 1 .. L : n \in 0 .. L
    BY <2>3
  <2>9. ViewOf(save', replaced', L + 1) = policyFile'
    <3>1. ViewOf(save', replaced', L + 1) = [ViewOf(save', replaced', L) EXCEPT ![save[r].scope] = r]
      BY <2>2, <2>3, <2>4, ViewChanges
    <3>2. ViewOf(save', replaced', L) = policyFile
      BY <2>3, <2>7, <2>8 DEF PolicyInv, FileIsView
    <3>3. policyFile' = [policyFile EXCEPT ![save[r].scope] = r]
      BY <2>1 DEF PolicyInv, LocksHeld
    <3> QED BY <3>1, <3>2, <3>3
  <2>10. PolicyTypeOK'
    BY <2>1, <2>2, <2>4 DEF PolicyInv, PolicyTypeOK, SaveRequest
  <2>11. flock = r
    BY <2>1 DEF PolicyInv, LocksHeld
  <2>12. LocksHeld'
    <3> SUFFICES ASSUME NEW q \in Saves
                 PROVE  /\ save'[q].pc \in {"open", "load", "replace", "unlock", "publish"} =>
                             persistMu'[save'[q].process] = q
                        /\ save'[q].pc \in {"load", "replace", "unlock"} => flock' = q
                        /\ save'[q].pc = "replace" =>
                             save'[q].snapshot = [policyFile' EXCEPT ![save'[q].scope] = q]
      BY DEF LocksHeld
    <3>1. CASE q = r
      BY <2>1, <2>2, <3>1 DEF PolicyInv, LocksHeld
    <3>2. CASE q # r
      <4>1. save'[q] = save[q] /\ save[q].pc \notin {"load", "replace", "unlock"}
        BY <2>2, <2>11, <3>2 DEF PolicyInv, LocksHeld
      <4> QED BY <2>1, <4>1 DEF PolicyInv, LocksHeld
    <3> QED BY <3>1, <3>2
  <2>13. FileIsView'
    BY <2>4, <2>9 DEF FileIsView
  <2>14. ReplacedOnce'
    <3>1. \A i \in 1 .. (L + 1) : save'[replaced'[i]].pc \in {"unlock", "publish", "saved", "lost"}
      BY <2>2, <2>3, <2>4, <2>5, <2>6 DEF PolicyInv, ReplacedOnce
    <3>2. \A i, j \in 1 .. (L + 1) : replaced'[i] = replaced'[j] => i = j
      BY <2>3, <2>4, <2>5, <2>6 DEF PolicyInv, ReplacedOnce
    <3> QED BY <2>4, <3>1, <3>2 DEF ReplacedOnce
  <2>15. ASSUME NEW n \in Nat, NEW p, Covers(save, replaced, n, p) PROVE Covers(save', replaced', n, p)
    <3> SUFFICES ASSUME NEW i \in 1 .. (L + 1), save'[replaced'[i]].pc = "saved",
                        save'[replaced'[i]].process = p
                 PROVE  i <= n
      BY <2>4 DEF Covers
    <3>1. i \in 1 .. L
      BY <2>2, <2>4, <2>5
    <3>2. save'[replaced'[i]] = save[replaced[i]]
      BY <2>2, <2>3, <2>4, <2>6, <3>1
    <3> QED BY <2>3, <2>15, <3>1, <3>2 DEF Covers
  <2>16. Written'
    <3> SUFFICES ASSUME NEW q \in Saves, save'[q].pc \in {"unlock", "publish"}
                 PROVE  \E n \in 1 .. (L + 1) :
                          /\ replaced'[n] = q /\ save'[q].snapshot = ViewOf(save', replaced', n)
                          /\ Covers(save', replaced', n, save'[q].process)
      BY <2>4 DEF Written
    <3>1. CASE q = r
      <4>1. Covers(save', replaced', L + 1, save'[q].process)
        BY <2>3, <2>4 DEF Covers
      <4> QED BY <2>1, <2>2, <2>4, <2>8, <2>9, <3>1, <4>1
    <3>2. CASE q # r
      <4>1. save'[q] = save[q]
        BY <2>2, <3>2
      <4>2. PICK n \in 1 .. L : /\ replaced[n] = q /\ save[q].snapshot = ViewOf(save, replaced, n)
                               /\ Covers(save, replaced, n, save[q].process)
        BY <2>3, <4>1 DEF PolicyInv, Written
      <4>3. n \in 1 .. (L + 1) /\ n \in 0 .. L /\ n \in Nat
        BY <2>3
      <4> QED BY <2>4, <2>7, <2>15, <4>1, <4>2, <4>3
    <3> QED BY <3>1, <3>2
  <2>17. Readers'
    <3> SUFFICES ASSUME NEW p \in up
                 PROVE  \E n \in 0 .. (L + 1) : policies[p] = ViewOf(save', replaced', n)
                                              /\ Covers(save', replaced', n, p)
      BY <2>1, <2>4 DEF Readers
    <3>1. PICK n \in 0 .. L : policies[p] = ViewOf(save, replaced, n) /\ Covers(save, replaced, n, p)
      BY <2>3 DEF PolicyInv, Readers
    <3>2. n \in Nat /\ n \in 0 .. (L + 1)
      BY <2>3
    <3> QED BY <2>7, <2>15, <3>1, <3>2
  <2> QED BY <2>10, <2>12, <2>13, <2>14, <2>16, <2>17 DEF PolicyInv
<1> QED BY <1>1, <1>2

(* Readers of the process get what the request left in the file. *)
LEMMA PublishPoliciesKept == ASSUME PolicyInv, NEW r \in Saves, PublishPolicies(r) PROVE PolicyInv'
<1>1. /\ save \in [Saves -> SaveRequest] /\ save[r] \in SaveRequest /\ save[r].pc = "publish"
      /\ persistMu \in [StudioProcesses -> Saves \union {NoPolicy}]
      /\ policies \in [StudioProcesses -> Policies] /\ up \subseteq StudioProcesses
      /\ policies' = [policies EXCEPT ![save[r].process] = save[r].snapshot]
      /\ persistMu' = [persistMu EXCEPT ![save[r].process] = NoPolicy]
      /\ save' = [save EXCEPT ![r].pc = "saved"]
      /\ UNCHANGED <<policyFile, broken, up, flock, replaced>>
  BY DEF PolicyInv, PolicyTypeOK, PublishPolicies, Home, SaveAt
<1>2. /\ save' \in [Saves -> SaveRequest] /\ \A q \in Saves \ {r} : save'[q] = save[q]
      /\ save'[r].pc = "saved" /\ save'[r].process = save[r].process
      /\ save'[r].scope = save[r].scope /\ save'[r].snapshot = save[r].snapshot
  <2>1. save \in [Saves -> SaveRequest] /\ save' = [save EXCEPT ![r].pc = "saved"]
    BY <1>1
  <2> QED BY <2>1, RequestTo
<1>3. \A q \in Saves : save[q].process \in StudioProcesses
  BY <1>1 DEF SaveRequest
<1>4. persistMu' \in [StudioProcesses -> Saves \union {NoPolicy}]
  BY <1>1, <1>3
<1>5. policies' \in [StudioProcesses -> Policies]
  BY <1>1, <1>3 DEF SaveRequest
<1>6. PolicyTypeOK'
  BY <1>1, <1>2, <1>4, <1>5 DEF PolicyInv, PolicyTypeOK
<1>7. persistMu[save[r].process] = r
  BY <1>1 DEF PolicyInv, LocksHeld
<1>8. \A q \in Saves : q # r /\ save[q].pc \in {"open", "load", "replace", "unlock", "publish"} =>
        save[q].process # save[r].process
  BY <1>7 DEF PolicyInv, LocksHeld
<1>9. LocksHeld'
  <2> SUFFICES ASSUME NEW q \in Saves
               PROVE  /\ save'[q].pc \in {"open", "load", "replace", "unlock", "publish"} =>
                           persistMu'[save'[q].process] = q
                      /\ save'[q].pc \in {"load", "replace", "unlock"} => flock' = q
                      /\ save'[q].pc = "replace" =>
                           save'[q].snapshot = [policyFile' EXCEPT ![save'[q].scope] = q]
    BY DEF LocksHeld
  <2>1. CASE q = r
    BY <1>2, <2>1
  <2>2. CASE q # r
    BY <1>1, <1>2, <1>3, <1>8, <2>2 DEF PolicyInv, LocksHeld
  <2> QED BY <2>1, <2>2
<1>10. PICK L \in Nat : /\ L = Length /\ L = Len(replaced) /\ Length' = L
                       /\ \A i \in 1 .. L : replaced[i] \in Saves
  <2>1. Length' = Length
    BY <1>1 DEF Length
  <2> QED BY <2>1, LengthTyped DEF PolicyInv, Length
<1>11. replaced' = replaced
  BY <1>1
<1>12. ASSUME NEW n \in 0 .. L PROVE ViewOf(save', replaced', n) = ViewOf(save, replaced, n)
  <2>1. n \in Nat /\ \A i \in 1 .. n : i \in 1 .. L
    BY <1>10
  <2>2. \A i \in 1 .. n : replaced'[i] = replaced[i] /\ save'[replaced[i]].scope = save[replaced[i]].scope
    BY <1>2, <1>10, <1>11, <2>1
  <2> QED BY <2>1, <2>2, ViewStays
<1>13. L \in 0 .. L /\ \A n \in 1 .. L : n \in 0 .. L
  BY <1>10
<1>14. FileIsView'
  BY <1>1, <1>10, <1>12, <1>13 DEF PolicyInv, FileIsView
<1>15. ReplacedOnce'
  <2>1. \A i \in 1 .. L : save'[replaced[i]].pc \in {"unlock", "publish", "saved", "lost"}
    BY <1>2, <1>10 DEF PolicyInv, ReplacedOnce
  <2> QED BY <1>10, <1>11, <2>1 DEF PolicyInv, ReplacedOnce
<1>16. ASSUME NEW n, NEW p, p # save[r].process, Covers(save, replaced, n, p)
       PROVE  Covers(save', replaced', n, p)
  <2> SUFFICES ASSUME NEW i \in 1 .. L, save'[replaced[i]].pc = "saved", save'[replaced[i]].process = p
               PROVE  i <= n
    BY <1>10, <1>11 DEF Covers
  <2>1. replaced[i] # r
    BY <1>2, <1>16
  <2>2. save'[replaced[i]] = save[replaced[i]]
    BY <1>2, <1>10, <2>1
  <2> QED BY <1>10, <1>16, <2>2 DEF Covers
<1>17. Written'
  <2> SUFFICES ASSUME NEW q \in Saves, save'[q].pc \in {"unlock", "publish"}
               PROVE  \E n \in 1 .. L :
                        /\ replaced'[n] = q /\ save'[q].snapshot = ViewOf(save', replaced', n)
                        /\ Covers(save', replaced', n, save'[q].process)
    BY <1>10 DEF Written
  <2>1. q # r /\ save'[q] = save[q]
    BY <1>2
  <2>2. save[q].process # save[r].process
    BY <1>8, <2>1
  <2>3. PICK n \in 1 .. L : /\ replaced[n] = q /\ save[q].snapshot = ViewOf(save, replaced, n)
                           /\ Covers(save, replaced, n, save[q].process)
    BY <1>10, <2>1 DEF PolicyInv, Written
  <2> QED BY <1>11, <1>12, <1>13, <1>16, <2>1, <2>2, <2>3
<1>18. Readers'
  <2> SUFFICES ASSUME NEW p \in up
               PROVE  \E n \in 0 .. L : policies'[p] = ViewOf(save', replaced', n)
                                      /\ Covers(save', replaced', n, p)
    BY <1>1, <1>10 DEF Readers
  <2>1. CASE p = save[r].process
    <3>1. PICK n \in 1 .. L : /\ replaced[n] = r /\ save[r].snapshot = ViewOf(save, replaced, n)
                             /\ Covers(save, replaced, n, save[r].process)
      BY <1>1, <1>10 DEF PolicyInv, Written
    <3>2. Covers(save', replaced', n, p)
      <4> SUFFICES ASSUME NEW i \in 1 .. L, save'[replaced[i]].pc = "saved", save'[replaced[i]].process = p
                   PROVE  i <= n
        BY <1>10, <1>11 DEF Covers
      <4>1. CASE replaced[i] = r
        <5>1. i = n
          BY <1>10, <3>1, <4>1 DEF PolicyInv, ReplacedOnce
        <5> QED BY <1>10, <5>1
      <4>2. CASE replaced[i] # r
        <5>1. save'[replaced[i]] = save[replaced[i]]
          BY <1>2, <1>10, <4>2
        <5> QED BY <1>10, <2>1, <3>1, <5>1 DEF Covers
      <4> QED BY <4>1, <4>2
    <3>3. policies'[p] = save[r].snapshot
      BY <1>1, <1>3, <2>1
    <3> QED BY <1>12, <1>13, <3>1, <3>2, <3>3
  <2>2. CASE p # save[r].process
    <3>1. PICK n \in 0 .. L : policies[p] = ViewOf(save, replaced, n) /\ Covers(save, replaced, n, p)
      BY <1>10 DEF PolicyInv, Readers
    <3>2. policies'[p] = policies[p]
      BY <1>1, <2>2
    <3> QED BY <1>12, <1>16, <2>2, <3>1, <3>2
  <2> QED BY <2>1, <2>2
<1> QED BY <1>6, <1>9, <1>14, <1>15, <1>17, <1>18 DEF PolicyInv

(* A process that dies loses what it was at, and both its locks. *)
LEMMA CrashKept == ASSUME PolicyInv, NEW p \in StudioProcesses, Crash(p) PROVE PolicyInv'
<1>1. /\ save \in [Saves -> SaveRequest] /\ up' = up \ {p} /\ policyFile \in Policies
      /\ persistMu \in [StudioProcesses -> Saves \union {NoPolicy}]
      /\ policies \in [StudioProcesses -> Policies] /\ up \subseteq StudioProcesses
      /\ flock \in Saves \union {NoPolicy}
      /\ save' = [r \in Saves |-> IF save[r].process = p /\ save[r].pc \notin {"idle", "saved", "refused"}
                                  THEN [save[r] EXCEPT !.pc = "lost"] ELSE save[r]]
      /\ persistMu' = [persistMu EXCEPT ![p] = NoPolicy]
      /\ flock' = IF flock # NoPolicy /\ save[flock].process = p THEN NoPolicy ELSE flock
      /\ policies' = [policies EXCEPT ![p] = Empty]
      /\ UNCHANGED <<policyFile, broken, replaced>>
  BY DEF PolicyInv, PolicyTypeOK, Crash, Home
<1>2. \A r \in Saves : [save[r] EXCEPT !.pc = "lost"] \in SaveRequest
  <2> SUFFICES ASSUME NEW r \in Saves PROVE [save[r] EXCEPT !.pc = "lost"] \in SaveRequest
    OBVIOUS
  <2>1. save[r] \in SaveRequest
    BY <1>1
  <2> QED BY <2>1 DEF SaveRequest
<1>3. save' \in [Saves -> SaveRequest]
  BY <1>1, <1>2
<1>4. ASSUME NEW r \in Saves
      PROVE  /\ save'[r].process = save[r].process /\ save'[r].scope = save[r].scope
             /\ save'[r].snapshot = save[r].snapshot
             /\ save'[r].pc # "lost" => save'[r] = save[r]
             /\ save[r].pc \in {"idle", "saved", "refused", "lost"} => save'[r].pc = save[r].pc
             /\ save'[r].pc \notin {"idle", "saved", "refused", "lost"} => save[r].process # p
             /\ save'[r].pc \in {save[r].pc, "lost"}
  <2>1. save[r] \in SaveRequest
    BY <1>1
  <2>2. CASE save[r].process = p /\ save[r].pc \notin {"idle", "saved", "refused"}
    <3>1. save'[r] = [save[r] EXCEPT !.pc = "lost"]
      BY <1>1, <2>2
    <3> QED BY <2>1, <2>2, <3>1 DEF SaveRequest
  <2>3. CASE ~(save[r].process = p /\ save[r].pc \notin {"idle", "saved", "refused"})
    <3>1. save'[r] = save[r]
      BY <1>1, <2>3
    <3> QED BY <2>3, <3>1
  <2> QED BY <2>2, <2>3
<1>5. PolicyTypeOK'
  <2>1. Empty \in Policies
    BY DEF Empty, Policies
  <2>2. policies' \in [StudioProcesses -> Policies] /\ up' \subseteq StudioProcesses
    BY <1>1, <2>1
  <2>3. persistMu' \in [StudioProcesses -> Saves \union {NoPolicy}] /\ flock' \in Saves \union {NoPolicy}
    BY <1>1
  <2> QED BY <1>1, <1>3, <2>2, <2>3 DEF PolicyInv, PolicyTypeOK
<1>6. LocksHeld'
  <2> SUFFICES ASSUME NEW q \in Saves
               PROVE  /\ save'[q].pc \in {"open", "load", "replace", "unlock", "publish"} =>
                           persistMu'[save'[q].process] = q
                      /\ save'[q].pc \in {"load", "replace", "unlock"} => flock' = q
                      /\ save'[q].pc = "replace" =>
                           save'[q].snapshot = [policyFile' EXCEPT ![save'[q].scope] = q]
    BY DEF LocksHeld
  <2>1. CASE save'[q].pc = "lost"
    BY <2>1
  <2>2. CASE save'[q].pc # "lost"
    <3>1. save'[q] = save[q] /\ (save[q].pc \in {"open", "load", "replace", "unlock", "publish"} =>
                                   save[q].process # p)
      BY <1>4, <2>2
    <3>2. save[q].process \in StudioProcesses /\ q # NoPolicy
      BY <1>1, PolicyStoreAssumption DEF SaveRequest
    <3> QED BY <1>1, <3>1, <3>2 DEF PolicyInv, LocksHeld
  <2> QED BY <2>1, <2>2
<1>7. FileIsView' /\ ReplacedOnce' /\ Written' /\ Readers'
  <2>1. \A q \in Saves : save[q].pc \in Replaced => Settled(q)
    BY <1>4 DEF Settled, Replaced
  <2>2. \A q \in Saves : save'[q].pc \in Replaced \ {"lost"} => save[q].pc \in Replaced
    BY <1>4 DEF Replaced
  <2>3. up' \subseteq up /\ \A q \in up' : policies'[q] = policies[q]
    BY <1>1
  <2> QED BY <1>1, <2>1, <2>2, <2>3, QuietSave
<1> QED BY <1>5, <1>6, <1>7 DEF PolicyInv

(* A process that starts reads the file. *)
LEMMA StartStoreKept == ASSUME PolicyInv, NEW p \in StudioProcesses, StartStore(p) PROVE PolicyInv'
<1>1. /\ up' = up \union {p} /\ policies' = [policies EXCEPT ![p] = policyFile]
      /\ policies \in [StudioProcesses -> Policies] /\ policyFile \in Policies
      /\ UNCHANGED <<policyFile, broken, persistMu, flock, save, replaced>>
  BY DEF PolicyInv, PolicyTypeOK, StartStore
<1>2. PolicyTypeOK'
  BY <1>1 DEF PolicyInv, PolicyTypeOK
<1>3. LocksHeld' /\ FileIsView' /\ ReplacedOnce' /\ Written'
  BY <1>1 DEF PolicyInv, LocksHeld, FileIsView, ReplacedOnce, Written, Length
<1>4. Readers'
  <2>1. Length \in Nat /\ Length \in 0 .. Length /\ Length' = Length
    BY <1>1, LengthTyped DEF PolicyInv, Length
  <2>2. Covers(save, replaced, Length, p)
    BY <2>1 DEF Covers, Length
  <2> SUFFICES ASSUME NEW q \in up'
               PROVE  \E n \in 0 .. Length : policies'[q] = ViewOf(save, replaced, n)
                                           /\ Covers(save, replaced, n, q)
    BY <1>1, <2>1 DEF Readers
  <2>3. CASE q = p
    BY <1>1, <2>1, <2>2, <2>3 DEF PolicyInv, FileIsView
  <2>4. CASE q # p
    BY <1>1, <2>4 DEF PolicyInv, Readers
  <2> QED BY <2>3, <2>4
<1> QED BY <1>2, <1>3, <1>4 DEF PolicyInv

(* Whatever processes save at once or die, the file is what the            *)
(* replacements make of it, one after the other; a process that runs       *)
(* decides by some such file, never older than its acknowledged saves.     *)
THEOREM PoliciesStay == PolicyInit /\ [][PolicyNext]_policyVars => []PoliciesKept
<1>1. PolicyInv /\ [PolicyNext]_policyVars => PolicyInv'
  <2> SUFFICES ASSUME PolicyInv, [PolicyNext]_policyVars PROVE PolicyInv'
    OBVIOUS
  <2>1. ASSUME UNCHANGED <<policyFile, policies, up, persistMu, flock, save, replaced>>,
               broken' \in BOOLEAN
        PROVE  PolicyInv'
    BY <2>1 DEF PolicyInv, PolicyTypeOK, LocksHeld, FileIsView, ReplacedOnce, Written, Readers, Length
  <2>2. CASE Damage
    BY <2>1, <2>2 DEF Damage
  <2>3. CASE UNCHANGED policyVars
    BY <2>1, <2>3 DEF policyVars, PolicyInv, PolicyTypeOK
  <2> QED BY <2>2, <2>3, RequestSaveKept, TakeMutexKept, LockFileKept, ReloadKept, ReplaceKept,
             UnlockKept, PublishPoliciesKept, CrashKept, StartStoreKept DEF PolicyNext
<1>2. PolicyInv => PoliciesKept
  <2> SUFFICES ASSUME PolicyInv PROVE PoliciesKept
    OBVIOUS
  <2>1. policyFile = View(Len(replaced))
    BY ViewIs DEF PolicyInv, FileIsView, Length
  <2>2. ASSUME NEW p \in up
        PROVE  \E n \in 0 .. Len(replaced) :
                 /\ \A s \in PolicyScopes : Get(p, s) = View(n)[s]
                 /\ \A i \in 1 .. Len(replaced) :
                      save[replaced[i]].pc = "saved" /\ Home(replaced[i]) = p => i <= n
    <3>1. PICK n \in 0 .. Len(replaced) : policies[p] = ViewOf(save, replaced, n) /\ Covers(save, replaced, n, p)
      BY DEF PolicyInv, Readers, Length
    <3>2. policies[p] = View(n)
      BY <3>1, ViewIs
    <3> QED BY <3>1, <3>2 DEF Covers, Get, Home
  <2> QED BY <2>1, <2>2 DEF PoliciesKept
<1> QED BY <1>1, <1>2, PolicyInvInit, PTL
-----------------------------------------------------------------------------
(* Airlock's tool inventory (ToolInventory).                               *)

UpdateRecord ==
  [pc : {"idle", "wait", "loaded", "saved", "failed"}, kind : {"discover", "allow", "remove"},
   manager : Managers, listing : Listing, entry : Places \X Tools, snapshot : Snapshot,
   afresh : BOOLEAN]

Once(seen, t, h)  == \E q \in Requests : <<q, t, h>> \in seen
Twice(seen, t, h) == \E q, r \in Requests : q # r /\ <<q, t, h>> \in seen /\ <<r, t, h>> \in seen

(* What is written of a row was seen by a discovery, if known by two. *)
RowSeen(seen, t, row) ==
  row # Nobody => Once(seen, t, row.hash) /\ (row.state = "known" => Twice(seen, t, row.hash))

(* An acknowledged update put the entry into the allowlist. *)
Allowed(e) == \E r \in Requests : update[r].kind = "allow" /\ update[r].pc = "saved" /\ update[r].entry = e

(* The allowlist a request is about to acknowledge. *)
Granting(r) == Changed(r, [Fresh EXCEPT !.allow = IF update[r].afresh THEN {} ELSE granted]).allow

MutexHeld ==
  /\ \A r \in Requests : update[r].pc = "loaded" => inventoryMu[Manager(r)] = r
  /\ ~raced => \A q, r \in Requests : update[q].pc = "loaded" /\ update[r].pc = "loaded" => q = r

AllowlistKept ==
  /\ ~raced /\ ~spoiled => inventory.allow = granted
  /\ ~raced => \A r \in Requests : update[r].pc = "loaded" => update[r].snapshot.allow = Granting(r)

(* Only discoveries that were acknowledged have seen anything. *)
SightingsSaved == \A r \in Requests, t \in Tools, h \in Hashes :
  <<r, t, h>> \in sightings => update[r].pc = "saved"

RowsSeen ==
  /\ \A t \in Tools : RowSeen(sightings, t, inventory.rows[t])
  /\ \A r \in Requests : update[r].pc = "loaded" =>
       \A t \in Tools : LET row == update[r].snapshot.rows[t] IN
         IF update[r].kind # "discover" THEN RowSeen(sightings, t, row)
         ELSE row # Nobody => /\ update[r].listing[t] = row.hash
                              /\ row.state = "known" => Once(sightings, t, row.hash)

EntriesAllowed ==
  /\ \A e \in inventory.allow : Allowed(e)
  /\ \A r \in Requests : update[r].pc = "loaded" =>
       \A e \in update[r].snapshot.allow : Allowed(e) \/ (update[r].kind = "allow" /\ update[r].entry = e)

InventoryInv ==
  /\ InventoryTypeOK
  /\ MutexHeld /\ AllowlistKept /\ SightingsSaved /\ RowsSeen /\ EntriesAllowed

LEMMA FreshSnapshot == Fresh \in Snapshot /\ \A A \in SUBSET (Places \X Tools) :
                         /\ [Fresh EXCEPT !.allow = A] \in Snapshot
                         /\ [Fresh EXCEPT !.allow = A].allow = A
<1>1. [t \in Tools |-> Nobody] \in Rows
  BY DEF Rows
<1> QED BY <1>1 DEF Fresh, Snapshot

LEMMA UpdatesTyped == InventoryTypeOK <=>
  /\ offered \in Listing /\ inventory \in Snapshot /\ spoiled \in BOOLEAN /\ raced \in BOOLEAN
  /\ inventoryMu \in [Managers -> Requests \union {Nobody}]
  /\ update \in [Requests -> UpdateRecord] /\ granted \subseteq Places \X Tools
BY Zenon DEF InventoryTypeOK, UpdateRecord

(* The update functions on a file's content. *)
LEMMA ChangedTo ==
  ASSUME NEW r, update[r] \in UpdateRecord, NEW s \in Snapshot
  PROVE  /\ Changed(r, s) \in Snapshot
         /\ update[r].kind = "discover" =>
              /\ Changed(r, s).allow = s.allow
              /\ \A t \in Tools : Changed(r, s).rows[t] =
                   IF update[r].listing[t] = Nobody THEN Nobody
                   ELSE Observe(s.rows[t], update[r].listing[t])
         /\ update[r].kind = "allow" =>
              Changed(r, s).allow = s.allow \union {update[r].entry} /\ Changed(r, s).rows = s.rows
         /\ update[r].kind = "remove" =>
              Changed(r, s).allow = s.allow \ {update[r].entry} /\ Changed(r, s).rows = s.rows
<1>1. /\ update[r].kind \in {"discover", "allow", "remove"} /\ update[r].listing \in Listing
      /\ update[r].entry \in Places \X Tools
      /\ s.allow \subseteq Places \X Tools /\ s.rows \in Rows
      /\ \A A, R : [s EXCEPT !.allow = A].allow = A /\ [s EXCEPT !.allow = A].rows = s.rows
                   /\ [s EXCEPT !.rows = R].rows = R /\ [s EXCEPT !.rows = R].allow = s.allow
  BY DEF UpdateRecord, Snapshot
<1>2. CASE update[r].kind = "discover"
  <2> DEFINE R == [t \in Tools |-> IF update[r].listing[t] = Nobody THEN Nobody
                                   ELSE Observe(s.rows[t], update[r].listing[t])]
  <2>1. Changed(r, s) = [s EXCEPT !.rows = R]
    BY <1>2 DEF Changed, Discovered
  <2>2. \A p \in Record \union {Nobody}, h \in Hashes : Observe(p, h) \in Record
    BY DEF Observe, Record, Classify
  <2>3. R \in Rows
    BY <1>1, <2>2 DEF Rows, Listing
  <2>4. Changed(r, s) \in Snapshot
    BY <2>1, <2>3 DEF Snapshot
  <2>5. \A t \in Tools : R[t] = IF update[r].listing[t] = Nobody THEN Nobody
                                ELSE Observe(s.rows[t], update[r].listing[t])
    OBVIOUS
  <2> HIDE DEF R
  <2> QED BY <1>1, <1>2, <2>1, <2>4, <2>5
<1>3. CASE update[r].kind = "allow"
  <2>1. Changed(r, s) = [s EXCEPT !.allow = s.allow \union {update[r].entry}]
    BY <1>3 DEF Changed
  <2>2. Changed(r, s) \in Snapshot
    BY <1>1, <2>1 DEF Snapshot
  <2> QED BY <1>1, <1>3, <2>1, <2>2
<1>4. CASE update[r].kind = "remove"
  <2>1. Changed(r, s) = [s EXCEPT !.allow = s.allow \ {update[r].entry}]
    BY <1>4 DEF Changed
  <2>2. Changed(r, s) \in Snapshot
    BY <1>1, <2>1 DEF Snapshot
  <2> QED BY <1>1, <1>4, <2>1, <2>2
<1> QED BY <1>1, <1>2, <1>3, <1>4

LEMMA InventoryInvInit == InventoryInit => InventoryInv
<1> SUFFICES ASSUME InventoryInit PROVE InventoryInv
  OBVIOUS
<1>1. /\ inventory = Fresh /\ granted = {} /\ sightings = {}
      /\ \A r \in Requests : update[r].pc = "idle"
  BY DEF InventoryInit
<1>2. InventoryTypeOK
  <2>1. (CHOOSE m \in Managers : TRUE) \in Managers /\ (CHOOSE t \in Tools : TRUE) \in Tools
    BY InventoryAssumption
  <2>2. [t \in Tools |-> Nobody] \in Listing
    BY DEF Listing
  <2>3. update \in [Requests -> UpdateRecord]
    BY <2>1, <2>2, FreshSnapshot DEF InventoryInit, UpdateRecord, Places
  <2> QED BY <2>3, FreshSnapshot, UpdatesTyped DEF InventoryInit
<1>3. inventory.allow = {} /\ \A t \in Tools : inventory.rows[t] = Nobody
  BY <1>1 DEF Fresh
<1> QED BY <1>1, <1>2, <1>3 DEF InventoryInv, MutexHeld, AllowlistKept, SightingsSaved, RowsSeen,
                                RowSeen, EntriesAllowed

(* A step that moves no request into or out of the file's critical section. *)
LEMMA QuietKept ==
  ASSUME InventoryInv, InventoryTypeOK',
         UNCHANGED <<inventory, inventoryMu, granted, sightings, raced>>,
         spoiled => spoiled',
         \A r \in Requests : \/ update'[r] = update[r]
                             \/ /\ update[r].pc \notin {"loaded", "saved"}
                                /\ update'[r].pc \notin {"loaded", "saved"}
  PROVE  InventoryInv'
<1>1. \A r \in Requests : update[r].pc \in {"loaded", "saved"} \/ update'[r].pc \in {"loaded", "saved"}
        => update'[r] = update[r]
  OBVIOUS
<1>2. MutexHeld'
  BY <1>1 DEF InventoryInv, MutexHeld, Manager
<1>3. AllowlistKept'
  <2>1. \A r \in Requests : update'[r] = update[r] => Granting(r)' = Granting(r)
    BY DEF Granting, Changed, Fresh, Discovered, Observe, Classify
  <2> QED BY <1>1, <2>1 DEF InventoryInv, AllowlistKept
<1>4. SightingsSaved'
  BY <1>1 DEF InventoryInv, SightingsSaved
<1>5. \A e : Allowed(e) => Allowed(e)'
  BY <1>1 DEF Allowed
<1>6. RowsSeen'
  BY <1>1 DEF InventoryInv, RowsSeen
<1>7. EntriesAllowed'
  BY <1>1, <1>5 DEF InventoryInv, EntriesAllowed
<1> QED BY <1>2, <1>3, <1>4, <1>6, <1>7 DEF InventoryInv

(* A request loads the file and applies its change. *)
LEMMA LoadedKept ==
  ASSUME InventoryInv, NEW r \in Requests, update[r].pc = "wait", Loaded(r),
         inventoryMu[Manager(r)] = Nobody,
         inventoryMu' = [inventoryMu EXCEPT ![Manager(r)] = r],
         UNCHANGED <<offered, inventory, spoiled, granted, sightings>>
  PROVE  InventoryInv'
<1>1. /\ update \in [Requests -> UpdateRecord] /\ inventory \in Snapshot /\ spoiled \in BOOLEAN
      /\ inventoryMu \in [Managers -> Requests \union {Nobody}]
      /\ raced \in BOOLEAN /\ offered \in Listing /\ granted \subseteq Places \X Tools
  BY UpdatesTyped DEF InventoryInv
<1>2. update[r] \in UpdateRecord /\ Manager(r) \in Managers
  BY <1>1 DEF UpdateRecord, Manager
<1>3. PICK base : base \in Snapshot /\ base = IF spoiled THEN Fresh ELSE inventory
  BY <1>1, FreshSnapshot
<1>4. PICK after : after \in Snapshot /\ after = Changed(r, base)
  BY <1>2, <1>3, ChangedTo
<1>5. /\ update' = [update EXCEPT ![r].pc = "loaded", ![r].afresh = spoiled, ![r].snapshot = after]
      /\ raced' = (raced \/ \E q \in Requests : update[q].pc = "loaded" /\ Manager(q) # Manager(r))
  BY <1>3, <1>4 DEF Loaded
<1>6. update' \in [Requests -> UpdateRecord]
  <2> DEFINE m == [update[r] EXCEPT !.pc = "loaded", !.afresh = spoiled, !.snapshot = after]
  <2>1. m \in UpdateRecord
    BY <1>1, <1>2, <1>4 DEF UpdateRecord
  <2>2. update' = [update EXCEPT ![r] = m]
    BY <1>1, <1>5
  <2> HIDE DEF m
  <2> QED BY <1>1, <2>1, <2>2
<1>7. /\ \A q \in Requests \ {r} : update'[q] = update[q]
      /\ update'[r] = [update[r] EXCEPT !.pc = "loaded", !.afresh = spoiled, !.snapshot = after]
  BY <1>1, <1>5
<1>8. /\ update'[r].pc = "loaded" /\ update'[r].afresh = spoiled /\ update'[r].snapshot = after
      /\ update'[r].kind = update[r].kind /\ update'[r].manager = update[r].manager
      /\ update'[r].listing = update[r].listing /\ update'[r].entry = update[r].entry
  BY <1>2, <1>7 DEF UpdateRecord
<1>9. /\ inventory' = inventory /\ granted' = granted /\ sightings' = sightings
      /\ spoiled' = spoiled /\ offered' = offered
  OBVIOUS
<1>10. InventoryTypeOK'
  <2>1. inventoryMu' \in [Managers -> Requests \union {Nobody}] /\ raced' \in BOOLEAN
    BY <1>1, <1>2, <1>5
  <2> QED BY <1>1, <1>6, <1>9, <2>1 DEF InventoryTypeOK, UpdateRecord
<1>11. \A q \in Requests : q # r /\ update[q].pc = "loaded" => Manager(q) # Manager(r)
  BY InventoryAssumption DEF InventoryInv, MutexHeld
<1>12. ~raced' => ~raced /\ \A q \in Requests : update[q].pc = "loaded" => q = r
  BY <1>5, <1>11
<1>13. MutexHeld'
  <2>1. \A q \in Requests : update'[q].pc = "loaded" => inventoryMu'[update'[q].manager] = q
    <3> SUFFICES ASSUME NEW q \in Requests, update'[q].pc = "loaded"
                 PROVE  inventoryMu'[update'[q].manager] = q
      OBVIOUS
    <3>1. CASE q = r
      BY <1>1, <1>2, <1>8, <3>1 DEF Manager
    <3>2. CASE q # r
      <4>1. update'[q] = update[q] /\ update[q].pc = "loaded" /\ Manager(q) # Manager(r)
        BY <1>7, <1>11, <3>2
      <4>2. inventoryMu[Manager(q)] = q /\ Manager(q) \in Managers
        BY <1>1, <4>1 DEF InventoryInv, MutexHeld, Manager, UpdateRecord
      <4> QED BY <1>1, <4>1, <4>2 DEF Manager
    <3> QED BY <3>1, <3>2
  <2>2. ASSUME ~raced' PROVE \A q \in Requests : update'[q].pc = "loaded" => q = r
    BY <1>7, <1>12, <2>2
  <2> QED BY <2>1, <2>2 DEF MutexHeld, Manager
<1>14. AllowlistKept'
  <2>1. ASSUME ~raced', ~spoiled PROVE inventory.allow = granted
    BY <1>12, <2>1 DEF InventoryInv, AllowlistKept
  <2>2. ASSUME ~raced' PROVE after.allow = Granting(r)'
    <3> DEFINE A == IF spoiled THEN {} ELSE granted
    <3>1. base.allow = A
      BY <1>3, <2>1, <2>2 DEF Fresh
    <3>2. /\ [Fresh EXCEPT !.allow = A] \in Snapshot
          /\ [Fresh EXCEPT !.allow = A].allow = A
      BY <1>1, FreshSnapshot
    <3>3. Granting(r)' = Changed(r, [Fresh EXCEPT !.allow = A]).allow
      BY <1>8, <1>9 DEF Granting, Changed, Discovered, Observe, Classify
    <3>4. PICK empty : empty \in Snapshot /\ empty = [Fresh EXCEPT !.allow = A] /\ empty.allow = base.allow
      BY <3>1, <3>2
    <3>5. Changed(r, empty).allow = Changed(r, base).allow
      <4>1. \A f \in Snapshot : Changed(r, f).allow =
              IF update[r].kind = "discover" THEN f.allow
              ELSE IF update[r].kind = "allow" THEN f.allow \union {update[r].entry}
              ELSE f.allow \ {update[r].entry}
        <5>1. update[r].kind \in {"discover", "allow", "remove"}
          BY <1>2 DEF UpdateRecord
        <5> QED BY <1>2, <5>1, ChangedTo
      <4> QED BY <1>3, <3>4, <4>1
    <3> QED BY <1>4, <3>3, <3>4, <3>5
  <2>3. ASSUME ~raced' PROVE \A q \in Requests : update'[q].pc = "loaded" =>
                                 q = r /\ update'[q].snapshot = after
    BY <1>7, <1>8, <1>12, <2>3
  <2>4. ~raced' /\ ~spoiled' => inventory'.allow = granted'
    BY <1>9, <2>1
  <2>5. ASSUME ~raced', NEW q \in Requests, update'[q].pc = "loaded"
        PROVE  update'[q].snapshot.allow = Granting(q)'
    BY <2>2, <2>3, <2>5
  <2> QED BY <2>4, <2>5 DEF AllowlistKept
<1>15. SightingsSaved'
  BY <1>7, <1>9 DEF InventoryInv, SightingsSaved
<1>16. RowsSeen'
  <2>1. \A t \in Tools : RowSeen(sightings, t, base.rows[t]) /\ base.rows[t] \in Record \union {Nobody}
    BY <1>3 DEF InventoryInv, RowsSeen, Fresh, RowSeen, Snapshot, Rows
  <2>2. ASSUME update[r].kind # "discover", NEW t \in Tools
        PROVE  RowSeen(sightings, t, after.rows[t])
    <3>1. after.rows = base.rows
      BY <1>2, <1>3, <1>4, <2>2, ChangedTo DEF UpdateRecord
    <3> QED BY <2>1, <3>1
  <2>3. ASSUME update[r].kind = "discover", NEW t \in Tools, after.rows[t] # Nobody
        PROVE  /\ update[r].listing[t] = after.rows[t].hash
               /\ after.rows[t].state = "known" => Once(sightings, t, after.rows[t].hash)
    <3>1. after.rows[t] = IF update[r].listing[t] = Nobody THEN Nobody
                          ELSE Observe(base.rows[t], update[r].listing[t])
      BY <1>2, <1>3, <1>4, <2>3, ChangedTo
    <3>2. after.rows[t] = Observe(base.rows[t], update[r].listing[t])
      BY <2>3, <3>1
    <3>3. /\ after.rows[t].hash = update[r].listing[t]
          /\ after.rows[t].state = "known" =>
               base.rows[t] # Nobody /\ base.rows[t].hash = update[r].listing[t]
      BY <3>2 DEF Observe
    <3> QED BY <2>1, <3>3 DEF RowSeen
  <2> SUFFICES ASSUME NEW q \in Requests, update'[q].pc = "loaded", NEW t \in Tools
               PROVE  LET row == update'[q].snapshot.rows[t] IN
                 IF update'[q].kind # "discover" THEN RowSeen(sightings, t, row)
                 ELSE row # Nobody => /\ update'[q].listing[t] = row.hash
                                      /\ row.state = "known" => Once(sightings, t, row.hash)
    BY <1>9 DEF InventoryInv, RowsSeen
  <2>4. CASE q = r
    BY <1>8, <2>2, <2>3, <2>4
  <2>5. CASE q # r
    BY <1>7, <2>5 DEF InventoryInv, RowsSeen
  <2> QED BY <2>4, <2>5
<1>17. EntriesAllowed'
  <2>1. \A e : Allowed(e) => Allowed(e)'
    BY <1>7 DEF Allowed
  <2>2. \A e \in base.allow : Allowed(e)
    BY <1>3 DEF InventoryInv, EntriesAllowed, Fresh
  <2>3. \A e \in after.allow : e \in base.allow \/ (update[r].kind = "allow" /\ update[r].entry = e)
    <3>1. update[r].kind \in {"discover", "allow", "remove"}
      BY <1>2 DEF UpdateRecord
    <3> QED BY <1>2, <1>3, <1>4, <3>1, ChangedTo
  <2>4. \A e \in inventory' .allow : Allowed(e)'
    BY <1>9, <2>1 DEF InventoryInv, EntriesAllowed
  <2>5. ASSUME NEW q \in Requests, update'[q].pc = "loaded", NEW e \in update'[q].snapshot.allow
        PROVE  Allowed(e)' \/ (update'[q].kind = "allow" /\ update'[q].entry = e)
    <3>1. CASE q = r
      BY <1>8, <2>1, <2>2, <2>3, <2>5, <3>1
    <3>2. CASE q # r
      <4>1. update'[q] = update[q]
        BY <1>7, <3>2
      <4> QED BY <2>1, <2>5, <4>1 DEF InventoryInv, EntriesAllowed
    <3> QED BY <3>1, <3>2
  <2> QED BY <2>4, <2>5 DEF EntriesAllowed
<1> QED BY <1>10, <1>13, <1>14, <1>15, <1>16, <1>17 DEF InventoryInv

(* A request replaces the file, or leaves it as it was. *)
LEMMA SaveInventoryKept ==
  ASSUME InventoryInv, NEW r \in Requests, SaveInventory(r)
  PROVE  InventoryInv'
<1>1. /\ update \in [Requests -> UpdateRecord] /\ inventory \in Snapshot /\ spoiled \in BOOLEAN
      /\ inventoryMu \in [Managers -> Requests \union {Nobody}]
      /\ raced \in BOOLEAN /\ offered \in Listing /\ granted \subseteq Places \X Tools
  BY UpdatesTyped DEF InventoryInv
<1>2. update[r] \in UpdateRecord /\ Manager(r) \in Managers
  BY <1>1 DEF UpdateRecord, Manager
<1>3. /\ update[r].pc = "loaded" /\ offered' = offered /\ raced' = raced
      /\ inventoryMu' = [inventoryMu EXCEPT ![Manager(r)] = Nobody]
  BY DEF SaveInventory
<1>4. inventoryMu' \in [Managers -> Requests \union {Nobody}]
  BY <1>1, <1>2, <1>3
<1>5. ASSUME NEW pc \in {"saved", "failed"}, MoveTo(r, pc)
      PROVE  /\ update' \in [Requests -> UpdateRecord]
             /\ \A q \in Requests \ {r} : update'[q] = update[q]
             /\ update'[r].pc = pc /\ update'[r].kind = update[r].kind
             /\ update'[r].entry = update[r].entry
             /\ MutexHeld'
             /\ ~raced => \A q \in Requests : update'[q].pc # "loaded"
  <2>1. update' = [update EXCEPT ![r].pc = pc]
    BY <1>5 DEF MoveTo
  <2>2. update' \in [Requests -> UpdateRecord]
    <3> DEFINE m == [update[r] EXCEPT !.pc = pc]
    <3>1. m \in UpdateRecord
      BY <1>2 DEF UpdateRecord
    <3>2. update' = [update EXCEPT ![r] = m]
      BY <1>1, <2>1
    <3> HIDE DEF m
    <3> QED BY <1>1, <3>1, <3>2
  <2>3. /\ \A q \in Requests \ {r} : update'[q] = update[q]
        /\ update'[r] = [update[r] EXCEPT !.pc = pc]
    BY <1>1, <2>1
  <2>4. /\ update'[r].pc = pc /\ update'[r].kind = update[r].kind
        /\ update'[r].entry = update[r].entry
    BY <1>2, <2>3 DEF UpdateRecord
  <2>5. ASSUME NEW q \in Requests, update'[q].pc = "loaded"
        PROVE  q # r /\ update'[q] = update[q] /\ inventoryMu'[update'[q].manager] = q
    <3>1. q # r /\ update'[q] = update[q] /\ update[q].pc = "loaded"
      BY <2>3, <2>4, <2>5
    <3>2. inventoryMu[Manager(q)] = q /\ inventoryMu[Manager(r)] = r /\ Manager(q) \in Managers
      BY <1>1, <1>3, <3>1 DEF InventoryInv, MutexHeld, Manager, UpdateRecord
    <3> QED BY <1>1, <1>3, <3>1, <3>2 DEF Manager
  <2>6. ~raced => \A q \in Requests : update'[q].pc # "loaded"
    <3>1. ASSUME ~raced, NEW q \in Requests, update'[q].pc = "loaded" PROVE FALSE
      <4>1. q # r /\ update[q].pc = "loaded"
        BY <2>5, <3>1
      <4> QED BY <1>3, <3>1, <4>1 DEF InventoryInv, MutexHeld
    <3> QED BY <3>1
  <2>7. MutexHeld'
    BY <1>3, <2>5, <2>6 DEF MutexHeld, Manager
  <2> QED BY <2>2, <2>3, <2>4, <2>6, <2>7
<1>6. CASE MoveTo(r, "failed") /\ UNCHANGED <<inventory, spoiled, granted, sightings>>
  <2>1. InventoryTypeOK'
    BY <1>1, <1>3, <1>4, <1>5, <1>6 DEF InventoryTypeOK, UpdateRecord
  <2>2. AllowlistKept'
    BY <1>3, <1>5, <1>6 DEF InventoryInv, AllowlistKept
  <2>3. SightingsSaved'
    BY <1>3, <1>5, <1>6 DEF InventoryInv, SightingsSaved
  <2>4. RowsSeen'
    BY <1>5, <1>6 DEF InventoryInv, RowsSeen
  <2>5. EntriesAllowed'
    <3>1. \A e : Allowed(e) => Allowed(e)'
      BY <1>3, <1>5, <1>6 DEF Allowed
    <3> QED BY <1>5, <1>6, <3>1 DEF InventoryInv, EntriesAllowed
  <2> QED BY <1>5, <1>6, <2>1, <2>2, <2>3, <2>4, <2>5 DEF InventoryInv
<1>7. CASE /\ inventory' = update[r].snapshot /\ spoiled' = FALSE
           /\ granted' = Changed(r, [Fresh EXCEPT !.allow = IF update[r].afresh THEN {} ELSE granted]).allow
           /\ sightings' = sightings \union
                IF update[r].kind # "discover" THEN {}
                ELSE {<<r, t, update[r].listing[t]>> : t \in {u \in Tools : update[r].listing[u] # Nobody}}
           /\ MoveTo(r, "saved")
  <2>1. granted' = Granting(r) /\ granted' \subseteq Places \X Tools
    <3> DEFINE A == IF update[r].afresh THEN {} ELSE granted
    <3>1. A \subseteq Places \X Tools
      BY <1>1
    <3>2. [Fresh EXCEPT !.allow = A] \in Snapshot
      BY <3>1, FreshSnapshot
    <3>3. Changed(r, [Fresh EXCEPT !.allow = A]) \in Snapshot
      BY <1>2, <3>2, ChangedTo
    <3>4. granted' = Changed(r, [Fresh EXCEPT !.allow = A]).allow /\ granted' = Granting(r)
      BY <1>7 DEF Granting
    <3> QED BY <3>3, <3>4 DEF Snapshot
  <2>2. InventoryTypeOK'
    <3>1. update[r].snapshot \in Snapshot
      BY <1>2 DEF UpdateRecord
    <3> QED BY <1>1, <1>3, <1>4, <1>5, <1>7, <2>1, <3>1 DEF InventoryTypeOK, UpdateRecord
  <2>3. AllowlistKept'
    <3>1. ~raced => update[r].snapshot.allow = Granting(r)
      BY <1>3 DEF InventoryInv, AllowlistKept
    <3> QED BY <1>3, <1>5, <1>7, <2>1, <3>1 DEF AllowlistKept
  <2>4. SightingsSaved'
    <3>1. ASSUME NEW q \in Requests, NEW t \in Tools, NEW h \in Hashes, <<q, t, h>> \in sightings'
          PROVE  q = r \/ <<q, t, h>> \in sightings
      BY <1>7, <3>1
    <3> QED BY <1>5, <1>7, <3>1 DEF InventoryInv, SightingsSaved
  <2>5. sightings \subseteq sightings'
    BY <1>7
  <2>6. \A t, h : /\ Once(sightings, t, h) => Once(sightings', t, h)
                  /\ Twice(sightings, t, h) => Twice(sightings', t, h)
    BY <2>5 DEF Once, Twice
  <2>7. \A t \in Tools : RowSeen(sightings', t, update[r].snapshot.rows[t])
    <3> SUFFICES ASSUME NEW t \in Tools PROVE RowSeen(sightings', t, update[r].snapshot.rows[t])
      OBVIOUS
    <3> DEFINE row == update[r].snapshot.rows[t]
    <3>1. CASE update[r].kind # "discover"
      <4>1. RowSeen(sightings, t, row)
        BY <1>3, <3>1 DEF InventoryInv, RowsSeen
      <4> QED BY <2>6, <4>1 DEF RowSeen
    <3>2. CASE update[r].kind = "discover" /\ row # Nobody
      <4>1. /\ update[r].listing[t] = row.hash
            /\ row.state = "known" => Once(sightings, t, row.hash)
        BY <1>3, <3>2 DEF InventoryInv, RowsSeen
      <4>2. row.hash \in Hashes /\ row.hash # Nobody
        BY <1>2, <3>2, InventoryAssumption DEF UpdateRecord, Snapshot, Rows, Record
      <4>3. <<r, t, row.hash>> \in sightings'
        BY <1>7, <3>2, <4>1, <4>2
      <4>4. ASSUME row.state = "known" PROVE Twice(sightings', t, row.hash)
        <5>1. PICK q \in Requests : <<q, t, row.hash>> \in sightings
          BY <4>1, <4>4 DEF Once
        <5>2. q # r
          BY <1>3, <4>2, <5>1 DEF InventoryInv, SightingsSaved
        <5> QED BY <2>5, <4>3, <5>1, <5>2 DEF Twice
      <4> QED BY <4>3, <4>4 DEF RowSeen, Once
    <3>3. CASE row = Nobody
      BY <3>3 DEF RowSeen
    <3> QED BY <3>1, <3>2, <3>3
  <2>8. RowsSeen'
    <3>1. ASSUME NEW q \in Requests, update'[q].pc = "loaded"
          PROVE  q # r /\ update'[q] = update[q] /\ update[q].pc = "loaded"
      BY <1>5, <1>7, <3>1
    <3>2. \A t, row : RowSeen(sightings, t, row) => RowSeen(sightings', t, row)
      BY <2>6 DEF RowSeen
    <3> SUFFICES ASSUME NEW q \in Requests, update'[q].pc = "loaded", NEW t \in Tools
                 PROVE  LET row == update'[q].snapshot.rows[t] IN
                   IF update'[q].kind # "discover" THEN RowSeen(sightings', t, row)
                   ELSE row # Nobody => /\ update'[q].listing[t] = row.hash
                                        /\ row.state = "known" => Once(sightings', t, row.hash)
      BY <1>7, <2>7 DEF RowsSeen
    <3> QED BY <2>6, <3>1, <3>2 DEF InventoryInv, RowsSeen
  <2>9. EntriesAllowed'
    <3>1. \A e : Allowed(e) => Allowed(e)'
      BY <1>3, <1>5, <1>7 DEF Allowed
    <3>2. \A e \in update[r].snapshot.allow : Allowed(e) \/ (update[r].kind = "allow" /\ update[r].entry = e)
      BY <1>3 DEF InventoryInv, EntriesAllowed
    <3>3. \A e \in update[r].snapshot.allow : Allowed(e)'
      BY <1>5, <1>7, <3>1, <3>2 DEF Allowed
    <3>4. ASSUME NEW q \in Requests, update'[q].pc = "loaded", NEW e \in update'[q].snapshot.allow
          PROVE  Allowed(e)' \/ (update'[q].kind = "allow" /\ update'[q].entry = e)
      <4>1. update'[q] = update[q] /\ update[q].pc = "loaded"
        BY <1>5, <1>7, <3>4
      <4> QED BY <3>1, <3>4, <4>1 DEF InventoryInv, EntriesAllowed
    <3> QED BY <1>7, <3>3, <3>4 DEF EntriesAllowed
  <2> QED BY <1>5, <1>7, <2>2, <2>3, <2>4, <2>8, <2>9 DEF InventoryInv
<1> QED BY <1>6, <1>7 DEF SaveInventory

LEMMA InventoryInvStep == InventoryInv /\ [InventoryNext]_inventoryVars => InventoryInv'
<1> SUFFICES ASSUME InventoryInv, [InventoryNext]_inventoryVars PROVE InventoryInv'
  OBVIOUS
<1>1. /\ update \in [Requests -> UpdateRecord] /\ inventory \in Snapshot /\ spoiled \in BOOLEAN
      /\ inventoryMu \in [Managers -> Requests \union {Nobody}]
      /\ raced \in BOOLEAN /\ offered \in Listing /\ granted \subseteq Places \X Tools
  BY UpdatesTyped DEF InventoryInv
<1>2. ASSUME NEW r \in Requests, NEW m \in UpdateRecord, update' = [update EXCEPT ![r] = m],
             m.pc \notin {"loaded", "saved"}, update[r].pc \in {"idle", "wait"},
             UNCHANGED <<offered, inventory, spoiled, inventoryMu, granted, sightings, raced>>
      PROVE  InventoryInv'
  <2>1. update' \in [Requests -> UpdateRecord]
    BY <1>1, <1>2
  <2>2. InventoryTypeOK'
    BY <1>1, <1>2, <2>1 DEF InventoryTypeOK, UpdateRecord
  <2>3. \A q \in Requests : \/ update'[q] = update[q]
                            \/ /\ update[q].pc \notin {"loaded", "saved"}
                               /\ update'[q].pc \notin {"loaded", "saved"}
    BY <1>1, <1>2
  <2> QED BY <1>2, <2>2, <2>3, QuietKept
<1>3. ASSUME NEW r \in Requests, Probe(r) PROVE InventoryInv'
  <2>1. PICK m \in Managers, answer \in {"wait", "failed"} :
          update' = [update EXCEPT ![r].pc = answer, ![r].kind = "discover",
                                   ![r].manager = m, ![r].listing = offered]
    BY <1>3 DEF Probe
  <2> DEFINE u == [update[r] EXCEPT !.pc = answer, !.kind = "discover", !.manager = m, !.listing = offered]
  <2>2. update[r] \in UpdateRecord /\ update[r].pc = "idle"
    BY <1>1, <1>3 DEF Probe
  <2>3. u \in UpdateRecord /\ u.pc = answer
    BY <1>1, <2>2 DEF UpdateRecord
  <2>4. update' = [update EXCEPT ![r] = u]
    BY <1>1, <2>1
  <2>5. UNCHANGED <<offered, inventory, spoiled, inventoryMu, granted, sightings, raced>>
    BY <1>3 DEF Probe
  <2> HIDE DEF u
  <2> QED BY <1>2, <2>2, <2>3, <2>4, <2>5
<1>4. ASSUME NEW r \in Requests, AskAllowlist(r) PROVE InventoryInv'
  <2>1. PICK m \in Managers, place \in Places, t \in Tools, kind \in {"allow", "remove"} :
          update' = [update EXCEPT ![r].pc = "wait", ![r].kind = kind, ![r].manager = m,
                                   ![r].entry = <<place, t>>]
    BY <1>4 DEF AskAllowlist
  <2> DEFINE u == [update[r] EXCEPT !.pc = "wait", !.kind = kind, !.manager = m, !.entry = <<place, t>>]
  <2>2. update[r] \in UpdateRecord /\ update[r].pc = "idle"
    BY <1>1, <1>4 DEF AskAllowlist
  <2>3. u \in UpdateRecord /\ u.pc = "wait"
    BY <2>2 DEF UpdateRecord
  <2>4. update' = [update EXCEPT ![r] = u]
    BY <1>1, <2>1
  <2>5. UNCHANGED <<offered, inventory, spoiled, inventoryMu, granted, sightings, raced>>
    BY <1>4 DEF AskAllowlist
  <2> HIDE DEF u
  <2> QED BY <1>2, <2>2, <2>3, <2>4, <2>5
<1>5. ASSUME NEW r \in Requests, LoadInventory(r) PROVE InventoryInv'
  <2>1. update[r].pc = "wait" /\ UNCHANGED <<offered, inventory, spoiled, granted, sightings>>
    BY <1>5 DEF LoadInventory
  <2>2. CASE spoiled /\ update[r].kind # "discover"
    <3> DEFINE u == [update[r] EXCEPT !.pc = "failed"]
    <3>1. update[r] \in UpdateRecord
      BY <1>1
    <3>2. u \in UpdateRecord /\ u.pc = "failed"
      BY <3>1 DEF UpdateRecord
    <3>3. update' = [update EXCEPT ![r] = u] /\ UNCHANGED <<inventoryMu, raced>>
      BY <1>1, <1>5, <2>2 DEF LoadInventory, MoveTo
    <3> HIDE DEF u
    <3> QED BY <1>2, <2>1, <3>2, <3>3
  <2>3. CASE ~(spoiled /\ update[r].kind # "discover")
    BY <1>5, <2>1, <2>3, LoadedKept DEF LoadInventory
  <2> QED BY <2>2, <2>3
<1>6. ASSUME UNCHANGED <<inventory, inventoryMu, update, granted, sightings, raced>>,
             spoiled => spoiled', spoiled' \in BOOLEAN, offered' \in Listing
      PROVE  InventoryInv'
  <2>1. InventoryTypeOK'
    BY <1>1, <1>6 DEF InventoryTypeOK, UpdateRecord
  <2> QED BY <1>6, <2>1, QuietKept
<1>7. CASE ChangeTools
  <2>1. offered' \in Listing
    BY <1>1, <1>7 DEF ChangeTools, Listing
  <2> QED BY <1>1, <1>6, <1>7, <2>1 DEF ChangeTools
<1>8. CASE Spoil
  BY <1>1, <1>6, <1>8 DEF Spoil
<1>9. CASE UNCHANGED inventoryVars
  BY <1>1, <1>6, <1>9 DEF inventoryVars
<1> QED BY <1>3, <1>4, <1>5, <1>7, <1>8, <1>9, SaveInventoryKept DEF InventoryNext

(* Overlapping discoveries and allowlist updates of one process lose none  *)
(* of each other's changes; a tool runs without approval only if it reads, *)
(* by a schema that two discoveries saw, and a call is open to a tool only *)
(* if an acknowledged update allowlisted it.                               *)
THEOREM InventoryStays == InventoryInit /\ [][InventoryNext]_inventoryVars => []InventoryKept
<1>1. InventoryInv => InventoryKept
  <2> SUFFICES ASSUME InventoryInv PROVE InventoryKept
    OBVIOUS
  <2>1. ~raced /\ ~spoiled => inventory.allow = granted
    BY DEF InventoryInv, AllowlistKept
  <2>2. \A t \in Tools : inventory.rows[t] # Nobody /\ inventory.rows[t].state = "known"
                           => SeenTwice(t, inventory.rows[t].hash)
    BY DEF InventoryInv, RowsSeen, RowSeen, Twice, SeenTwice
  <2>3. \A t \in Tools : inventory.rows[t] # Nobody =>
          inventory.rows[t].state \in {"new", "known", "changed"}
    BY DEF InventoryInv, InventoryTypeOK, Snapshot, Rows, Record
  <2>4. ASSUME NEW t \in Tools, NEW p \in Projects, Evaluate(inventory, p, t).status = "allowed"
        PROVE  SeenTwice(t, inventory.rows[t].hash) /\ inventory.rows[t].risk = "read_only"
    <3>1. inventory.rows[t] # Nobody
      BY <2>4 DEF Evaluate, D!DecideTool, D!SchemaReviewRequired
    <3>2. inventory.rows[t].state = "known" /\ inventory.rows[t].risk = "read_only"
      BY <2>3, <2>4, <3>1 DEF Evaluate, D!DecideTool, D!SchemaReviewRequired
    <3> QED BY <2>2, <3>1, <3>2
  <2>5. ASSUME NEW t \in Tools, NEW p \in Projects,
               Evaluate(inventory, p, t).status = "approval_required"
        PROVE  \E r \in Requests : update[r].kind = "allow" /\ update[r].pc = "saved"
                                    /\ update[r].entry \in {<<"server", t>>, <<p, t>>}
    <3>1. Allowlisted(inventory, p, t)
      BY <2>5 DEF Evaluate, D!DecideTool
    <3> QED BY <3>1 DEF Allowlisted, InventoryInv, EntriesAllowed, Allowed
  <2> QED BY <2>1, <2>2, <2>4, <2>5 DEF InventoryKept
<1> QED BY <1>1, InventoryInvInit, InventoryInvStep, PTL
-----------------------------------------------------------------------------
(* The route attempts (RouteAttempts).                                     *)

(* Where a caller is tells what it has: a first caller leads its own       *)
(* attempt and has a decision exactly when it is in the run's log.         *)
CallerPhases == \A c \in Callers : LET m == caller[c] IN
  /\ m.pc \in {"start", "claim", "route", "wait"} => m.outcome = "none" /\ c \notin recorded
  /\ m.pc \in {"publish", "done"} => m.outcome # "none"
  /\ m.pc \in {"start", "claim", "route", "publish"} => m.first = c
  /\ c \in recorded => m.first = c /\ m.outcome \in Decisions
  /\ m.first = c /\ m.outcome \in Decisions => c \in recorded

(* Whoever joins another's attempt asks for what its first caller asked. *)
RoutesJoined == \A c \in Callers : LET first == caller[c].first IN
  first # c =>
    /\ caller[c].pc \in {"wait", "done"}
    /\ caller[first].pc \in {"route", "publish", "done"} /\ caller[first].first = first
    /\ KeyOf(first) = KeyOf(c) /\ caller[first].route = caller[c].route
    /\ caller[c].outcome \in Decisions => first \in recorded /\ caller[first].outcome = caller[c].outcome

(* An attempt in flight has its key's place in the table. *)
PlacesHeld == \A c \in Callers :
  caller[c].pc \in {"route", "publish"} => KeyOf(c) \in DOMAIN table /\ table[KeyOf(c)] = c

(* Every place is of an attempt in flight or of one that was recorded. *)
PlacesLed == \A k \in DOMAIN table : LET c == table[k] IN
  /\ c \in Callers /\ KeyOf(c) = k /\ caller[c].first = c
  /\ caller[c].pc \in {"route", "publish"} \/ (caller[c].pc = "done" /\ c \in recorded)

(* A recorded attempt keeps its place until it is evicted. *)
RecordedKept == \A c \in recorded \ dropped : KeyOf(c) \in DOMAIN table /\ table[KeyOf(c)] = c

PlacesListed ==
  /\ IsInjective(listed)
  /\ {k \in DOMAIN table : caller[table[k]].pc = "done"} = Range(listed)

PlacesBounded == IsFiniteSet(DOMAIN table) /\ Cardinality(DOMAIN table) <= MaxAttempts

RouteInv ==
  /\ RouteTypeOK
  /\ CallerPhases /\ RoutesJoined
  /\ PlacesHeld /\ PlacesLed /\ RecordedKept /\ PlacesListed /\ PlacesBounded

LEMMA RouteInvInit == RouteInit => RouteInv
<1> SUFFICES ASSUME RouteInit PROVE RouteInv
  OBVIOUS
<1>1. /\ DOMAIN table = {} /\ listed = <<>> /\ recorded = {}
      /\ \A c \in Callers : caller[c].pc = "start" /\ caller[c].first = c /\ caller[c].outcome = "none"
  BY DEF RouteInit
<1>2. RouteTypeOK
  <2>1. (CHOOSE k \in RouteKeys : TRUE) \in RouteKeys /\ (CHOOSE r \in Routes : TRUE) \in Routes
    BY RouteAssumption
  <2>2. Range(table) = {}
    BY <1>1 DEF Range
  <2> QED BY <1>1, <2>1, <2>2 DEF RouteInit, RouteTypeOK
<1>3. CallerPhases /\ RoutesJoined /\ PlacesHeld /\ PlacesLed /\ RecordedKept
  BY <1>1 DEF CallerPhases, RoutesJoined, PlacesHeld, PlacesLed, RecordedKept, Decisions
<1>4. PlacesListed
  BY <1>1 DEF PlacesListed, IsInjective, Range
<1>5. PlacesBounded
  BY <1>1, FS_EmptySet, RouteAssumption DEF PlacesBounded
<1> QED BY <1>2, <1>3, <1>4, <1>5 DEF RouteInv

CallerRecord ==
  [pc : {"start", "claim", "wait", "route", "publish", "done"}, key : RouteKeys, route : Routes,
   first : Callers, outcome : Decisions \union {"none", "error"}]

(* A step of a caller that touches neither the table nor the log keeps     *)
(* what the table says, if the caller leads no attempt.                    *)
LEMMA BystanderKept ==
  ASSUME RouteInv, NEW c \in Callers, caller[c].pc \notin {"route", "publish", "done"},
         caller' \in [Callers -> CallerRecord], caller'[c].pc \notin {"route", "publish"},
         \A d \in Callers \ {c} : caller'[d] = caller[d],
         UNCHANGED <<table, listed, recorded, dropped>>
  PROVE  PlacesHeld' /\ PlacesLed' /\ RecordedKept' /\ PlacesListed' /\ PlacesBounded'
<1>1. caller \in [Callers -> CallerRecord] /\ recorded \subseteq Callers
  BY DEF RouteInv, RouteTypeOK, CallerRecord
<1>2. caller'[c].pc \notin {"route", "publish"} /\ \A d \in Callers \ {c} : caller'[d] = caller[d]
  OBVIOUS
<1>3. \A k \in DOMAIN table : table[k] \in Callers \ {c}
  BY DEF RouteInv, PlacesLed
<1>4. c \notin recorded
  <2>1. caller[c].pc \in {"start", "claim", "wait"}
    BY <1>1 DEF CallerRecord
  <2> QED BY <2>1 DEF RouteInv, CallerPhases
<1>5. PlacesHeld'
  BY <1>2 DEF RouteInv, PlacesHeld, KeyOf
<1>6. PlacesLed'
  BY <1>2, <1>3 DEF RouteInv, PlacesLed, KeyOf
<1>7. RecordedKept'
  BY <1>1, <1>2, <1>4 DEF RouteInv, RecordedKept, KeyOf
<1>8. PlacesListed'
  BY <1>2, <1>3 DEF RouteInv, PlacesListed
<1> QED BY <1>1, <1>5, <1>6, <1>7, <1>8 DEF RouteInv, PlacesBounded

LEMMA ReadRequestKept == ASSUME RouteInv, NEW c \in Callers, ReadRequest(c) PROVE RouteInv'
<1>1. PICK key \in RouteKeys, route \in Routes :
        caller' = [caller EXCEPT ![c].pc = "claim", ![c].key = key, ![c].route = route]
  BY DEF ReadRequest
<1>2. /\ caller[c].pc = "start"
      /\ UNCHANGED <<run, table, listed, hungUp, recorded, dropped>>
  BY DEF ReadRequest
<1>3. caller \in [Callers -> CallerRecord]
  BY DEF RouteInv, RouteTypeOK, CallerRecord
<1>4. caller' \in [Callers -> CallerRecord]
  <2> DEFINE m == [caller[c] EXCEPT !.pc = "claim", !.key = key, !.route = route]
  <2>1. m \in CallerRecord
    <3>1. caller[c] \in CallerRecord
      BY <1>3
    <3> QED BY <3>1 DEF CallerRecord
  <2>2. caller' = [caller EXCEPT ![c] = m]
    BY <1>1, <1>3
  <2> HIDE DEF m
  <2> QED BY <1>3, <2>1, <2>2
<1>5. /\ caller'[c].pc = "claim" /\ caller'[c].first = caller[c].first
      /\ caller'[c].outcome = caller[c].outcome
      /\ \A d \in Callers \ {c} : caller'[d] = caller[d]
  BY <1>1, <1>3 DEF CallerRecord
<1>6. PlacesHeld' /\ PlacesLed' /\ RecordedKept' /\ PlacesListed' /\ PlacesBounded'
  BY <1>2, <1>4, <1>5, BystanderKept
<1>7. RouteTypeOK'
  BY <1>2, <1>4 DEF RouteInv, RouteTypeOK, CallerRecord
<1>8. CallerPhases'
  BY <1>2, <1>5 DEF RouteInv, CallerPhases
<1>9. RoutesJoined'
  <2>1. caller[c].first = c /\ \A d \in Callers : d # c => caller[d].first # c
    BY <1>2 DEF RouteInv, CallerPhases, RoutesJoined
  <2>2. \A d \in Callers : caller[d].first \in Callers
    BY <1>3 DEF CallerRecord
  <2> QED BY <1>2, <1>5, <2>1, <2>2 DEF RouteInv, RoutesJoined, KeyOf
<1> QED BY <1>6, <1>7, <1>8, <1>9 DEF RouteInv

LEMMA JoinRouteKept ==
  ASSUME RouteInv, NEW c \in Callers, ClaimKey(c), JoinRoute(c)
  PROVE  RouteInv'
<1>1. /\ caller[c].pc = "claim" /\ KeyOf(c) \in DOMAIN table
      /\ UNCHANGED <<run, table, listed, hungUp, recorded, dropped>>
  BY DEF ClaimKey, JoinRoute
<1>2. caller \in [Callers -> CallerRecord]
  BY DEF RouteInv, RouteTypeOK, CallerRecord
<1>3. PICK first : first = table[KeyOf(c)]
  OBVIOUS
<1>4. /\ first \in Callers /\ first # c /\ KeyOf(first) = KeyOf(c)
      /\ caller[first].first = first /\ caller[first].pc \in {"route", "publish", "done"}
  BY <1>1, <1>3 DEF RouteInv, PlacesLed
<1>5. /\ caller' \in [Callers -> CallerRecord]
      /\ \A d \in Callers \ {c} : caller'[d] = caller[d]
      /\ caller'[c].key = caller[c].key /\ caller'[c].route = caller[c].route
      /\ \/ /\ caller'[c].pc = "done" /\ caller'[c].outcome = "error"
            /\ caller'[c].first = caller[c].first
         \/ /\ caller'[c].pc = "wait" /\ caller'[c].outcome = caller[c].outcome
            /\ caller'[c].first = first /\ caller[first].route = caller[c].route
  <2>1. CASE caller[first].route # caller[c].route
    <3>1. caller' = [caller EXCEPT ![c].pc = "done", ![c].outcome = "error"]
      BY <1>3, <2>1 DEF JoinRoute, Reply
    <3>2. caller' \in [Callers -> CallerRecord]
      BY ZenonT(60), <1>2, <3>1 DEF CallerRecord
    <3>3. /\ \A d \in Callers \ {c} : caller'[d] = caller[d]
          /\ caller'[c] = [caller[c] EXCEPT !.pc = "done", !.outcome = "error"]
      BY <1>2, <3>1 DEF CallerRecord
    <3>4. caller[c] \in CallerRecord
      BY <1>2
    <3> QED BY <3>2, <3>3, <3>4 DEF CallerRecord
  <2>2. CASE caller[first].route = caller[c].route
    <3>1. caller' = [caller EXCEPT ![c].pc = "wait", ![c].first = first]
      BY <1>3, <2>2 DEF JoinRoute
    <3>2. caller' \in [Callers -> CallerRecord]
      BY ZenonT(60), <1>2, <1>4, <3>1 DEF CallerRecord
    <3>3. /\ \A d \in Callers \ {c} : caller'[d] = caller[d]
          /\ caller'[c] = [caller[c] EXCEPT !.pc = "wait", !.first = first]
      BY <1>2, <3>1 DEF CallerRecord
    <3>4. caller[c] \in CallerRecord
      BY <1>2
    <3> QED BY <2>2, <3>2, <3>3, <3>4 DEF CallerRecord
  <2> QED BY <2>1, <2>2
<1>6. PlacesHeld' /\ PlacesLed' /\ RecordedKept' /\ PlacesListed' /\ PlacesBounded'
  BY <1>1, <1>5, BystanderKept
<1>8. RouteTypeOK'
  BY <1>1, <1>5 DEF RouteInv, RouteTypeOK, CallerRecord
<1>9. caller[c].first = c /\ caller[c].outcome = "none" /\ c \notin recorded
  BY <1>1 DEF RouteInv, CallerPhases
<1>10. CallerPhases'
  BY <1>1, <1>4, <1>5, <1>9 DEF RouteInv, CallerPhases, Decisions
<1>11. RoutesJoined'
  <2>1. \A d \in Callers : d # c => caller[d].first # c
    BY <1>1 DEF RouteInv, RoutesJoined
  <2>2. \A d \in Callers : caller[d].first \in Callers
    BY <1>2 DEF CallerRecord
  <2> QED BY <1>1, <1>4, <1>5, <1>9, <2>1, <2>2 DEF RouteInv, RoutesJoined, KeyOf, Decisions
<1> QED BY <1>6, <1>8, <1>10, <1>11 DEF RouteInv

LEMMA ReplayRouteKept == ASSUME RouteInv, NEW c \in Callers, ReplayRoute(c) PROVE RouteInv'
<1>1. /\ caller[c].pc = "wait"
      /\ UNCHANGED <<run, table, listed, hungUp, recorded, dropped>>
  BY DEF ReplayRoute
<1>2. caller \in [Callers -> CallerRecord]
  BY DEF RouteInv, RouteTypeOK, CallerRecord
<1>3. PICK first : first = caller[c].first /\ first \in Callers
  BY <1>2 DEF CallerRecord
<1>4. PICK outcome : /\ outcome = "error" \/ (caller[first].pc = "done" /\ outcome = caller[first].outcome)
                     /\ Reply(c, outcome)
  BY <1>3 DEF ReplayRoute
<1>5. outcome \in Decisions \union {"error"}
  <2>1. caller[first].outcome \in Decisions \union {"none", "error"}
    BY <1>2, <1>3 DEF CallerRecord
  <2>2. caller[first].pc = "done" => caller[first].outcome # "none"
    BY <1>3 DEF RouteInv, CallerPhases
  <2> QED BY <1>4, <2>1, <2>2
<1>6. caller' = [caller EXCEPT ![c].pc = "done", ![c].outcome = outcome]
  BY <1>4 DEF Reply
<1>7. caller' \in [Callers -> CallerRecord]
  BY ZenonT(60), <1>2, <1>5, <1>6 DEF CallerRecord
<1>8. /\ caller'[c].pc = "done" /\ caller'[c].first = first /\ caller'[c].outcome = outcome
      /\ caller'[c].key = caller[c].key /\ caller'[c].route = caller[c].route
      /\ \A d \in Callers \ {c} : caller'[d] = caller[d]
  BY <1>2, <1>3, <1>6 DEF CallerRecord
<1>9. RouteTypeOK'
  BY <1>1, <1>7 DEF RouteInv, RouteTypeOK, CallerRecord
<1>10. first = c => outcome = "error"
  BY <1>1, <1>4
<1>11. outcome \in Decisions => first \in recorded /\ caller[first].outcome = outcome /\ first # c
  <2>1. "error" \notin Decisions
    BY DEF Decisions
  <2>2. ASSUME outcome \in Decisions PROVE first \in recorded
    <3>1. caller[first].outcome \in Decisions /\ first # c
      BY <1>4, <1>10, <2>1, <2>2
    <3>2. caller[first].first = first
      BY <1>3, <3>1 DEF RouteInv, RoutesJoined
    <3> QED BY <1>3, <3>1, <3>2 DEF RouteInv, CallerPhases
  <2> QED BY <1>4, <1>10, <2>1, <2>2
<1>12. CallerPhases'
  <2>1. c \notin recorded
    BY <1>1 DEF RouteInv, CallerPhases
  <2> QED BY <1>1, <1>5, <1>8, <1>11, <2>1 DEF RouteInv, CallerPhases, Decisions
<1>13. RoutesJoined'
  <2>1. \A d \in Callers : d # c => caller[d].first # c
    BY <1>1 DEF RouteInv, RoutesJoined
  <2>2. \A d \in Callers : caller[d].first \in Callers
    BY <1>2 DEF CallerRecord
  <2>3. first # c => /\ caller[first].pc \in {"route", "publish", "done"} /\ caller[first].first = first
                     /\ KeyOf(first) = KeyOf(c) /\ caller[first].route = caller[c].route
    BY <1>3 DEF RouteInv, RoutesJoined
  <2> QED BY <1>1, <1>3, <1>8, <1>11, <2>1, <2>2, <2>3 DEF RouteInv, RoutesJoined, KeyOf
<1>14. PlacesHeld' /\ PlacesLed' /\ RecordedKept' /\ PlacesListed' /\ PlacesBounded'
  BY <1>1, <1>7, <1>8, BystanderKept
<1> QED BY <1>9, <1>12, <1>13, <1>14 DEF RouteInv

(* makeRoomLocked stops at some prefix of the list. *)
LEMMA LeavingExists ==
  ASSUME NEW len \in Nat, len = Len(listed)
  PROVE  Leaving \in 0 .. len /\ (Room(Leaving) \/ Leaving = len)
<1> DEFINE T == {n \in 0 .. len : Room(n) \/ n = len}
<1>1. T \in SUBSET Nat /\ len \in T
  OBVIOUS
<1>2. PICK n \in T : \A m \in T : n <= m
  <2> HIDE DEF T
  <2> QED BY <1>1, LeastNatural
<1>3. \A m \in 0 .. (n - 1) : ~Room(m)
  BY <1>2
<1>4. \E e \in 0 .. Len(listed) : /\ Room(e) \/ e = Len(listed)
                                  /\ \A m \in 0 .. (e - 1) : ~Room(m)
  BY <1>2, <1>3
<1> QED BY <1>4 DEF Leaving

(* The recorded attempts that leave first are the table's oldest.          *)
LEMMA OldestLeave ==
  ASSUME RouteInv, NEW n \in 0 .. Len(listed), NEW rest,
         rest = SubSeq(listed, n + 1, Len(listed))
  PROVE  /\ Kept(n) \subseteq DOMAIN table
         /\ \A k \in DOMAIN table : caller[table[k]].pc # "done" => k \in Kept(n)
         /\ \A k \in DOMAIN table : k \in Kept(n) \/ \E i \in 1 .. n : k = listed[i]
         /\ {k \in Kept(n) : caller[table[k]].pc = "done"} = Range(rest)
         /\ rest \in Seq(RouteKeys) /\ IsInjective(rest)
         /\ IsFiniteSet(Kept(n)) /\ Cardinality(Kept(n)) <= MaxAttempts
<1>1. listed \in Seq(RouteKeys) /\ IsInjective(listed)
  BY DEF RouteInv, RouteTypeOK, PlacesListed
<1> DEFINE gone == {listed[i] : i \in 1 .. n}
<1>2. /\ rest \in Seq(RouteKeys) /\ IsInjective(rest)
      /\ Range(rest) = Range(listed) \ gone
  BY <1>1, RestOfList
<1>3. Kept(n) = DOMAIN table \ gone
  BY DEF Kept
<1>4. gone \subseteq Range(listed)
  <2>1. DOMAIN listed = 1 .. Len(listed) /\ \A i \in 1 .. n : i \in 1 .. Len(listed)
    BY <1>1
  <2> QED BY <2>1 DEF Range
<1>5. {k \in DOMAIN table : caller[table[k]].pc = "done"} = Range(listed)
  BY DEF RouteInv, PlacesListed
<1>6. IsFiniteSet(Kept(n)) /\ Cardinality(Kept(n)) <= MaxAttempts
  <2>1. IsFiniteSet(DOMAIN table) /\ Cardinality(DOMAIN table) <= MaxAttempts
    BY DEF RouteInv, PlacesBounded
  <2>2. /\ IsFiniteSet(Kept(n)) /\ Cardinality(Kept(n)) <= Cardinality(DOMAIN table)
        /\ Cardinality(Kept(n)) \in Nat /\ Cardinality(DOMAIN table) \in Nat
    BY <1>3, <2>1, FS_Subset, FS_CardinalityType
  <2> QED BY <2>1, <2>2, RouteAssumption
<1> HIDE DEF gone
<1>7. /\ Kept(n) \subseteq DOMAIN table
      /\ \A k \in DOMAIN table : caller[table[k]].pc # "done" => k \in Kept(n)
      /\ {k \in Kept(n) : caller[table[k]].pc = "done"} = Range(rest)
  BY <1>2, <1>3, <1>4, <1>5
<1>8. \A k \in DOMAIN table : k \in Kept(n) \/ \E i \in 1 .. n : k = listed[i]
  BY DEF Kept
<1> QED BY <1>2, <1>6, <1>7, <1>8

(* A new key becomes an attempt, if recorded ones make room. *)
LEMMA LeadRouteKept ==
  ASSUME RouteInv, NEW c \in Callers, ClaimKey(c), LeadRoute(c)
  PROVE  RouteInv'
<1>1. /\ caller[c].pc = "claim" /\ KeyOf(c) \notin DOMAIN table
      /\ UNCHANGED <<run, hungUp, recorded>>
  BY DEF ClaimKey, LeadRoute
<1>2. /\ caller \in [Callers -> CallerRecord]
      /\ DOMAIN table \subseteq RouteKeys /\ \A k \in DOMAIN table : table[k] \in Callers \ {c}
      /\ listed \in Seq(RouteKeys) /\ run \in {"open", "waiting", "closed", "evicted"}
      /\ hungUp \union recorded \union dropped \subseteq Callers
  BY <1>1 DEF RouteInv, RouteTypeOK, PlacesLed, CallerRecord
<1>3. PICK n, key, kept, rest :
        /\ n \in 0 .. Len(listed) /\ n = Leaving /\ key = KeyOf(c)
        /\ kept = [k \in Kept(n) |-> table[k]]
        /\ rest = SubSeq(listed, n + 1, Len(listed))
  <2>1. PICK len \in Nat : len = Len(listed)
    BY <1>2
  <2> QED BY <2>1, LeavingExists
<1>4. /\ Kept(n) \subseteq DOMAIN table
      /\ \A k \in DOMAIN table : caller[table[k]].pc # "done" => k \in Kept(n)
      /\ \A k \in DOMAIN table : k \in Kept(n) \/ \E i \in 1 .. n : k = listed[i]
      /\ {k \in Kept(n) : caller[table[k]].pc = "done"} = Range(rest)
      /\ rest \in Seq(RouteKeys) /\ IsInjective(rest)
      /\ IsFiniteSet(Kept(n)) /\ Cardinality(Kept(n)) <= MaxAttempts
  BY <1>3, OldestLeave
<1>5. listed' = rest /\ dropped' = dropped \union {table[listed[i]] : i \in 1 .. n}
  BY <1>3 DEF LeadRoute
<1>6. dropped' \subseteq Callers
  <2>1. \A i \in 1 .. n : listed[i] \in DOMAIN table
    <3>1. DOMAIN listed = 1 .. Len(listed) /\ \A i \in 1 .. n : i \in 1 .. Len(listed)
      BY <1>2, <1>3
    <3> QED BY <3>1 DEF RouteInv, PlacesListed, Range
  <2> QED BY <1>2, <1>5, <2>1
<1>7. caller[c].first = c /\ caller[c].outcome = "none" /\ c \notin recorded
  BY <1>1 DEF RouteInv, CallerPhases
<1>8. /\ DOMAIN kept = Kept(n)
      /\ \A k \in Kept(n) : kept[k] = table[k] /\ k # key /\ kept[k] # c
  BY <1>1, <1>2, <1>3, <1>4
<1>9. ASSUME caller' \in [Callers -> CallerRecord],
             \A d \in Callers \ {c} : caller'[d] = caller[d],
             caller'[c].key = key, caller'[c].first = c,
             \/ /\ caller'[c].pc = "done" /\ caller'[c].outcome = "error" /\ table' = kept
             \/ /\ caller'[c].pc = "route" /\ caller'[c].outcome = "none" /\ Room(n)
                /\ table' = [k \in DOMAIN kept \union {key} |-> IF k = key THEN c ELSE kept[k]]
      PROVE  RouteInv'
  <2>1. /\ DOMAIN table' = Kept(n) \/ DOMAIN table' = Kept(n) \union {key}
        /\ \A k \in Kept(n) : k \in DOMAIN table' /\ table'[k] = table[k]
        /\ \A k \in DOMAIN table' : k \in Kept(n) \/ (k = key /\ table'[k] = c /\ caller'[c].pc = "route")
        /\ caller'[c].pc = "route" => key \in DOMAIN table' /\ table'[key] = c
    BY <1>8, <1>9
  <2>2. RouteTypeOK'
    <3>1. DOMAIN table' \subseteq RouteKeys /\ Range(table') \subseteq Callers
      <4>1. key \in RouteKeys
        BY <1>2, <1>3 DEF KeyOf, CallerRecord
      <4>2. \A k \in DOMAIN table' : k \in RouteKeys /\ table'[k] \in Callers
        BY <1>2, <1>4, <2>1, <4>1
      <4> QED BY <4>2 DEF Range
    <3> QED BY <1>1, <1>2, <1>4, <1>5, <1>6, <1>9, <3>1 DEF RouteTypeOK, CallerRecord
  <2>3. CallerPhases'
    BY <1>1, <1>7, <1>9 DEF RouteInv, CallerPhases, Decisions
  <2>4. RoutesJoined'
    <3>1. \A d \in Callers : d # c => caller[d].first # c
      BY <1>1 DEF RouteInv, RoutesJoined
    <3>2. \A d \in Callers : caller[d].first \in Callers
      BY <1>2 DEF CallerRecord
    <3> QED BY <1>1, <1>9, <3>1, <3>2 DEF RouteInv, RoutesJoined, KeyOf
  <2>5. PlacesHeld'
    <3> SUFFICES ASSUME NEW d \in Callers, caller'[d].pc \in {"route", "publish"}
                 PROVE  caller'[d].key \in DOMAIN table' /\ table'[caller'[d].key] = d
      BY DEF PlacesHeld, KeyOf
    <3>1. CASE d = c
      BY <1>9, <2>1, <3>1
    <3>2. CASE d # c
      <4>1. /\ caller'[d] = caller[d] /\ KeyOf(d) \in DOMAIN table /\ table[KeyOf(d)] = d
            /\ caller[d].pc # "done"
        BY <1>9, <3>2 DEF RouteInv, PlacesHeld
      <4> QED BY <1>4, <2>1, <4>1 DEF KeyOf
    <3> QED BY <3>1, <3>2
  <2>6. PlacesLed'
    <3> SUFFICES ASSUME NEW k \in DOMAIN table'
                 PROVE  /\ table'[k] \in Callers /\ caller'[table'[k]].key = k
                        /\ caller'[table'[k]].first = table'[k]
                        /\ \/ caller'[table'[k]].pc \in {"route", "publish"}
                           \/ caller'[table'[k]].pc = "done" /\ table'[k] \in recorded'
      BY DEF PlacesLed, KeyOf
    <3>1. CASE k \in Kept(n)
      <4>1. table'[k] = table[k] /\ k \in DOMAIN table /\ caller'[table[k]] = caller[table[k]]
        BY <1>2, <1>4, <1>9, <2>1, <3>1
      <4> QED BY <1>1, <4>1 DEF RouteInv, PlacesLed, KeyOf
    <3>2. CASE k \notin Kept(n)
      BY <1>9, <2>1, <3>2
    <3> QED BY <3>1, <3>2
  <2>7. RecordedKept'
    <3> SUFFICES ASSUME NEW d \in recorded, d \notin dropped'
                 PROVE  caller'[d].key \in DOMAIN table' /\ table'[caller'[d].key] = d
      BY <1>1 DEF RecordedKept, KeyOf
    <3>1. d \in Callers /\ d # c /\ d \notin dropped
      BY <1>2, <1>5, <1>7
    <3>2. KeyOf(d) \in DOMAIN table /\ table[KeyOf(d)] = d /\ caller'[d] = caller[d]
      BY <1>9, <3>1 DEF RouteInv, RecordedKept
    <3>3. KeyOf(d) \in Kept(n)
      BY <1>4, <1>5, <3>2
    <3> QED BY <2>1, <3>2, <3>3 DEF KeyOf
  <2>8. PlacesListed'
    <3>1. \A k \in Kept(n) : caller'[table'[k]] = caller[table[k]]
      BY <1>2, <1>4, <1>9, <2>1
    <3>2. {k \in DOMAIN table' : caller'[table'[k]].pc = "done"} = Range(rest)
      BY <1>4, <2>1, <3>1
    <3> QED BY <1>4, <1>5, <3>2 DEF PlacesListed
  <2>9. PlacesBounded'
    <3>1. CASE DOMAIN table' = Kept(n)
      BY <1>4, <3>1 DEF PlacesBounded
    <3>2. CASE DOMAIN table' # Kept(n)
      <4>1. DOMAIN table' = Kept(n) \union {key} /\ Room(n) /\ key \notin Kept(n)
        BY <1>8, <1>9, <2>1, <3>2
      <4>2. /\ IsFiniteSet(Kept(n) \union {key})
            /\ Cardinality(Kept(n) \union {key}) = Cardinality(Kept(n)) + 1
        BY <1>4, <4>1, FS_AddElement
      <4>3. Cardinality(Kept(n)) < MaxAttempts /\ Cardinality(Kept(n)) \in Nat
        BY <1>4, <4>1, FS_CardinalityType DEF Room
      <4>4. Cardinality(Kept(n)) + 1 <= MaxAttempts
        BY <4>3, RouteAssumption
      <4> QED BY <4>1, <4>2, <4>4 DEF PlacesBounded
    <3> QED BY <3>1, <3>2
  <2> QED BY <2>2, <2>3, <2>4, <2>5, <2>6, <2>7, <2>8, <2>9 DEF RouteInv
<1>10. CASE Room(n)
  <2>1. /\ table' = [k \in DOMAIN kept \union {key} |-> IF k = key THEN c ELSE kept[k]]
        /\ caller' = [caller EXCEPT ![c].pc = "route", ![c].first = c]
    BY <1>3, <1>10, Zenon DEF LeadRoute
  <2>2. caller \in [Callers -> CallerRecord] /\ caller[c] \in CallerRecord
    BY <1>2
  <2>3. caller' \in [Callers -> CallerRecord]
    BY <2>1, <2>2 DEF CallerRecord
  <2>4. /\ \A d \in Callers \ {c} : caller'[d] = caller[d]
        /\ caller'[c] = [caller[c] EXCEPT !.pc = "route", !.first = c]
    BY <2>1, <2>2 DEF CallerRecord
  <2>5. /\ caller'[c].key = key /\ caller'[c].first = c
        /\ caller'[c].pc = "route" /\ caller'[c].outcome = "none"
    BY <1>3, <1>7, <2>2, <2>4 DEF KeyOf, CallerRecord
  <2> QED BY <1>9, <1>10, <2>1, <2>3, <2>4, <2>5
<1>11. CASE ~Room(n)
  <2>1. /\ table' = kept
        /\ caller' = [caller EXCEPT ![c].pc = "done", ![c].outcome = "error"]
    BY <1>3, <1>11, Zenon DEF LeadRoute, Reply
  <2>2. caller \in [Callers -> CallerRecord] /\ caller[c] \in CallerRecord
    BY <1>2
  <2>3. caller' \in [Callers -> CallerRecord]
    BY <2>1, <2>2 DEF CallerRecord
  <2>4. /\ \A d \in Callers \ {c} : caller'[d] = caller[d]
        /\ caller'[c] = [caller[c] EXCEPT !.pc = "done", !.outcome = "error"]
    BY <2>1, <2>2 DEF CallerRecord
  <2>5. /\ caller'[c].key = key /\ caller'[c].first = c
        /\ caller'[c].pc = "done" /\ caller'[c].outcome = "error"
    BY <1>3, <1>7, <2>2, <2>4 DEF KeyOf, CallerRecord
  <2> QED BY <1>9, <2>1, <2>3, <2>4, <2>5
<1> QED BY <1>10, <1>11

LEMMA RouteCallKept == ASSUME RouteInv, NEW c \in Callers, RouteCall(c) PROVE RouteInv'
<1>1. /\ caller[c].pc = "route" /\ UNCHANGED <<table, listed, hungUp, dropped>>
      /\ caller \in [Callers -> CallerRecord]
  BY DEF RouteCall, RouteInv, RouteTypeOK, CallerRecord
<1>2. PICK outcome \in Decisions \union {"error"} :
        /\ caller' = [caller EXCEPT ![c].pc = "publish", ![c].outcome = outcome]
        /\ run' \in {"open", "waiting", "closed", "evicted"}
        /\ IF outcome = "error" THEN recorded' = recorded ELSE recorded' = recorded \union {c}
  <2>1. PICK decision \in Decisions :
          IF Recordable(decision)
          THEN /\ run' = CASE decision = "denied" -> "closed"
                           [] decision = "approval_required" -> "waiting"
                           [] decision = "allowed" -> "open"
               /\ recorded' = recorded \union {c}
               /\ caller' = [caller EXCEPT ![c].pc = "publish", ![c].outcome = decision]
          ELSE /\ caller' = [caller EXCEPT ![c].pc = "publish", ![c].outcome = "error"]
               /\ UNCHANGED <<run, recorded>>
    BY DEF RouteCall
  <2>2. CASE Recordable(decision)
    <3>1. run' \in {"open", "waiting", "closed"} /\ decision # "error"
      BY <2>1, <2>2 DEF Decisions
    <3> QED BY <2>1, <2>2, <3>1
  <2>3. CASE ~Recordable(decision)
    <3>1. run \in {"open", "waiting", "closed", "evicted"}
      BY DEF RouteInv, RouteTypeOK
    <3> QED BY <2>1, <2>3, <3>1
  <2> QED BY <2>2, <2>3
<1>3. caller' \in [Callers -> CallerRecord]
  BY ZenonT(60), <1>1, <1>2 DEF CallerRecord
<1>4. /\ \A d \in Callers \ {c} : caller'[d] = caller[d]
      /\ caller'[c] = [caller[c] EXCEPT !.pc = "publish", !.outcome = outcome]
      /\ caller[c] \in CallerRecord
  BY <1>1, <1>2 DEF CallerRecord
<1>5. /\ caller'[c].pc = "publish" /\ caller'[c].outcome = outcome
      /\ caller'[c].first = caller[c].first /\ caller'[c].key = caller[c].key
      /\ caller'[c].route = caller[c].route
  BY <1>4 DEF CallerRecord
<1>6. caller[c].first = c /\ c \notin recorded /\ "error" \notin Decisions /\ outcome # "none"
  BY <1>1 DEF RouteInv, CallerPhases, Decisions
<1>7. KeyOf(c) \in DOMAIN table /\ table[KeyOf(c)] = c
  BY <1>1 DEF RouteInv, PlacesHeld
<1>8. /\ recorded \subseteq recorded' /\ recorded' \subseteq recorded \union {c}
      /\ c \in recorded' <=> outcome \in Decisions
  BY <1>2, <1>6
<1>9. RouteTypeOK'
  BY <1>1, <1>2, <1>3, <1>8 DEF RouteInv, RouteTypeOK, CallerRecord
<1>10. CallerPhases'
  <2> SUFFICES ASSUME NEW d \in Callers
               PROVE  LET m == caller'[d] IN
                 /\ m.pc \in {"start", "claim", "route", "wait"} => m.outcome = "none" /\ d \notin recorded'
                 /\ m.pc \in {"publish", "done"} => m.outcome # "none"
                 /\ m.pc \in {"start", "claim", "route", "publish"} => m.first = d
                 /\ d \in recorded' => m.first = d /\ m.outcome \in Decisions
                 /\ m.first = d /\ m.outcome \in Decisions => d \in recorded'
    BY DEF CallerPhases
  <2>1. CASE d = c
    BY <1>5, <1>6, <1>8, <2>1
  <2>2. CASE d # c
    BY <1>4, <1>8, <2>2 DEF RouteInv, CallerPhases
  <2> QED BY <2>1, <2>2
<1>11. RoutesJoined'
  <2> SUFFICES ASSUME NEW d \in Callers, caller'[d].first # d
               PROVE  LET first == caller'[d].first IN
                 /\ caller'[d].pc \in {"wait", "done"}
                 /\ caller'[first].pc \in {"route", "publish", "done"} /\ caller'[first].first = first
                 /\ caller'[first].key = caller'[d].key /\ caller'[first].route = caller'[d].route
                 /\ caller'[d].outcome \in Decisions =>
                      first \in recorded' /\ caller'[first].outcome = caller'[d].outcome
    BY DEF RoutesJoined, KeyOf
  <2> DEFINE first == caller[d].first
  <2>1. \A b \in Callers : b # c /\ caller[b].first = c => caller[b].outcome \notin Decisions
    BY <1>6 DEF RouteInv, RoutesJoined
  <2>2. \A b \in Callers : caller[b].first \in Callers
    BY <1>1 DEF CallerRecord
  <2>3. d # c /\ caller'[d] = caller[d] /\ first # d /\ first \in Callers
    BY <1>4, <1>5, <1>6, <2>2
  <2>4. /\ caller[d].pc \in {"wait", "done"}
        /\ caller[first].pc \in {"route", "publish", "done"} /\ caller[first].first = first
        /\ caller[first].key = caller[d].key /\ caller[first].route = caller[d].route
        /\ caller[d].outcome \in Decisions => first \in recorded /\ caller[first].outcome = caller[d].outcome
    BY <2>3 DEF RouteInv, RoutesJoined, KeyOf
  <2>5. CASE first = c
    BY <1>5, <2>1, <2>3, <2>4, <2>5
  <2>6. CASE first # c
    <3>1. caller'[first] = caller[first]
      BY <1>4, <2>3, <2>6
    <3> QED BY <1>8, <2>3, <2>4, <3>1
  <2> QED BY <2>5, <2>6
<1>12. PlacesHeld'
  BY ZenonT(60), <1>1, <1>4, <1>5, <1>7 DEF RouteInv, PlacesHeld, KeyOf
<1>13. PlacesLed'
  <2> SUFFICES ASSUME NEW k \in DOMAIN table
               PROVE  /\ table[k] \in Callers /\ caller'[table[k]].key = k
                      /\ caller'[table[k]].first = table[k]
                      /\ \/ caller'[table[k]].pc \in {"route", "publish"}
                         \/ caller'[table[k]].pc = "done" /\ table[k] \in recorded'
    BY <1>1 DEF PlacesLed, KeyOf
  <2>1. CASE table[k] = c
    BY <1>5, <2>1 DEF RouteInv, PlacesLed, KeyOf
  <2>2. CASE table[k] # c
    BY <1>4, <1>8, <2>2 DEF RouteInv, PlacesLed, KeyOf
  <2> QED BY <2>1, <2>2
<1>14. RecordedKept'
  <2>1. recorded \subseteq Callers
    BY DEF RouteInv, RouteTypeOK
  <2> QED BY <1>1, <1>4, <1>5, <1>7, <1>8, <2>1 DEF RouteInv, RecordedKept, KeyOf
<1>15. PlacesListed'
  <2>1. \A k \in DOMAIN table : caller'[table[k]].pc = "done" <=> caller[table[k]].pc = "done"
    BY <1>1, <1>4, <1>5 DEF RouteInv, PlacesLed
  <2> QED BY <1>1, <2>1 DEF RouteInv, PlacesListed
<1>16. PlacesBounded'
  BY <1>1 DEF RouteInv, PlacesBounded
<1> QED BY <1>9, <1>10, <1>11, <1>12, <1>13, <1>14, <1>15, <1>16 DEF RouteInv

(* A recorded attempt is listed; one that failed gives up its place. *)
LEMMA PublishRouteKept == ASSUME RouteInv, NEW c \in Callers, PublishRoute(c) PROVE RouteInv'
<1>1. /\ caller[c].pc = "publish" /\ UNCHANGED <<run, hungUp, recorded, dropped>>
      /\ caller' = [caller EXCEPT ![c].pc = "done", ![c].outcome = caller[c].outcome]
  BY DEF PublishRoute, Reply
<1>2. /\ caller \in [Callers -> CallerRecord] /\ listed \in Seq(RouteKeys)
      /\ DOMAIN table \subseteq RouteKeys /\ \A k \in DOMAIN table : table[k] \in Callers
  BY DEF RouteInv, RouteTypeOK, PlacesLed, CallerRecord
<1>3. caller' \in [Callers -> CallerRecord]
  BY ZenonT(60), <1>1, <1>2 DEF CallerRecord
<1>4. /\ \A d \in Callers \ {c} : caller'[d] = caller[d]
      /\ caller'[c] = [caller[c] EXCEPT !.pc = "done", !.outcome = caller[c].outcome]
      /\ caller[c] \in CallerRecord
  BY <1>1, <1>2 DEF CallerRecord
<1>5. /\ caller'[c].pc = "done" /\ caller'[c].outcome = caller[c].outcome
      /\ caller'[c].first = caller[c].first /\ caller'[c].key = caller[c].key
      /\ caller'[c].route = caller[c].route
  BY <1>4 DEF CallerRecord
<1>6. caller[c].first = c /\ caller[c].outcome # "none" /\ (c \in recorded <=> caller[c].outcome \in Decisions)
  BY <1>1 DEF RouteInv, CallerPhases
<1>7. PICK key \in RouteKeys :
        /\ key = KeyOf(c) /\ key \in DOMAIN table /\ table[key] = c
        /\ \A k \in DOMAIN table : k # key => table[k] # c
  <2>1. KeyOf(c) \in DOMAIN table /\ table[KeyOf(c)] = c
    BY <1>1 DEF RouteInv, PlacesHeld
  <2>2. \A k \in DOMAIN table : KeyOf(table[k]) = k
    BY DEF RouteInv, PlacesLed
  <2> QED BY <1>2, <2>1, <2>2
<1>8. CallerPhases'
  <2> SUFFICES ASSUME NEW d \in Callers
               PROVE  LET m == caller'[d] IN
                 /\ m.pc \in {"start", "claim", "route", "wait"} => m.outcome = "none" /\ d \notin recorded'
                 /\ m.pc \in {"publish", "done"} => m.outcome # "none"
                 /\ m.pc \in {"start", "claim", "route", "publish"} => m.first = d
                 /\ d \in recorded' => m.first = d /\ m.outcome \in Decisions
                 /\ m.first = d /\ m.outcome \in Decisions => d \in recorded'
    BY DEF CallerPhases
  <2>1. CASE d = c
    BY <1>1, <1>5, <1>6, <2>1
  <2>2. CASE d # c
    BY <1>1, <1>4, <2>2 DEF RouteInv, CallerPhases
  <2> QED BY <2>1, <2>2
<1>9. RoutesJoined'
  <2> SUFFICES ASSUME NEW d \in Callers, caller'[d].first # d
               PROVE  LET first == caller'[d].first IN
                 /\ caller'[d].pc \in {"wait", "done"}
                 /\ caller'[first].pc \in {"route", "publish", "done"} /\ caller'[first].first = first
                 /\ caller'[first].key = caller'[d].key /\ caller'[first].route = caller'[d].route
                 /\ caller'[d].outcome \in Decisions =>
                      first \in recorded' /\ caller'[first].outcome = caller'[d].outcome
    BY DEF RoutesJoined, KeyOf
  <2> DEFINE first == caller[d].first
  <2>1. \A b \in Callers : caller[b].first \in Callers
    BY <1>2 DEF CallerRecord
  <2>3. d # c /\ caller'[d] = caller[d] /\ first # d /\ first \in Callers
    BY <1>4, <1>5, <1>6, <2>1
  <2>4. /\ caller[d].pc \in {"wait", "done"}
        /\ caller[first].pc \in {"route", "publish", "done"} /\ caller[first].first = first
        /\ caller[first].key = caller[d].key /\ caller[first].route = caller[d].route
        /\ caller[d].outcome \in Decisions => first \in recorded /\ caller[first].outcome = caller[d].outcome
    BY <2>3 DEF RouteInv, RoutesJoined, KeyOf
  <2>5. CASE first = c
    <3>1. caller'[c].pc = "done" /\ caller'[c].first = c
      BY <1>5, <1>6
    <3>2. caller'[c].key = caller[d].key /\ caller'[c].route = caller[d].route
      BY <1>5, <2>4, <2>5
    <3>3. caller[d].outcome \in Decisions => c \in recorded' /\ caller'[c].outcome = caller[d].outcome
      BY <1>1, <1>5, <2>4, <2>5
    <3> QED BY <2>3, <2>4, <2>5, <3>1, <3>2, <3>3
  <2>6. CASE first # c
    <3>1. caller'[first] = caller[first]
      BY <1>4, <2>3, <2>6
    <3> QED BY <1>1, <2>3, <2>4, <3>1
  <2> QED BY <2>5, <2>6
<1>10. {k \in DOMAIN table : caller[table[k]].pc = "done"} = Range(listed) /\ IsInjective(listed)
  BY DEF RouteInv, PlacesListed
<1>11. key \notin Range(listed)
  BY <1>1, <1>7, <1>10
<1>12. \A d \in Callers : d # c /\ caller[d].pc \in {"route", "publish"} =>
         KeyOf(d) \in DOMAIN table /\ table[KeyOf(d)] = d /\ KeyOf(d) # key
  BY <1>7 DEF RouteInv, PlacesHeld
<1>13. \A d \in recorded \ dropped : KeyOf(d) \in DOMAIN table /\ table[KeyOf(d)] = d
  BY DEF RouteInv, RecordedKept
<1>14. CASE caller[c].outcome = "error"
  <2>1. /\ DOMAIN table' = DOMAIN table \ {key}
        /\ \A k \in DOMAIN table \ {key} : table'[k] = table[k]
        /\ listed' = listed
    BY <1>1, <1>7, <1>14 DEF PublishRoute
  <2>2. RouteTypeOK'
    <3>1. Range(table') \subseteq Callers
      BY <1>2, <2>1 DEF Range
    <3> QED BY <1>1, <1>2, <1>3, <2>1, <3>1 DEF RouteInv, RouteTypeOK, CallerRecord
  <2>3. PlacesHeld'
    <3>1. \A d \in Callers : caller'[d].pc \in {"route", "publish"} => d # c
      BY <1>5
    <3> QED BY <1>4, <1>12, <2>1, <3>1 DEF PlacesHeld, KeyOf
  <2>4. \A k \in DOMAIN table' : k \in DOMAIN table /\ table'[k] = table[k]
                                /\ caller'[table[k]] = caller[table[k]]
    BY <1>2, <1>4, <1>7, <2>1
  <2>5. PlacesLed'
    <3> SUFFICES ASSUME NEW k \in DOMAIN table'
                 PROVE  /\ table'[k] \in Callers /\ caller'[table'[k]].key = k
                        /\ caller'[table'[k]].first = table'[k]
                        /\ \/ caller'[table'[k]].pc \in {"route", "publish"}
                           \/ caller'[table'[k]].pc = "done" /\ table'[k] \in recorded'
      BY DEF PlacesLed, KeyOf
    <3>1. k \in DOMAIN table /\ table'[k] = table[k] /\ caller'[table[k]] = caller[table[k]]
      BY <2>4
    <3>2. /\ table[k] \in Callers /\ caller[table[k]].key = k /\ caller[table[k]].first = table[k]
          /\ \/ caller[table[k]].pc \in {"route", "publish"}
             \/ caller[table[k]].pc = "done" /\ table[k] \in recorded
      BY <3>1 DEF RouteInv, PlacesLed, KeyOf
    <3>3. recorded' = recorded
      BY <1>1
    <3> QED BY <3>1, <3>2, <3>3
  <2>6. RecordedKept'
    <3>1. c \notin recorded
      BY <1>6, <1>14 DEF Decisions
    <3>2. recorded \subseteq Callers
      BY DEF RouteInv, RouteTypeOK
    <3>3. \A d \in recorded \ dropped : d # c /\ caller'[d] = caller[d]
      BY <1>4, <3>1, <3>2
    <3>4. \A d \in recorded \ dropped : KeyOf(d) # key
      BY <1>7, <1>13, <3>3
    <3> SUFFICES ASSUME NEW d \in recorded \ dropped
                 PROVE  caller'[d].key \in DOMAIN table' /\ table'[caller'[d].key] = d
      BY <1>1 DEF RecordedKept, KeyOf
    <3> QED BY <1>13, <2>1, <3>3, <3>4 DEF KeyOf
  <2>7. PlacesListed'
    <3>1. {k \in DOMAIN table' : caller'[table'[k]].pc = "done"} = Range(listed)
      BY <1>10, <1>11, <2>1, <2>4
    <3> QED BY <1>10, <2>1, <3>1 DEF PlacesListed
  <2>8. PlacesBounded'
    <3>1. IsFiniteSet(DOMAIN table) /\ Cardinality(DOMAIN table) <= MaxAttempts
      BY DEF RouteInv, PlacesBounded
    <3>2. DOMAIN table' \subseteq DOMAIN table
      BY <2>1
    <3>3. /\ IsFiniteSet(DOMAIN table') /\ Cardinality(DOMAIN table') <= Cardinality(DOMAIN table)
          /\ Cardinality(DOMAIN table') \in Nat /\ Cardinality(DOMAIN table) \in Nat
      BY <3>1, <3>2, FS_Subset, FS_CardinalityType
    <3> QED BY <3>1, <3>3, RouteAssumption DEF PlacesBounded
  <2> QED BY <1>8, <1>9, <2>2, <2>3, <2>5, <2>6, <2>7, <2>8 DEF RouteInv
<1>15. CASE caller[c].outcome # "error"
  <2>1. table' = table /\ listed' = Append(listed, key)
    BY <1>7, <1>15 DEF PublishRoute
  <2>2. /\ listed' \in Seq(RouteKeys) /\ IsInjective(listed')
        /\ Range(listed') = Range(listed) \union {key}
    BY <1>2, <1>7, <1>10, <1>11, <2>1, OneMoreListed
  <2>3. c \in recorded
    BY <1>2, <1>6, <1>15 DEF CallerRecord
  <2>4. RouteTypeOK'
    BY <1>1, <1>3, <2>1, <2>2 DEF RouteInv, RouteTypeOK, CallerRecord
  <2>5. PlacesHeld'
    <3>1. \A d \in Callers : caller'[d].pc \in {"route", "publish"} => d # c
      BY <1>5
    <3> QED BY <1>4, <1>12, <2>1, <3>1 DEF PlacesHeld, KeyOf
  <2>6. PlacesLed'
    <3> SUFFICES ASSUME NEW k \in DOMAIN table
                 PROVE  /\ table[k] \in Callers /\ caller'[table[k]].key = k
                        /\ caller'[table[k]].first = table[k]
                        /\ \/ caller'[table[k]].pc \in {"route", "publish"}
                           \/ caller'[table[k]].pc = "done" /\ table[k] \in recorded'
      BY <2>1 DEF PlacesLed, KeyOf
    <3>1. CASE k = key
      BY <1>1, <1>2, <1>5, <1>6, <1>7, <2>3, <3>1 DEF KeyOf
    <3>2. CASE k # key
      <4>1. caller'[table[k]] = caller[table[k]]
        BY <1>2, <1>4, <1>7, <3>2
      <4> QED BY <1>1, <4>1 DEF RouteInv, PlacesLed, KeyOf
    <3> QED BY <3>1, <3>2
  <2>7. RecordedKept'
    <3>1. \A d \in recorded : caller'[d].key = caller[d].key
      <4>1. recorded \subseteq Callers
        BY DEF RouteInv, RouteTypeOK
      <4> QED BY <1>4, <1>5, <4>1
    <3> QED BY <1>1, <1>13, <2>1, <3>1 DEF RecordedKept, KeyOf
  <2>8. PlacesListed'
    <3>1. \A k \in DOMAIN table : k # key => caller'[table[k]] = caller[table[k]]
      BY <1>2, <1>4, <1>7
    <3>2. {k \in DOMAIN table : caller'[table[k]].pc = "done"} = Range(listed')
      BY <1>5, <1>7, <1>10, <2>2, <3>1
    <3> QED BY <2>1, <2>2, <3>2 DEF PlacesListed
  <2>9. PlacesBounded'
    BY <2>1 DEF RouteInv, PlacesBounded
  <2> QED BY <1>8, <1>9, <2>4, <2>5, <2>6, <2>7, <2>8, <2>9 DEF RouteInv
<1> QED BY <1>14, <1>15

(* What hangs up or happens to the run is not in the table. *)
LEMMA AroundKept ==
  ASSUME RouteInv, UNCHANGED <<table, listed, caller, recorded, dropped>>,
         run' \in {"open", "waiting", "closed", "evicted"}, hungUp' \subseteq Callers
  PROVE  RouteInv'
BY DEF RouteInv, RouteTypeOK, CallerPhases, RoutesJoined, PlacesHeld, PlacesLed, RecordedKept,
       PlacesListed, PlacesBounded, KeyOf

LEMMA RouteInvStep == RouteInv /\ [RouteNext]_routeVars => RouteInv'
<1> SUFFICES ASSUME RouteInv, [RouteNext]_routeVars PROVE RouteInv'
  OBVIOUS
<1>1. run \in {"open", "waiting", "closed", "evicted"} /\ hungUp \subseteq Callers
  BY DEF RouteInv, RouteTypeOK
<1>2. ASSUME NEW c \in Callers, HangUp(c) PROVE RouteInv'
  BY <1>1, <1>2, AroundKept DEF HangUp
<1>3. CASE RunChanges
  BY <1>1, <1>3, AroundKept DEF RunChanges
<1>4. CASE UNCHANGED routeVars
  BY <1>1, <1>4, AroundKept DEF routeVars
<1>5. ASSUME NEW c \in Callers, ClaimKey(c) PROVE RouteInv'
  BY <1>5, JoinRouteKept, LeadRouteKept DEF ClaimKey
<1> QED BY <1>2, <1>3, <1>4, <1>5, ReadRequestKept, RouteCallKept, PublishRouteKept, ReplayRouteKept
        DEF RouteNext

(* A key is recorded again only after its attempt was evicted; who is      *)
(* answered by another's attempt asked for the same and gets what is in    *)
(* the run's log; no attempt in flight is evicted, and the table neither   *)
(* leaks nor outgrows its limit.                                           *)
THEOREM AttemptsKept == RouteInit /\ [][RouteNext]_routeVars => []RecordedOncePerKey
<1>1. RouteInv => RecordedOncePerKey
  <2> SUFFICES ASSUME RouteInv PROVE RecordedOncePerKey
    OBVIOUS
  <2>1. \A c, d \in recorded \ dropped : KeyOf(c) = KeyOf(d) => c = d
    BY DEF RouteInv, RecordedKept
  <2> QED BY <2>1 DEF RouteInv, RoutesJoined, PlacesHeld, PlacesListed, PlacesBounded, RecordedOncePerKey
<1> QED BY <1>1, RouteInvInit, RouteInvStep, PTL

-----------------------------------------------------------------------------
(* Whoever waits for an attempt waits for another's, which is being        *)
(* decided or has been.                                                    *)
RouteWaitersHaveFirst == \A c \in Callers : LET first == caller[c].first IN
  caller[c].pc = "wait" => first # c /\ caller[first].pc \in {"route", "publish", "done"}

WaitsForAnother == \A c \in Callers : caller[c].pc = "wait" => caller[c].first # c

LEMMA JoinsAnother ==
  ASSUME RouteInv, NEW c \in Callers, ClaimKey(c), caller'[c].pc = "wait"
  PROVE  caller'[c].first # c
<1>1. caller \in [Callers -> CallerRecord] /\ caller[c] \in CallerRecord /\ caller[c].pc = "claim"
  BY DEF RouteInv, RouteTypeOK, CallerRecord, ClaimKey
<1>2. CASE JoinRoute(c)
  <2>1. PICK first : first = table[KeyOf(c)]
    OBVIOUS
  <2>2. first # c
    BY <1>1, <1>2, <2>1 DEF JoinRoute, RouteInv, PlacesLed
  <2>3. \/ caller' = [caller EXCEPT ![c].pc = "done", ![c].outcome = "error"]
        \/ caller' = [caller EXCEPT ![c].pc = "wait", ![c].first = first]
    BY <1>2, <2>1 DEF JoinRoute, Reply
  <2>4. \/ caller'[c] = [caller[c] EXCEPT !.pc = "done", !.outcome = "error"]
        \/ caller'[c] = [caller[c] EXCEPT !.pc = "wait", !.first = first]
    BY <1>1, <2>3
  <2>5. [caller[c] EXCEPT !.pc = "done", !.outcome = "error"].pc = "done"
    BY <1>1 DEF CallerRecord
  <2>6. [caller[c] EXCEPT !.pc = "wait", !.first = first].first = first
    BY <1>1 DEF CallerRecord
  <2> QED BY <2>2, <2>4, <2>5, <2>6
<1>3. CASE LeadRoute(c)
  <2>1. \/ caller' = [caller EXCEPT ![c].pc = "done", ![c].outcome = "error"]
        \/ caller' = [caller EXCEPT ![c].pc = "route", ![c].first = c]
    BY <1>3 DEF LeadRoute, Reply
  <2>2. \/ caller'[c] = [caller[c] EXCEPT !.pc = "done", !.outcome = "error"]
        \/ caller'[c] = [caller[c] EXCEPT !.pc = "route", !.first = c]
    BY <1>1, <2>1
  <2>3. /\ [caller[c] EXCEPT !.pc = "done", !.outcome = "error"].pc = "done"
        /\ [caller[c] EXCEPT !.pc = "route", !.first = c].pc = "route"
    BY <1>1 DEF CallerRecord
  <2> QED BY <2>2, <2>3
<1> QED BY <1>2, <1>3 DEF ClaimKey

(* The other steps of a caller do not make it wait. *)
LEMMA OnlyClaimsWait ==
  ASSUME RouteInv, NEW c \in Callers, ReadRequest(c) \/ RouteCall(c) \/ PublishRoute(c) \/ ReplayRoute(c)
  PROVE  caller'[c].pc # "wait"
<1>1. caller \in [Callers -> CallerRecord] /\ caller[c] \in CallerRecord
  BY DEF RouteInv, RouteTypeOK, CallerRecord
<1>2. CASE ReadRequest(c)
  <2>1. PICK key \in RouteKeys, route \in Routes :
          caller' = [caller EXCEPT ![c].pc = "claim", ![c].key = key, ![c].route = route]
    BY <1>2 DEF ReadRequest
  <2>2. caller'[c].pc = "claim"
    BY <1>1, <2>1 DEF CallerRecord
  <2> QED BY <2>2
<1>3. CASE RouteCall(c)
  <2>1. PICK decision \in Decisions :
          \/ caller' = [caller EXCEPT ![c] = [caller[c] EXCEPT !.pc = "publish", !.outcome = decision]]
          \/ caller' = [caller EXCEPT ![c] = [caller[c] EXCEPT !.pc = "publish", !.outcome = "error"]]
    BY <1>3 DEF RouteCall
  <2>2. PICK outcome \in {decision, "error"} :
          caller'[c] = [caller[c] EXCEPT !.pc = "publish", !.outcome = outcome]
    BY <1>1, <2>1
  <2> QED BY <1>1, <2>2 DEF CallerRecord
<1>4. CASE PublishRoute(c) \/ ReplayRoute(c)
  <2>1. PICK outcome :
          caller' = [caller EXCEPT ![c] = [caller[c] EXCEPT !.pc = "done", !.outcome = outcome]]
    BY <1>4 DEF PublishRoute, ReplayRoute, Reply
  <2>2. caller'[c] = [caller[c] EXCEPT !.pc = "done", !.outcome = outcome]
    BY <1>1, <2>1
  <2> QED BY <1>1, <2>2 DEF CallerRecord
<1> QED BY <1>2, <1>3, <1>4

(* A caller's step is its own. *)
LEMMA OthersStand ==
  ASSUME RouteInv, NEW c \in Callers, NEW d \in Callers, d # c,
         ReadRequest(c) \/ ClaimKey(c) \/ RouteCall(c) \/ PublishRoute(c) \/ ReplayRoute(c)
  PROVE  caller'[d] = caller[d]
<1>1. caller \in [Callers -> CallerRecord]
  BY DEF RouteInv, RouteTypeOK, CallerRecord
<1>2. \E m : caller' = [caller EXCEPT ![c] = m]
  BY DEF ReadRequest, ClaimKey, JoinRoute, LeadRoute, RouteCall, PublishRoute, ReplayRoute, Reply
<1> QED BY <1>1, <1>2

(* No retry waits for itself, nor for an attempt that has been given up:   *)
(* the attempt it joined is under way or has its result, however often its *)
(* key's place in the table was taken again.                               *)
THEOREM RetriesHaveFirst == RouteInit /\ [][RouteNext]_routeVars => []RouteWaitersHaveFirst
<1>1. RouteInit => WaitsForAnother
  BY DEF RouteInit, WaitsForAnother
<1>2. RouteInv /\ WaitsForAnother /\ [RouteNext]_routeVars => WaitsForAnother'
  <2> SUFFICES ASSUME RouteInv, WaitsForAnother, [RouteNext]_routeVars,
                      NEW d \in Callers, caller'[d].pc = "wait"
               PROVE  caller'[d].first # d
    BY DEF WaitsForAnother
  <2>1. CASE caller' = caller
    BY <2>1 DEF WaitsForAnother
  <2>2. ASSUME NEW c \in Callers,
               ReadRequest(c) \/ ClaimKey(c) \/ RouteCall(c) \/ PublishRoute(c) \/ ReplayRoute(c)
        PROVE  caller'[d].first # d
    <3>1. CASE d # c
      BY <2>2, <3>1, OthersStand DEF WaitsForAnother
    <3>2. CASE d = c
      BY <2>2, <3>2, OnlyClaimsWait, JoinsAnother
    <3> QED BY <3>1, <3>2
  <2>3. ASSUME NEW c \in Callers, HangUp(c) PROVE caller' = caller
    BY <2>3 DEF HangUp
  <2>4. RunChanges \/ UNCHANGED routeVars => caller' = caller
    BY DEF RunChanges, routeVars
  <2> QED BY <2>1, <2>2, <2>3, <2>4 DEF RouteNext
<1>3. RouteInv /\ WaitsForAnother => RouteWaitersHaveFirst
  BY DEF RouteInv, RoutesJoined, WaitsForAnother, RouteWaitersHaveFirst
<1> QED BY <1>1, <1>2, <1>3, RouteInvInit, RouteInvStep, PTL
=============================================================================
