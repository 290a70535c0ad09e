--------------------------- MODULE DecisionProofs ---------------------------
(***************************************************************************)
(* Proofs about what is decided: of a tool call, for any number of rules   *)
(* and any risks, that it follows from the inventory row, however the      *)
(* policy came about; of an apply, for any changes and policy files, that  *)
(* it is held up when it should be; of a resource, that the rule sets      *)
(* agree and the fixes fix.                                                *)
(***************************************************************************)
EXTENDS MCToolDecision, ApplyReview, ResourceRules, FiniteSetTheorems, WellFoundedInduction, TLAPS

(* The request has one of the modes, and Airlock answers with at most one  *)
(* row.  Nothing needs to be known of the policy.                          *)
AtMostOneRow == tools = {} \/ \E row \in Row : tools = {row}
CallInv == request.mode \in Modes /\ AtMostOneRow

(* Past the policy only the verdict on the row decides.                    *)
Judged(row) ==
  \E rule : /\ rule.effect # "deny"
            /\ decision = EvaluateMatched(rule, request, EntryOf(row).verdict)

(* Whatever the policy is, a call that is not denied was judged by its row. *)
LEMMA JudgedByRow ==
  ASSUME CallInv, decision.status # "denied"
  PROVE  /\ ModeAllowsRisk(request.mode, request.risk)
         /\ policies # {}
         /\ \E row \in Row : tools = {row} /\ Judged(row)
<1> DEFINE entries == {EntryOf(row) : row \in tools}
           policy  == CHOOSE p \in policies : TRUE
           rule    == FirstMatch(policy, request)
           entry   == CHOOSE e \in entries : TRUE
<1>1. \A reason : Denied(reason).status = "denied"
  BY DEF Denied
<1>2. ModeAllowsRisk(request.mode, request.risk) /\ policies # {} /\ entries # {} /\ rule.effect # "deny"
      /\ decision = EvaluateMatched(rule, request, entry.verdict)
  <2> HIDE DEF rule, entry, policy, entries
  <2>1. decision = Authorize(request, policies, entries)
    BY DEF decision, entries
  <2> QED BY <1>1, <2>1 DEF Authorize, rule, entry, policy
<1>3. PICK row \in Row : tools = {row}
  BY <1>2 DEF CallInv, AtMostOneRow
<1>4. entries = {EntryOf(row)}
  BY <1>3
<1>5. entry = EntryOf(row)
  BY <1>4
<1> QED BY <1>2, <1>3, <1>5 DEF Judged

(* What a judgement says of the row it was passed on.                      *)
LEMMA RowReviewed ==
  ASSUME NEW row, NEW rule, rule.effect # "deny",
         NEW verdict, verdict = EvaluateMatched(rule, request, EntryOf(row).verdict),
         verdict.status # "denied"
  PROVE  /\ request.risk = row.risk
         /\ row.allowlisted \/ (row.risk = "read_only" /\ row.schema \notin {"new", "changed", "unknown"})
         /\ verdict.status = "allowed" => /\ verdict = Allowed
                                          /\ row.risk = "read_only" /\ row.schema \notin {"new", "changed", "unknown"}
         /\ verdict.status = "allowed" \/ verdict = ApprovalRequired
  BY DEF EvaluateMatched, EntryOf, DecideTool, SchemaReviewRequired, Denied, Allowed, ApprovalRequired

-----------------------------------------------------------------------------
LEMMA CallInvariant == CallSpec => []CallInv
<1>1. CallInit => CallInv
  BY DEF CallInit, CallInv, AtMostOneRow
<1>2. CallInv /\ [CallNext]_checkVars => CallInv'
  <2> SUFFICES ASSUME CallInv, [CallNext]_checkVars PROVE CallInv'
    OBVIOUS
  <2>1. request' = request
    BY DEF CallNext, AppendRule, LosePolicy, LoseTool, SchemaChanges, RiskChanges, Disallow, checkVars
  <2>2. CASE tools' = tools
    BY <2>1, <2>2 DEF CallInv, AtMostOneRow
  <2>3. CASE LoseTool
    BY <2>1, <2>3 DEF CallInv, AtMostOneRow, LoseTool
  <2>4. CASE SchemaChanges
    <3>1. PICK row \in Row : tools' = {[row EXCEPT !.schema = "changed"]}
      BY <2>4 DEF SchemaChanges, CallInv, AtMostOneRow
    <3>2. [row EXCEPT !.schema = "changed"] \in Row
      BY DEF Row
    <3> QED BY <2>1, <3>1, <3>2 DEF CallInv, AtMostOneRow
  <2>5. CASE RiskChanges
    <3>1. PICK row \in Row, risk \in TestRisks : tools' = {[row EXCEPT !.risk = risk]}
      BY <2>5 DEF RiskChanges, CallInv, AtMostOneRow
    <3>2. [row EXCEPT !.risk = risk] \in Row
      BY DEF Row
    <3> QED BY <2>1, <3>1, <3>2 DEF CallInv, AtMostOneRow
  <2>6. CASE Disallow
    <3>1. PICK row \in Row : tools' = {[row EXCEPT !.allowlisted = FALSE]}
      BY <2>6 DEF Disallow, CallInv, AtMostOneRow
    <3>2. [row EXCEPT !.allowlisted = FALSE] \in Row
      BY DEF Row
    <3> QED BY <2>1, <3>1, <3>2 DEF CallInv, AtMostOneRow
  <2> QED
    BY <2>2, <2>3, <2>4, <2>5, <2>6 DEF CallNext, AppendRule, LosePolicy, checkVars
<1> QED BY <1>1, <1>2, PTL DEF CallSpec

(* Whatever the policy says, a call runs without approval only if it reads *)
(* with a reviewed schema, and waits for an approval only if a user        *)
(* allowlisted the tool or it is such a read.                              *)
THEOREM OnlyReviewedRuns == CallSpec => []AllowedMeansReviewed
<1>1. CallInv => AllowedMeansReviewed
  <2> SUFFICES ASSUME CallInv, NEW row \in tools, decision \in {Allowed, ApprovalRequired}
               PROVE  /\ decision = Allowed => row.risk = "read_only" /\ row.schema = "known"
                      /\ row.allowlisted \/ (row.risk = "read_only" /\ row.schema = "known")
                      /\ request.risk = row.risk /\ request.risk # "unknown"
    BY DEF AllowedMeansReviewed
  <2>1. decision.status # "denied" /\ (decision = Allowed <=> decision.status = "allowed")
    BY DEF Allowed, ApprovalRequired
  <2>2. ModeAllowsRisk(request.mode, request.risk) /\ tools = {row} /\ row \in Row /\ Judged(row)
    BY <2>1, JudgedByRow
  <2>3. PICK rule : rule.effect # "deny" /\ decision = EvaluateMatched(rule, request, EntryOf(row).verdict)
    BY <2>2 DEF Judged
  <2>4. row.schema \notin {"new", "changed", "unknown"} => row.schema = "known"
    BY <2>2 DEF Row
  <2>5. /\ request.risk = row.risk
        /\ row.allowlisted \/ (row.risk = "read_only" /\ row.schema \notin {"new", "changed", "unknown"})
        /\ decision.status = "allowed" => row.risk = "read_only" /\ row.schema \notin {"new", "changed", "unknown"}
    BY <2>1, <2>3, RowReviewed
  <2>6. request.risk # "unknown"
    BY <2>2 DEF ModeAllowsRisk, CallInv, Modes
  <2> QED BY <2>1, <2>4, <2>5, <2>6
<1> QED BY <1>1, CallInvariant, PTL

(* The run recorder's second opinion never refuses what the authorizer     *)
(* decided, so no decision goes unaudited.                                 *)
THEOREM NoneUnaudited == CallSpec => []RecorderAgrees
<1>1. CallInv => RecorderAgrees
  <2> SUFFICES ASSUME CallInv PROVE RecorderAccepts(request, decision)
    BY DEF RecorderAgrees
  <2>1. CASE ~ModeAllowsRisk(request.mode, request.risk)
    BY <2>1 DEF RecorderAccepts, decision, Authorize
  <2>2. CASE ModeAllowsRisk(request.mode, request.risk)
    <3>1. decision # Denied("mode_risk_mismatch")
      <4> DEFINE entries == {EntryOf(row) : row \in tools}
      <4>1. decision = Authorize(request, policies, entries)
        BY DEF decision
      <4> HIDE DEF entries
      <4> QED BY <2>2, <4>1 DEF Authorize, EvaluateMatched, Denied, Allowed, ApprovalRequired
    <3>2. ASSUME decision.status = "allowed" PROVE request.risk = "read_only"
      <4>1. decision.status # "denied"
        BY <3>2
      <4>2. PICK row \in Row : Judged(row)
        BY <4>1, JudgedByRow
      <4>3. PICK rule : rule.effect # "deny" /\ decision = EvaluateMatched(rule, request, EntryOf(row).verdict)
        BY <4>2 DEF Judged
      <4> QED BY <3>2, <4>1, <4>3, RowReviewed
    <3> QED BY <2>2, <3>1, <3>2 DEF RecorderAccepts
  <2> QED BY <2>1, <2>2
<1> QED BY <1>1, CallInvariant, PTL

-----------------------------------------------------------------------------
(* The same of any request, policy and row, to compare two of them.        *)
RuleFor(call, pols) == FirstMatch(CHOOSE p \in pols : TRUE, call)

PassesPolicy(call, pols) ==
  /\ ModeAllowsRisk(call.mode, call.risk) /\ pols # {} /\ ValidPolicy(CHOOSE p \in pols : TRUE)
  /\ MatchingRules(CHOOSE p \in pols : TRUE, call) # {} /\ RuleFor(call, pols).effect # "deny"
  /\ call.scope = "route"

OneOf(verdict) ==
  \/ verdict.status = "denied"
  \/ verdict = ApprovalRequired
  \/ verdict = Allowed

(* Beyond the policy an authorization is the verdict on the row.           *)
LEMMA AuthorizeOneRow ==
  ASSUME NEW call, NEW pols, NEW row
  PROVE  IF PassesPolicy(call, pols)
         THEN Authorize(call, pols, {EntryOf(row)}) = EvaluateMatched(RuleFor(call, pols), call, EntryOf(row).verdict)
         ELSE Authorize(call, pols, {EntryOf(row)}).status = "denied"
<1> DEFINE policy == CHOOSE p \in pols : TRUE
           entries == {EntryOf(row)}
           entry  == CHOOSE e \in entries : TRUE
<1>1. entry = EntryOf(row) /\ entries # {}
  OBVIOUS
<1>2. EntryOf(row).scope = "route" /\ EntryOf(row).risk = EntryOf(row).verdict.risk
  BY DEF EntryOf, DecideTool
<1>3. \A reason : Denied(reason).status = "denied"
  BY DEF Denied
<1> HIDE DEF policy, entries, entry
<1> DEFINE rule == FirstMatch(policy, call)
<1>4. RuleFor(call, pols) = rule
  BY DEF RuleFor, policy
<1>5. PassesPolicy(call, pols) <=>
        /\ ModeAllowsRisk(call.mode, call.risk) /\ pols # {} /\ ValidPolicy(policy)
        /\ MatchingRules(policy, call) # {} /\ rule.effect # "deny" /\ call.scope = "route"
  BY <1>4 DEF PassesPolicy, policy
<1> HIDE DEF rule
<1>6. IF PassesPolicy(call, pols)
      THEN Authorize(call, pols, entries) = EvaluateMatched(rule, call, EntryOf(row).verdict)
      ELSE Authorize(call, pols, entries).status = "denied"
  BY <1>1, <1>2, <1>3, <1>5 DEF Authorize, policy, rule, entry
<1> QED BY <1>4, <1>6 DEF entries

(* Nothing else than these is ever decided.                                *)
LEMMA Decisions ==
  ASSUME NEW call, NEW pols, NEW rows
  PROVE  OneOf(Authorize(call, pols, rows))
  BY DEF OneOf, Authorize, EvaluateMatched, Denied

(* A row that lost its review or its allowlist entry passes no better.     *)
Weaker(row, other) ==
  /\ other.risk = row.risk
  /\ row.schema \in {"new", "changed", "unknown"} => other.schema \in {"new", "changed", "unknown"}
  /\ other.allowlisted => row.allowlisted

LEMMA WeakerRow ==
  ASSUME NEW call, NEW pols, NEW row, NEW other, Weaker(row, other)
  PROVE  LET before == Authorize(call, pols, {EntryOf(row)})
             after  == Authorize(call, pols, {EntryOf(other)})
         IN  \/ after.status = "denied"
             \/ after = ApprovalRequired /\ before \in {ApprovalRequired, Allowed}
             \/ after = Allowed /\ before = Allowed
<1> DEFINE rule == RuleFor(call, pols)
           verdict(r) == EvaluateMatched(rule, call, EntryOf(r).verdict)
<1>1. CASE ~PassesPolicy(call, pols)
  BY <1>1, AuthorizeOneRow
<1>2. CASE PassesPolicy(call, pols)
  <2>1. Authorize(call, pols, {EntryOf(row)}) = verdict(row) /\ Authorize(call, pols, {EntryOf(other)}) = verdict(other)
    BY <1>2, AuthorizeOneRow
  <2> HIDE DEF rule
  <2>2. \/ verdict(other).status = "denied"
        \/ verdict(other) = ApprovalRequired /\ verdict(row) \in {ApprovalRequired, Allowed}
        \/ verdict(other) = Allowed /\ verdict(row) = Allowed
    BY DEF Weaker, EvaluateMatched, EntryOf, DecideTool, SchemaReviewRequired, Denied
  <2> QED BY <2>1, <2>2
<1> QED BY <1>1, <1>2

(* Losing the policy, Airlock, a review or an allowlist entry never        *)
(* loosens a decision, and a risk that changed under the request denies it. *)
THEOREM LossesDeny == CallSpec => FailsClosed
<1>1. ASSUME CallInv, [CallNext]_checkVars PROVE NeverLoosens
  <2> DEFINE before == Authorize(request, policies, {EntryOf(row) : row \in tools})
             after  == Authorize(request', policies', {EntryOf(row) : row \in tools'})
  <2>1. decision = before /\ decision' = after
    BY DEF decision, EntryOf
  <2>2. OneOf(before) /\ OneOf(after)
    BY Decisions
  <2>3. /\ before.status = "denied" => Rank = 0
        /\ before = ApprovalRequired => Rank = 1
        /\ before = Allowed => Rank = 2
    BY <2>1 DEF Rank, ApprovalRequired, Allowed
  <2>4. /\ after.status = "denied" => Rank' = 0
        /\ after = ApprovalRequired => Rank' = 1
        /\ after = Allowed => Rank' = 2
    BY <2>1 DEF Rank, ApprovalRequired, Allowed
  <2>5. \A reason : Denied(reason).status = "denied"
    BY DEF Denied
  <2>6. policies' = {} \/ tools' = {} => after.status = "denied"
    <3>1. tools' = {} => {EntryOf(row) : row \in tools'} = {}
      OBVIOUS
    <3> DEFINE rows == {EntryOf(row) : row \in tools'}
    <3> HIDE DEF rows
    <3>2. policies' = {} \/ rows = {} => Authorize(request', policies', rows).status = "denied"
      BY <2>5 DEF Authorize
    <3> QED BY <3>1, <3>2 DEF rows
  <2>7. LosePolicy \/ LoseTool => policies' = {} \/ tools' = {}
    BY DEF LosePolicy, LoseTool
  <2>8. SchemaChanges \/ Disallow =>
          \E row, other : /\ tools = {row} /\ tools' = {other} /\ Weaker(row, other)
                          /\ request' = request /\ policies' = policies
    <3>1. CASE SchemaChanges
      <4>1. PICK row \in Row : tools = {row} /\ tools' = {[row EXCEPT !.schema = "changed"]}
        BY <1>1, <3>1 DEF SchemaChanges, CallInv, AtMostOneRow
      <4>2. Weaker(row, [row EXCEPT !.schema = "changed"])
        BY DEF Weaker, Row
      <4> QED BY <3>1, <4>1, <4>2 DEF SchemaChanges
    <3>2. CASE Disallow
      <4>1. PICK row \in Row : tools = {row} /\ tools' = {[row EXCEPT !.allowlisted = FALSE]}
        BY <1>1, <3>2 DEF Disallow, CallInv, AtMostOneRow
      <4>2. Weaker(row, [row EXCEPT !.allowlisted = FALSE])
        BY DEF Weaker, Row
      <4> QED BY <3>2, <4>1, <4>2 DEF Disallow
    <3> QED BY <3>1, <3>2
  <2>9. ASSUME SchemaChanges \/ Disallow PROVE Rank' <= Rank
    <3>1. PICK row, other : /\ tools = {row} /\ tools' = {other} /\ Weaker(row, other)
                            /\ request' = request /\ policies' = policies
      BY <2>8, <2>9
    <3>2. before = Authorize(request, policies, {EntryOf(row)}) /\ after = Authorize(request, policies, {EntryOf(other)})
      BY <3>1
    <3>3. \/ after.status = "denied"
          \/ after = ApprovalRequired /\ before \in {ApprovalRequired, Allowed}
          \/ after = Allowed /\ before = Allowed
      BY <3>1, <3>2, WeakerRow
    <3> HIDE DEF before, after
    <3> QED BY <2>2, <2>3, <2>4, <3>3 DEF OneOf
  <2>10. ASSUME RiskChanges, \A row \in tools : row.risk = request.risk PROVE Rank' = 0
    <3>1. PICK row \in Row, risk \in TestRisks : /\ tools = {row} /\ row.risk # risk
                                                 /\ tools' = {[row EXCEPT !.risk = risk]}
      BY <1>1, <2>10 DEF RiskChanges, CallInv, AtMostOneRow
    <3> DEFINE other == [row EXCEPT !.risk = risk]
    <3>2. other.risk # request.risk
      BY <2>10, <3>1 DEF Row
    <3>3. request' = request /\ policies' = policies
      BY <2>10 DEF RiskChanges
    <3> HIDE DEF other
    <3>4. after = Authorize(request, policies, {EntryOf(other)})
      BY <3>1, <3>3 DEF other
    <3>5. EvaluateMatched(RuleFor(request, policies), request, EntryOf(other).verdict).status = "denied"
      BY <3>2, <2>5 DEF EvaluateMatched, EntryOf, DecideTool
    <3>6. after.status = "denied"
      BY <3>4, <3>5, AuthorizeOneRow
    <3> QED BY <3>6, <2>4
  <2>11. LosePolicy \/ LoseTool => Rank' = 0
    BY <2>4, <2>6, <2>7
  <2>12. Rank \in {0, 1, 2}
    <3> HIDE DEF before
    <3> QED BY <2>2, <2>3 DEF OneOf
  <2> QED BY <2>9, <2>10, <2>11, <2>12 DEF NeverLoosens
<1> QED BY <1>1, CallInvariant, PTL DEF CallSpec, FailsClosed

-----------------------------------------------------------------------------
(* The first rule that matches stays the first when another is appended.   *)
OnePolicy == policies = {} \/ \E policy \in Seq(RulesTried) : policies = {policy}

LEMMA PolicyInvariant == CallSpec => []OnePolicy
<1>1. CallInit => OnePolicy
  <2>1. <<>> \in Seq(RulesTried)
    OBVIOUS
  <2> QED BY <2>1 DEF CallInit, OnePolicy
<1>2. OnePolicy /\ [CallNext]_checkVars => OnePolicy'
  <2> SUFFICES ASSUME OnePolicy, [CallNext]_checkVars PROVE OnePolicy'
    OBVIOUS
  <2>1. CASE policies' = policies
    BY <2>1 DEF OnePolicy
  <2>2. CASE LosePolicy
    BY <2>2 DEF OnePolicy, LosePolicy
  <2>3. CASE AppendRule
    <3>1. PICK policy \in policies, rule \in RulesTried : policies' = {Append(policy, rule)}
      BY <2>3 DEF AppendRule
    <3>2. policy \in Seq(RulesTried)
      BY <3>1 DEF OnePolicy
    <3>3. Append(policy, rule) \in Seq(RulesTried)
      BY <3>1, <3>2
    <3> QED BY <3>1, <3>3 DEF OnePolicy
  <2> QED BY <2>1, <2>2, <2>3 DEF CallNext, LoseTool, SchemaChanges, RiskChanges, Disallow, checkVars
<1> QED BY <1>1, <1>2, PTL DEF CallSpec

LEMMA LeastIndex ==
  ASSUME NEW T \in SUBSET Nat, T # {}
  PROVE  \E n \in T : \A m \in T : n <= m
<1>1. PICK n \in T : \A m \in T : ~(<<m, n>> \in OpToRel(<, Nat))
  BY NatLessThanWellFounded, WFMin
<1>2. \A m \in T : m < n => <<m, n>> \in OpToRel(<, Nat)
  BY DEF OpToRel
<1>3. \A m \in T : ~(m < n)
  BY <1>1, <1>2, Zenon
<1> QED BY <1>3

LEMMA FirstStays ==
  ASSUME NEW policy \in Seq(RulesTried), NEW rule \in RulesTried, NEW call,
         MatchingRules(policy, call) # {}
  PROVE  /\ MatchingRules(Append(policy, rule), call) # {}
         /\ FirstMatch(Append(policy, rule), call) = FirstMatch(policy, call)
<1> DEFINE S == MatchingRules(policy, call)
           T == MatchingRules(Append(policy, rule), call)
           longer == Append(policy, rule)
<1>1. PICK n \in Nat : n = Len(policy) /\ DOMAIN policy = 1 .. n
  OBVIOUS
<1>2. DOMAIN longer = 1 .. n + 1 /\ \A i \in 1 .. n : longer[i] = policy[i]
  BY <1>1
<1>3. S = {i \in 1 .. n : Matches(policy[i], call)} /\ T = {i \in 1 .. n + 1 : Matches(longer[i], call)}
  BY <1>1, <1>2 DEF MatchingRules
<1>4. FirstMatch(policy, call) = policy[CHOOSE i \in S : \A j \in S : i <= j]
      /\ FirstMatch(longer, call) = longer[CHOOSE i \in T : \A j \in T : i <= j]
  BY DEF FirstMatch
<1>5. S # {}
  OBVIOUS
<1> HIDE DEF S, T, longer
<1>6. S \subseteq 1 .. n /\ S \subseteq T /\ \A i \in T : i \in S \/ i = n + 1
  <2>1. \A i \in 1 .. n + 1 : i \in 1 .. n \/ i = n + 1
    BY <1>1
  <2>2. \A i \in 1 .. n : i \in 1 .. n + 1
    BY <1>1
  <2> QED BY <1>2, <1>3, <2>1, <2>2
<1>7. PICK k \in S : \A j \in S : k <= j
  <2>1. S \in SUBSET Nat
    BY <1>1, <1>6
  <2> QED BY <1>5, <2>1, LeastIndex
<1>8. k \in T /\ \A j \in T : k <= j
  BY <1>1, <1>6, <1>7
<1>9. ASSUME NEW A \in SUBSET Nat, k \in A, \A j \in A : k <= j
      PROVE  (CHOOSE i \in A : \A j \in A : i <= j) = k
  <2> DEFINE least == CHOOSE i \in A : \A j \in A : i <= j
  <2>1. least \in A /\ \A j \in A : least <= j
    BY <1>9
  <2> HIDE DEF least
  <2>2. least = k
    BY <1>9, <2>1
  <2> QED BY <2>2 DEF least
<1>10. S \subseteq Nat /\ T \subseteq Nat
  BY <1>1, <1>6
<1>11. FirstMatch(policy, call) = policy[k] /\ FirstMatch(longer, call) = longer[k]
  <2>1. (CHOOSE i \in S : \A j \in S : i <= j) = k
    BY <1>7, <1>9, <1>10
  <2>2. (CHOOSE i \in T : \A j \in T : i <= j) = k
    BY <1>8, <1>9, <1>10
  <2> QED BY <1>4, <2>1, <2>2
<1>12. longer[k] = policy[k]
  BY <1>2, <1>6, <1>7
<1> QED BY <1>8, <1>11, <1>12 DEF T, longer

LEMMA ShorterValid ==
  ASSUME NEW policy \in Seq(RulesTried), NEW rule \in RulesTried, ValidPolicy(Append(policy, rule))
  PROVE  ValidPolicy(policy)
<1>1. \A i \in DOMAIN policy : i \in DOMAIN Append(policy, rule) /\ Append(policy, rule)[i] = policy[i]
  OBVIOUS
<1> QED BY <1>1 DEF ValidPolicy

(* Rules behind the first that matches change no decision, unless they     *)
(* make the policy invalid, which denies everything.                       *)
THEOREM FirstRuleDecides == CallSpec => FirstRuleWins
<1>1. ASSUME OnePolicy, [CallNext]_checkVars PROVE LaterRuleIdle
  <2> SUFFICES ASSUME NEW before \in policies, NEW after \in policies', Len(after) > Len(before)
               PROVE  /\ MatchingRules(before, request) # {} /\ ValidPolicy(after) => decision' = decision
                      /\ ~ValidPolicy(after) => Rank' = 0
    BY DEF LaterRuleIdle
  <2>1. policies' # policies => AppendRule
    BY <1>1 DEF CallNext, AppendRule, LosePolicy, LoseTool, SchemaChanges, RiskChanges, Disallow, checkVars
  <2>2. policies' # policies
    BY <1>1 DEF OnePolicy
  <2>3. PICK policy \in Seq(RulesTried), rule \in RulesTried : policies = {policy} /\ policies' = {Append(policy, rule)}
    BY <1>1, <2>1, <2>2 DEF AppendRule, OnePolicy
  <2>4. request' = request /\ tools' = tools
    BY <2>1, <2>2 DEF AppendRule
  <2> DEFINE rows == {EntryOf(row) : row \in tools}
             longer == Append(policy, rule)
  <2>5. decision = Authorize(request, policies, rows) /\ decision' = Authorize(request, policies', rows)
    BY <2>4 DEF decision, EntryOf
  <2>6. (CHOOSE p \in policies : TRUE) = policy /\ (CHOOSE p \in policies' : TRUE) = longer
    BY <2>3
  <2>7. policies # {} /\ policies' # {} /\ before = policy /\ after = longer
    BY <2>3
  <2>8. ValidPolicy(longer) => ValidPolicy(policy)
    BY ShorterValid
  <2>9. MatchingRules(policy, request) # {} =>
          MatchingRules(longer, request) # {} /\ FirstMatch(longer, request) = FirstMatch(policy, request)
    BY FirstStays
  <2> HIDE DEF rows, longer
  <2>10. ASSUME MatchingRules(policy, request) # {}, ValidPolicy(longer) PROVE decision' = decision
    BY <2>5, <2>6, <2>7, <2>8, <2>9, <2>10 DEF Authorize
  <2>11. ASSUME ~ValidPolicy(longer) PROVE Rank' = 0
    <3>1. Authorize(request, policies', rows).status = "denied"
      BY <2>6, <2>7, <2>11 DEF Authorize, Denied
    <3> QED BY <2>5, <3>1 DEF Rank
  <2> QED BY <2>7, <2>10, <2>11
<1> QED BY <1>1, PolicyInvariant, PTL DEF CallSpec, FirstRuleWins

-----------------------------------------------------------------------------
(***************************************************************************)
(* What an apply is held up by.                                            *)
(***************************************************************************)

LEMMA ApplyStart == ApplyInit => ApplyTypeOK
<1> SUFFICES ASSUME ApplyInit PROVE ApplyTypeOK
  OBVIOUS
<1>1. NoFiles \in [PolicyFiles -> RegoVerdicts \union SentinelVerdicts \union PackVerdicts \union {"absent"}]
  BY DEF NoFiles
<1>2. Present(NoFiles) = {}
  BY DEF NoFiles, Present
<1> QED BY <1>1, <1>2 DEF ApplyInit, ApplyTypeOK, Directories

LEMMA ApplyTypesKept == ApplyTypeOK /\ [ApplyNext]_applyVars => ApplyTypeOK'
<1> SUFFICES ASSUME ApplyTypeOK, [ApplyNext]_applyVars PROVE ApplyTypeOK'
  OBVIOUS
<1> DEFINE Say == RegoVerdicts \union SentinelVerdicts \union PackVerdicts \union {"absent"}
<1>0. enginePolicies \in [Directories -> [PolicyFiles -> Say]] /\ directory \in [Directories -> {"missing", "file", "policies"}]
  BY DEF ApplyTypeOK
<1>1. CASE WritePlan
  BY <1>1 DEF WritePlan, ApplyTypeOK
<1>2. CASE LosePlan
  BY <1>2 DEF LosePlan, ApplyTypeOK
<1>3. CASE WritePolicy
  <2>1. PICK d \in Directories, f \in PolicyFiles :
          /\ \E v \in Verdicts(d) : enginePolicies' = [enginePolicies EXCEPT ![d][f] = v]
          /\ directory' = [directory EXCEPT ![d] = "policies"]
    BY <1>3 DEF WritePolicy
  <2>2. PICK v \in Verdicts(d) : enginePolicies' = [enginePolicies EXCEPT ![d][f] = v]
    BY <2>1
  <2>20. v \in Say /\ v # "absent"
    BY DEF Directories, Verdicts, RegoVerdicts, SentinelVerdicts, PackVerdicts
  <2>3. enginePolicies' \in [Directories -> [PolicyFiles -> Say]] /\ directory' \in [Directories -> {"missing", "file", "policies"}]
    BY <1>0, <2>1, <2>2, <2>20
  <2>4. ASSUME NEW e \in Directories, NEW g \in Present(enginePolicies[e])'
        PROVE  directory'[e] = "policies" /\ enginePolicies'[e][g] \in Verdicts(e)
    <3>1. g \in PolicyFiles /\ enginePolicies'[e][g] # "absent"
      BY <2>3, <2>4 DEF Present
    <3>2. CASE e = d /\ g = f
      BY <1>0, <2>1, <2>2, <3>2
    <3>3. CASE e # d \/ g # f
      <4>1. enginePolicies'[e][g] = enginePolicies[e][g] /\ DOMAIN enginePolicies[e] = PolicyFiles
        BY <1>0, <2>2, <3>1, <3>3
      <4>2. g \in Present(enginePolicies[e])
        BY <3>1, <4>1 DEF Present
      <4>3. directory[e] = "policies" /\ enginePolicies[e][g] \in Verdicts(e)
        BY <4>2 DEF ApplyTypeOK
      <4> QED BY <1>0, <2>1, <4>1, <4>3
    <3> QED BY <3>2, <3>3
  <2> QED BY <1>3, <2>3, <2>4 DEF WritePolicy, ApplyTypeOK
<1>4. CASE RemovePolicies
  <2>1. PICK d \in Directories, status \in {"missing", "file"} :
          /\ directory' = [directory EXCEPT ![d] = status] /\ enginePolicies' = [enginePolicies EXCEPT ![d] = NoFiles]
    BY <1>4 DEF RemovePolicies
  <2>2. NoFiles \in [PolicyFiles -> Say] /\ Present(NoFiles) = {}
    BY DEF NoFiles, Present
  <2>3. enginePolicies' \in [Directories -> [PolicyFiles -> Say]] /\ directory' \in [Directories -> {"missing", "file", "policies"}]
    BY <1>0, <2>1, <2>2
  <2>4. ASSUME NEW e \in Directories, NEW g \in Present(enginePolicies[e])'
        PROVE  directory'[e] = "policies" /\ enginePolicies'[e][g] \in Verdicts(e)
    <3>1. e # d
      BY <1>0, <2>1, <2>2, <2>4 DEF Present
    <3>2. enginePolicies'[e] = enginePolicies[e] /\ directory'[e] = directory[e]
      BY <1>0, <2>1, <3>1
    <3> QED BY <2>4, <3>2 DEF ApplyTypeOK, Present
  <2> QED BY <1>4, <2>3, <2>4 DEF RemovePolicies, ApplyTypeOK
<1>5. CASE Install
  BY <1>5 DEF Install, ApplyTypeOK
<1>6. CASE EditResources
  BY <1>6 DEF EditResources, ApplyTypeOK, Severities
<1>7. CASE UNCHANGED applyVars
  BY <1>7 DEF applyVars, ApplyTypeOK, Present
<1> QED BY <1>1, <1>2, <1>3, <1>4, <1>5, <1>6, <1>7 DEF ApplyNext

-----------------------------------------------------------------------------
(* A run of engines blocks as soon as one of them finds an error.          *)
LEMMA BlocksByOne ==
  ASSUME NEW engines, NEW project
  PROVE  Blocking(engines, project) <=>
           \E e \in engines : \E f \in Evaluate(e, project).findings : f.severity = "error"
  BY DEF Blocking, MergeFindings, RunAll, IsBlocking

LEMMA EngineByName ==
  ASSUME NEW project
  PROVE  /\ Evaluate("builtin", project) = Builtin(project)
         /\ Evaluate("opa", project) = OPA(project)
         /\ Evaluate("conftest", project) = Conftest(project)
         /\ Evaluate("sentinel", project) = Sentinel(project)
         /\ Evaluate("crossguard", project) = CrossGuard(project)
  BY DEF Evaluate

LEMMA ResultFindings ==
  ASSUME NEW e, NEW available, NEW findings, NEW failed
  PROVE  /\ Result(e, available, findings, failed).findings = findings
         /\ Quiet(e).findings = {} /\ EngineFails(e).findings = {} /\ NotOnPath(e).findings = {}
  BY DEF Result, Quiet, EngineFails, NotOnPath

(* An error of a Rego file says that it denies, or that a rule is false.   *)
LEMMA RegoErrors ==
  ASSUME NEW engine, NEW file, NEW verdict
  PROVE  /\ verdict = "denies" => \E f \in EvalFile(engine, file, verdict) : f.severity = "error"
         /\ \A f \in EvalFile(engine, file, verdict) :
              f.severity = "error" => verdict \in {"denies", "false"}
<1>1. Finding(engine, RegoSeverity(verdict), file).severity = RegoSeverity(verdict)
  BY DEF Finding
<1>2. EvalFile(engine, file, verdict) =
        IF verdict \in {"denies", "warns", "false"} THEN {Finding(engine, RegoSeverity(verdict), file)} ELSE {}
  BY DEF EvalFile
<1> QED BY <1>1, <1>2 DEF RegoSeverity

-----------------------------------------------------------------------------
(* What each engine finds an error for.                                    *)
LEMMA BuiltinErrors ==
  (\E f \in Builtin(Project).findings : f.severity = "error") <=> "error" \in ruleSeverities
<1>1. Builtin(Project).findings = {Finding("builtin", s, "rules") : s \in ruleSeverities}
  BY DEF Builtin, Result, Project
<1>2. \A s : Finding("builtin", s, "rules").severity = s
  BY DEF Finding
<1> QED BY <1>1, <1>2

LEMMA OPAErrors ==
  ASSUME ApplyTypeOK
  PROVE  /\ \A f \in OPA(Project).findings : f.severity = "error" =>
              \E p \in PolicyFiles : enginePolicies["opa"][p] \in {"denies", "false"}
         /\ \A p \in PolicyFiles : DeniesPlan(p) /\ saved.kind = "plan" =>
              \E f \in OPA(Project).findings : f.severity = "error"
<1> DEFINE files == enginePolicies["opa"]
<1>1. /\ Project.policies["opa"] = files /\ Project.directory["opa"] = directory["opa"]
      /\ Project.plan = saved.kind
  BY DEF Project
<1>2. DOMAIN files = PolicyFiles
  BY DEF ApplyTypeOK, Directories
<1>3. EvalFiles("opa", files).findings = UNION {EvalFile("opa", p, files[p]) : p \in Present(files)}
  BY DEF EvalFiles, Result
<1>4. OPA(Project).findings = {} \/ OPA(Project) = EvalFiles("opa", files)
  BY <1>1, ResultFindings DEF OPA
<1>5. Present(files) \subseteq PolicyFiles
  BY <1>2 DEF Present
<1>6. ASSUME NEW f \in OPA(Project).findings, f.severity = "error"
      PROVE  \E p \in PolicyFiles : files[p] \in {"denies", "false"}
  <2>1. PICK p \in Present(files) : f \in EvalFile("opa", p, files[p])
    BY <1>3, <1>4, <1>6
  <2> QED BY <1>5, <1>6, <2>1, RegoErrors
<1>7. ASSUME NEW p \in PolicyFiles, DeniesPlan(p), saved.kind = "plan"
      PROVE  \E f \in OPA(Project).findings : f.severity = "error"
  <2>1. p \in Present(files) /\ files[p] = "denies" /\ directory["opa"] = "policies"
    BY <1>2, <1>7 DEF DeniesPlan, Present
  <2>2. OPA(Project) = EvalFiles("opa", files)
    BY <1>1, <1>7, <2>1 DEF OPA, HasPlan
  <2>3. PICK f \in EvalFile("opa", p, files[p]) : f.severity = "error"
    BY <2>1, RegoErrors
  <2> QED BY <1>3, <2>1, <2>2, <2>3
<1> QED BY <1>6, <1>7

LEMMA ConftestErrors ==
  ASSUME ApplyTypeOK, NEW f \in Conftest(Project).findings, f.severity = "error"
  PROVE  \E p \in PolicyFiles : enginePolicies["opa"][p] \in {"denies", "false"}
<1> DEFINE files == enginePolicies["opa"]
           read  == {p \in Present(files) : files[p] # "false"}
<1>1. Project.policies["opa"] = files
  BY DEF Project
<1>2. Present(files) \subseteq PolicyFiles
  BY DEF Present, ApplyTypeOK, Directories
<1>3. Conftest(Project).findings = {} \/ Conftest(Project) = ConftestTest(Project)
  BY ResultFindings DEF Conftest
<1>4. ConftestTest(Project).findings \subseteq UNION {EvalFile("conftest", p, files[p]) : p \in read}
  BY <1>1 DEF ConftestTest, EngineFails, Result
<1>5. PICK p \in read : f \in EvalFile("conftest", p, files[p])
  BY <1>3, <1>4
<1> QED BY <1>2, <1>5, RegoErrors

LEMMA SentinelErrors ==
  ASSUME ApplyTypeOK
  PROVE  /\ \A f \in Sentinel(Project).findings : f.severity = "error" =>
              /\ "sentinel" \in installed
              /\ \E p \in Present(enginePolicies["sentinel"]) : enginePolicies["sentinel"][p] # "passes"
         /\ \A p \in Present(enginePolicies["sentinel"]) :
              enginePolicies["sentinel"][p] # "passes" /\ "sentinel" \in installed /\ saved.kind = "plan" =>
              \E f \in Sentinel(Project).findings : f.severity = "error"
<1> DEFINE files == enginePolicies["sentinel"]
           all   == UNION {SentinelApply(p, files[p]) : p \in Present(files)}
<1>1. /\ Project.policies["sentinel"] = files /\ Project.directory["sentinel"] = directory["sentinel"]
      /\ Project.plan = saved.kind /\ Project.installed = installed
  BY DEF Project
<1>2. Sentinel(Project).findings = {} \/ ("sentinel" \in installed /\ Sentinel(Project).findings = all)
  BY <1>1 DEF Sentinel, Quiet, EngineFails, NotOnPath, Result
<1>3. ASSUME NEW f \in Sentinel(Project).findings, f.severity = "error"
      PROVE  "sentinel" \in installed /\ \E p \in Present(files) : files[p] # "passes"
  <2>1. PICK p \in Present(files) : f \in SentinelApply(p, files[p])
    BY <1>2, <1>3
  <2> QED BY <1>2, <1>3, <2>1 DEF SentinelApply
<1>4. ASSUME NEW p \in Present(files), files[p] # "passes", "sentinel" \in installed, saved.kind = "plan"
      PROVE  \E f \in Sentinel(Project).findings : f.severity = "error"
  <2>1. directory["sentinel"] = "policies"
    BY <1>4 DEF ApplyTypeOK, Directories
  <2>2. Sentinel(Project).findings = all
    BY <1>1, <1>4, <2>1 DEF Sentinel, HasPlan, Result
  <2>3. Finding("sentinel", "error", p) \in all
    BY <1>4 DEF SentinelApply
  <2>4. Finding("sentinel", "error", p).severity = "error"
    BY DEF Finding
  <2> QED BY <2>2, <2>3, <2>4
<1> QED BY <1>3, <1>4

LEMMA CrossGuardErrors ==
  ASSUME ApplyTypeOK, NEW f \in CrossGuard(Project).findings, f.severity = "error"
  PROVE  "crossguard" \in installed /\ \E p \in PolicyFiles : enginePolicies["crossguard"][p] = "mandatory"
<1> DEFINE packs    == enginePolicies["crossguard"]
           violated == {p \in Present(packs) : packs[p] \in {"mandatory", "advisory"}}
<1>1. Project.policies["crossguard"] = packs /\ Project.installed = installed
  BY DEF Project
<1>2. Present(packs) \subseteq PolicyFiles
  BY DEF Present, ApplyTypeOK, Directories
<1>3. CrossGuard(Project).findings = {} \/ ("crossguard" \in installed /\ CrossGuard(Project) = PulumiPreview(packs))
  BY <1>1, ResultFindings DEF CrossGuard
<1>4. PulumiPreview(packs).findings = {Finding("crossguard", SeverityForEnforcement(packs[p]), p) : p \in violated}
  BY DEF PulumiPreview, Result
<1>5. PICK p \in violated : f = Finding("crossguard", SeverityForEnforcement(packs[p]), p)
  BY <1>3, <1>4
<1>6. f.severity = SeverityForEnforcement(packs[p])
  BY <1>5 DEF Finding
<1>7. packs[p] = "mandatory"
  BY <1>6 DEF SeverityForEnforcement
<1> QED BY <1>2, <1>3, <1>7

-----------------------------------------------------------------------------
(* The plan.                                                               *)

LEMMA SafeChanges ==
  ASSUME NEW c \in Change,
         ~RequiresAcknowledgment({ClassifyChange([action |-> ActionsToAction(c.actions), type |-> c.type,
                                                  after |-> c.after, fields |-> FieldChanges(c)])})
  PROVE  OnlyMetadata(c)
<1> DEFINE read == [action |-> ActionsToAction(c.actions), type |-> c.type, after |-> c.after, fields |-> FieldChanges(c)]
<1>1. ClassifyChange(read).risk \notin {"risky", "destructive", "unknown"}
  BY DEF RequiresAcknowledgment
<1>2. \/ read.action \in {"no-op", "read"}
      \/ read.action = "update" /\ IsMetadataOnlyUpdate(read.fields)
  BY <1>1 DEF ClassifyChange
<1>3. read.action = ActionsToAction(c.actions) /\ read.fields = FieldChanges(c)
  OBVIOUS
<1> HIDE DEF read
<1>4. c.actions \in PlannedActions
  BY DEF Change
<1>5. /\ ActionsToAction(<<>>) = "unknown" /\ ActionsToAction(<<"no-op">>) = "no-op" /\ ActionsToAction(<<"read">>) = "read"
      /\ ActionsToAction(<<"create">>) = "create" /\ ActionsToAction(<<"update">>) = "update"
      /\ ActionsToAction(<<"delete">>) = "delete" /\ ActionsToAction(<<"forget">>) = "forget"
      /\ ActionsToAction(<<"delete", "create">>) = "replace" /\ ActionsToAction(<<"create", "delete">>) = "replace"
  BY DEF ActionsToAction, NormalizeAction
<1>6. c.actions \in {<<"no-op">>, <<"read">>} \/ (c.actions = <<"update">> /\ IsMetadataOnlyUpdate(FieldChanges(c)))
  BY <1>2, <1>3, <1>4, <1>5 DEF PlannedActions
<1>7. ASSUME IsMetadataOnlyUpdate(FieldChanges(c)), NEW f \in PlanFields \ Metadata
      PROVE  Printed(c.before[f]) = Printed(c.after[f])
  BY <1>7 DEF IsMetadataOnlyUpdate, FieldChanges, DiffMaps
<1> QED BY <1>6, <1>7 DEF OnlyMetadata

(* A change whose values are not shown is never judged the milder for it.  *)
LEMMA TextStricter ==
  ASSUME NEW action, NEW needles, NEW object, NEW fields,
         ClassifyChange([action |-> action, type |-> needles, after |-> object, fields |-> fields]).risk
           \in {"risky", "destructive", "unknown"}
  PROVE  ClassifyChange([action |-> action, type |-> needles, after |-> NoObject, fields |-> {}]).risk
           \in {"risky", "destructive", "unknown"}
<1> DEFINE full == [action |-> action, type |-> needles, after |-> object, fields |-> fields]
           line == [action |-> action, type |-> needles, after |-> NoObject, fields |-> {}]
<1>1. full.action = action /\ line.action = action /\ line.fields = {}
  OBVIOUS
<1> HIDE DEF full, line
<1>2. action \notin {"no-op", "read"}
  <2> SUFFICES ASSUME action \in {"no-op", "read"} PROVE ClassifyChange(full).risk = "safe"
    BY DEF full
  <2> QED BY <1>1 DEF ClassifyChange
<1>3. ~IsMetadataOnlyUpdate(line.fields)
  BY <1>1 DEF IsMetadataOnlyUpdate
<1>4. ClassifyChange(line).risk \in {"risky", "destructive", "unknown"}
  BY <1>1, <1>2, <1>3 DEF ClassifyChange
<1> QED BY <1>4 DEF line

-----------------------------------------------------------------------------
LEMMA AsksFirst == ApplyTypeOK => NothingUnasked
<1> SUFFICES ASSUME ApplyTypeOK, HeldBy("apply", "terraform", FALSE, FALSE) = "passes"
             PROVE  /\ saved.kind = "plan" /\ \A c \in saved.changes : OnlyMetadata(c)
                    /\ ~ \E f \in PolicyFiles : DeniesPlan(f)
                    /\ "error" \notin ruleSeverities
                    /\ "sentinel" \in installed =>
                         \A f \in Present(enginePolicies["sentinel"]) : enginePolicies["sentinel"][f] = "passes"
  BY DEF NothingUnasked
<1>1. ~NeedsRiskAcknowledgement("apply", "terraform", saved) /\ ~EvaluateBlockingPolicies(Project)
  BY DEF HeldBy
<1>2. ~RequiresAcknowledgment(ClassifyFullPlan(saved))
  BY <1>1 DEF NeedsRiskAcknowledgement, Supports, ClassifySavedPlan
<1>3. saved.kind = "plan"
  BY <1>2 DEF ClassifyFullPlan, UnknownClassification, Unknown, RequiresAcknowledgment
<1>4. saved.changes \subseteq Changes
  BY <1>3 DEF ApplyTypeOK, NoPlan, Garbled, PlanOf, Source
<1>5. ASSUME NEW c \in saved.changes PROVE OnlyMetadata(c)
  <2> DEFINE read == [action |-> ActionsToAction(c.actions), type |-> c.type, after |-> c.after, fields |-> FieldChanges(c)]
  <2>1. ClassifyChange(read) \in ClassifyFullPlan(saved)
    BY <1>3, <1>5 DEF ClassifyFullPlan, Classify, ParseFullPlan
  <2>2. ~RequiresAcknowledgment({ClassifyChange(read)})
    BY <1>2, <2>1 DEF RequiresAcknowledgment
  <2>3. c \in Change
    BY <1>4, <1>5, ApplyAssumption
  <2> QED BY <2>2, <2>3, SafeChanges
<1>6. \A e \in Engines : ~ \E f \in Evaluate(e, Project).findings : f.severity = "error"
  BY <1>1, BlocksByOne DEF EvaluateBlockingPolicies
<1>7. ~ \E f \in Builtin(Project).findings : f.severity = "error"
  BY <1>6, EngineByName DEF Engines
<1>8. ~ \E f \in OPA(Project).findings : f.severity = "error"
  BY <1>6, EngineByName DEF Engines
<1>9. ~ \E f \in Sentinel(Project).findings : f.severity = "error"
  BY <1>6, EngineByName DEF Engines
<1> QED BY <1>3, <1>5, <1>7, <1>8, <1>9, BuiltinErrors, OPAErrors, SentinelErrors

LEMMA FailuresHoldNothing == ApplyTypeOK => FailuresPass
<1> SUFFICES ASSUME ApplyTypeOK, EvaluateBlockingPolicies(Project) PROVE FailuresPass
  BY DEF FailuresPass
<1>1. PICK e \in Engines : \E f \in Evaluate(e, Project).findings : f.severity = "error"
  BY BlocksByOne DEF EvaluateBlockingPolicies
<1>2. PICK f \in Evaluate(e, Project).findings : f.severity = "error"
  BY <1>1
<1>3. CASE e = "builtin"
  BY <1>2, <1>3, EngineByName, BuiltinErrors DEF FailuresPass
<1>4. CASE e = "opa"
  BY <1>2, <1>4, EngineByName, OPAErrors DEF FailuresPass
<1>5. CASE e = "conftest"
  BY <1>2, <1>5, EngineByName, ConftestErrors DEF FailuresPass
<1>6. CASE e = "sentinel"
  BY <1>2, <1>6, EngineByName, SentinelErrors DEF FailuresPass
<1>7. CASE e = "crossguard"
  BY <1>2, <1>7, EngineByName, CrossGuardErrors DEF FailuresPass
<1> QED BY <1>3, <1>4, <1>5, <1>6, <1>7 DEF Engines

LEMMA TextAsksMore == TextNoLooser
<1> SUFFICES ASSUME saved.kind = "plan", RequiresAcknowledgment(ClassifySavedPlan(saved))
             PROVE  RequiresAcknowledgment(ClassifyPlanRequest(NoPlan, TextOf(saved.changes, TRUE), NoPlan))
  BY DEF TextNoLooser
<1> DEFINE full(c) == [action |-> ActionsToAction(c.actions), type |-> c.type, after |-> c.after, fields |-> FieldChanges(c)]
           line(c) == [action |-> ActionsToAction(c.actions), type |-> c.type, after |-> NoObject, fields |-> {}]
<1>1. PICK c \in saved.changes : ClassifyChange(full(c)).risk \in {"risky", "destructive", "unknown"}
  BY DEF ClassifySavedPlan, ClassifyFullPlan, Classify, ParseFullPlan, RequiresAcknowledgment
<1>2. ClassifyChange(line(c)).risk \in {"risky", "destructive", "unknown"}
  BY <1>1, TextStricter
<1>3. ClassifyPlanRequest(NoPlan, TextOf(saved.changes, TRUE), NoPlan) = ClassifyText(saved.changes, TRUE)
  BY DEF ClassifyPlanRequest, NoPlan, Source, TextOf
<1>4. ClassifyChange(line(c)) \in ClassifyText(saved.changes, TRUE)
  BY <1>1 DEF ClassifyText, Classify, ParseStreamOutput
<1> QED BY <1>2, <1>3, <1>4 DEF RequiresAcknowledgment

LEMMA FiltersOnlyLoosen == RunsAgree
<1>1. \A filter : FilterEngines(filter) \subseteq Engines
  BY DEF FilterEngines
<1>2. FilterEngines({}) = Engines
  BY DEF FilterEngines
<1>3. \A filter : RunPolicies(Project, "absent", filter) <=> Blocking(FilterEngines(filter), Project)
  BY DEF RunPolicies
<1>4. \A filter : Blocking(FilterEngines(filter), Project) => Blocking(Engines, Project)
  BY <1>1, BlocksByOne
<1> QED BY <1>2, <1>3, <1>4 DEF RunsAgree, EvaluateBlockingPolicies

(* However plans, policies, programs and resources change, an apply that   *)
(* nobody acknowledged changes only metadata and is denied by no policy,   *)
(* no engine's failure holds one up, and every way to run the engines and  *)
(* to read a plan judges alike (router.go, plan_classification.go, engines). *)
THEOREM AppliesReviewed == ApplyInit /\ [][ApplyNext]_applyVars => []ReviewsAgree
<1>1. ApplyTypeOK => ReviewsAgree
  BY AsksFirst, FailuresHoldNothing, TextAsksMore, FiltersOnlyLoosen DEF ReviewsAgree
<1> QED BY <1>1, ApplyStart, ApplyTypesKept, PTL

-----------------------------------------------------------------------------
(***************************************************************************)
(* The built-in rules and the scanner.                                     *)
(***************************************************************************)

(* The types whose resources a fix changes have the attribute it sets.     *)
LEMMA Attributed ==
  /\ DOMAIN Attributes["aws_s3_bucket"] = {"acl", "encryption", "logging", "tags"}
  /\ DOMAIN Attributes["aws_db_instance"] =
       {"storage_encrypted", "publicly_accessible", "backup_retention_period", "multi_az", "tags"}
  /\ DOMAIN Attributes["aws_ebs_volume"] = {"encrypted"}
  /\ DOMAIN Attributes["azurerm_mssql_server"] = {"minimum_tls_version"}
  /\ DOMAIN Attributes["azurerm_storage_account"] = {"allow_blob_public_access"}
  BY DEF Attributes

LEMMA FixValues ==
  /\ Attributes["aws_s3_bucket"]["acl"] = {"public", "private"}
  /\ Attributes["aws_db_instance"]["publicly_accessible"] = {"true", "false"}
  /\ Attributes["aws_db_instance"]["storage_encrypted"] = {"true", "false"}
  /\ Attributes["aws_db_instance"]["backup_retention_period"] = {"int64 0", "string 0", "int64 7"}
  /\ Attributes["aws_db_instance"]["multi_az"] = {"true"}
  /\ Attributes["aws_ebs_volume"]["encrypted"] = {"true", "false"}
  /\ Attributes["azurerm_mssql_server"]["minimum_tls_version"] = {"1.0", "1.2"}
  /\ Attributes["azurerm_storage_account"]["allow_blob_public_access"] = {"true", "false"}
  BY DEF Attributes

LEMMA FixTable ==
  /\ DOMAIN Fixes = {"EXP_001", "EXP_002", "EXP_004", "ENC_001", "ENC_002", "ENC_004", "HIPAA_001", "PROD_001"}
  /\ Fixes["EXP_001"].field = "acl" /\ Fixes["EXP_001"].value = "private"
  /\ Fixes["EXP_002"].field = "publicly_accessible" /\ Fixes["EXP_002"].value = "false"
  /\ Fixes["EXP_004"].field = "allow_blob_public_access" /\ Fixes["EXP_004"].value = "false"
  /\ Fixes["ENC_001"].field = "storage_encrypted" /\ Fixes["ENC_001"].value = "true"
  /\ Fixes["ENC_002"].field = "encrypted" /\ Fixes["ENC_002"].value = "true"
  /\ Fixes["ENC_004"].field = "minimum_tls_version" /\ Fixes["ENC_004"].value = "1.2"
  /\ Fixes["HIPAA_001"].field = "backup_retention_period" /\ Fixes["HIPAA_001"].value = "int64 7"
  /\ Fixes["PROD_001"].field = "multi_az" /\ Fixes["PROD_001"].value = "true"
  BY DEF Fixes, AutoFix

-----------------------------------------------------------------------------
(* Each check finds only what is its own, and reads only some attributes.  *)
LEMMA OwnFindings ==
  ASSUME NEW t, NEW file, NEW others
  PROVE  /\ CheckExposure(t, file) \subseteq {"EXP_001", "EXP_002", "EXP_003", "EXP_004"}
         /\ CheckEncryption(t, file) \subseteq {"ENC_001", "ENC_002", "ENC_003", "ENC_004"}
         /\ CheckIAM(t, file) \subseteq {"IAM_001", "IAM_002", "IAM_003"}
         /\ CheckLogging(t, file, others) \subseteq {"LOG_001", "LOG_002", "LOG_003"}
         /\ CheckNetworking(t, file) \subseteq {"NET_001", "NET_002", "NET_003"}
         /\ CheckCompliance(t, file) \subseteq {"HIPAA_001", "SOC2_001", "PROD_001"}
         /\ CheckCrossResource(t, file, others) \subseteq {"GRAPH_001", "GRAPH_002", "GRAPH_003", "GRAPH_004", "GRAPH_005"}
  BY DEF CheckExposure, CheckEncryption, CheckIAM, CheckLogging, CheckNetworking, CheckCompliance,
         CheckCrossResource, Found

(* Two files that agree on every attribute but a. *)
Alike(g, file, a) == \A b : b # a => Property(g, b) = Property(file, b)

LEMMA ReadsOnly ==
  ASSUME NEW t, NEW others, NEW g, NEW file, NEW a, Alike(g, file, a)
  PROVE  /\ a \notin {"acl", "publicly_accessible", "access_config", "allow_blob_public_access"} =>
              CheckExposure(t, g) = CheckExposure(t, file)
         /\ a \notin {"storage_encrypted", "encrypted", "require_ssl", "minimum_tls_version"} =>
              CheckEncryption(t, g) = CheckEncryption(t, file)
         /\ a \notin {"policy", "role", "iam_instance_profile"} => CheckIAM(t, g) = CheckIAM(t, file)
         /\ a # "logging" => CheckLogging(t, g, others) = CheckLogging(t, file, others)
         /\ a \notin {"description", "source_ranges"} => CheckNetworking(t, g) = CheckNetworking(t, file)
         /\ a \notin {"backup_retention_period", "tags", "multi_az"} => CheckCompliance(t, g) = CheckCompliance(t, file)
         /\ a \notin {"associate_public_ip_address", "tracing_config"} =>
              CheckCrossResource(t, g, others) = CheckCrossResource(t, file, others)
<1> USE DEF Alike
<1>1. a \notin {"acl", "publicly_accessible", "access_config", "allow_blob_public_access"} =>
        CheckExposure(t, g) = CheckExposure(t, file)
  BY DEF CheckExposure, BoolProp, Has
<1>2. a \notin {"storage_encrypted", "encrypted", "require_ssl", "minimum_tls_version"} =>
        CheckEncryption(t, g) = CheckEncryption(t, file)
  BY DEF CheckEncryption, BoolProp
<1>3. a \notin {"policy", "role", "iam_instance_profile"} => CheckIAM(t, g) = CheckIAM(t, file)
  BY DEF CheckIAM, Has
<1>4. a # "logging" => CheckLogging(t, g, others) = CheckLogging(t, file, others)
  BY DEF CheckLogging, Has
<1>5. a \notin {"description", "source_ranges"} => CheckNetworking(t, g) = CheckNetworking(t, file)
  BY DEF CheckNetworking, Has
<1>6. a \notin {"backup_retention_period", "tags", "multi_az"} => CheckCompliance(t, g) = CheckCompliance(t, file)
  BY DEF CheckCompliance, Has, BoolProp, Zero
<1>7. a \notin {"associate_public_ip_address", "tracing_config"} =>
        CheckCrossResource(t, g, others) = CheckCrossResource(t, file, others)
  BY DEF CheckCrossResource, Has, BoolProp
<1> QED BY <1>1, <1>2, <1>3, <1>4, <1>5, <1>6, <1>7

LEMMA PoliciesReadOnly ==
  ASSUME NEW t, NEW g, NEW file, NEW a, Alike(g, file, a)
  PROVE  /\ a # "tags" => TagRules(t, g) = TagRules(t, file)
         /\ a \notin {"encryption", "storage_encrypted", "encrypted"} => EncryptionRules(t, g) = EncryptionRules(t, file)
         /\ a \notin {"acl", "cidr_blocks", "from_port", "map_public_ip_on_launch"} => AccessRules(t, g) = AccessRules(t, file)
         /\ a \notin {"instance_type", "backup_retention_period", "multi_az"} => DurabilityRules(t, g) = DurabilityRules(t, file)
         /\ a # "logging" => LoggingRules(t, g) = LoggingRules(t, file)
<1> USE DEF Alike
<1>1. a # "tags" => TagRules(t, g) = TagRules(t, file)
  BY DEF TagRules
<1>2. a \notin {"encryption", "storage_encrypted", "encrypted"} => EncryptionRules(t, g) = EncryptionRules(t, file)
  BY DEF EncryptionRules, Has, BoolProp
<1>3. a \notin {"acl", "cidr_blocks", "from_port", "map_public_ip_on_launch"} => AccessRules(t, g) = AccessRules(t, file)
  BY DEF AccessRules
<1>4. a \notin {"instance_type", "backup_retention_period", "multi_az"} => DurabilityRules(t, g) = DurabilityRules(t, file)
  BY DEF DurabilityRules, BoolProp, Zero
<1>5. a # "logging" => LoggingRules(t, g) = LoggingRules(t, file)
  BY DEF LoggingRules, Has
<1> QED BY <1>1, <1>2, <1>3, <1>4, <1>5

-----------------------------------------------------------------------------
(* Which resource a fixable finding is about, and what its fix sets.       *)
LEMMA FixableFinding ==
  ASSUME RulesTypeOK, NEW id \in Scan(type, hcl, companions) \intersect DOMAIN Fixes
  PROVE  /\ Fixes[id].field \in DOMAIN hcl
         /\ Fixes[id].value \in Attributes[type][Fixes[id].field] /\ Fixes[id].value # "block"
         /\ id = "EXP_001" => type = "aws_s3_bucket"
         /\ id \in {"EXP_002", "ENC_001", "HIPAA_001", "PROD_001"} => type = "aws_db_instance"
         /\ id = "EXP_004" => type = "azurerm_storage_account"
         /\ id = "ENC_002" => type = "aws_ebs_volume"
         /\ id = "ENC_004" => type = "azurerm_mssql_server"
<1>1. DOMAIN hcl = DOMAIN Attributes[type]
  BY DEF RulesTypeOK
<1>2. id \in DOMAIN Fixes /\ id \in Scan(type, hcl, companions)
  OBVIOUS
<1>3. id \in {"EXP_001", "EXP_002", "EXP_004", "ENC_001", "ENC_002", "ENC_004", "HIPAA_001", "PROD_001"}
  BY <1>2, FixTable
<1>4. id \in CheckExposure(type, hcl) \union CheckEncryption(type, hcl) \union CheckCompliance(type, hcl)
  BY <1>2, <1>3, OwnFindings DEF Scan
<1>5. /\ id = "EXP_001" => type = "aws_s3_bucket"
      /\ id \in {"EXP_002", "ENC_001", "HIPAA_001", "PROD_001"} => type = "aws_db_instance"
      /\ id = "EXP_004" => type = "azurerm_storage_account"
      /\ id = "ENC_002" => type = "aws_ebs_volume"
      /\ id = "ENC_004" => type = "azurerm_mssql_server"
  BY <1>4 DEF CheckExposure, CheckEncryption, CheckCompliance, Found, S3, RDS
<1>6. CASE id = "EXP_001"
  BY <1>1, <1>5, <1>6, FixTable, Attributed, FixValues
<1>7. CASE id = "EXP_002"
  BY <1>1, <1>5, <1>7, FixTable, Attributed, FixValues
<1>8. CASE id = "EXP_004"
  BY <1>1, <1>5, <1>8, FixTable, Attributed, FixValues
<1>9. CASE id = "ENC_001"
  BY <1>1, <1>5, <1>9, FixTable, Attributed, FixValues
<1>10. CASE id = "ENC_002"
  BY <1>1, <1>5, <1>10, FixTable, Attributed, FixValues
<1>11. CASE id = "ENC_004"
  BY <1>1, <1>5, <1>11, FixTable, Attributed, FixValues
<1>12. CASE id = "HIPAA_001"
  BY <1>1, <1>5, <1>12, FixTable, Attributed, FixValues
<1>13. CASE id = "PROD_001"
  BY <1>1, <1>5, <1>13, FixTable, Attributed, FixValues
<1> QED BY <1>3, <1>6, <1>7, <1>8, <1>9, <1>10, <1>11, <1>12, <1>13

LEMMA FixedAlike ==
  ASSUME RulesTypeOK, NEW id \in Scan(type, hcl, companions) \intersect DOMAIN Fixes
  PROVE  /\ Alike(Fixed(hcl, id), hcl, Fixes[id].field)
         /\ Property(Fixed(hcl, id), Fixes[id].field) = Fixes[id].value
<1> DEFINE a == Fixes[id].field
           v == Fixes[id].value
<1>1. a \in DOMAIN hcl /\ v # "block"
  BY FixableFinding
<1>2. hcl \in [DOMAIN Attributes[type] -> Settings(type)]
  BY DEF RulesTypeOK
<1>3. Fixed(hcl, id) = [hcl EXCEPT ![a] = v]
  BY DEF Fixed
<1> HIDE DEF a, v
<1>4. DOMAIN Fixed(hcl, id) = DOMAIN hcl /\ Fixed(hcl, id)[a] = v
  BY <1>1, <1>2, <1>3
<1>5. \A b \in DOMAIN hcl : b # a => Fixed(hcl, id)[b] = hcl[b]
  BY <1>2, <1>3
<1>6. Alike(Fixed(hcl, id), hcl, a) /\ Property(Fixed(hcl, id), a) = v
  BY <1>1, <1>4, <1>5 DEF Alike, Property
<1> QED BY <1>6 DEF a, v

-----------------------------------------------------------------------------
(* A fix leaves its check with one finding less, and the others as they are. *)
LEMMA FixEnds ==
  ASSUME RulesTypeOK, NEW id \in Scan(type, hcl, companions) \intersect DOMAIN Fixes
  PROVE  /\ Scan(type, Fixed(hcl, id), companions) = Scan(type, hcl, companions) \ {id}
         /\ Violations(type, Fixed(hcl, id)) \subseteq Violations(type, hcl)
<1> DEFINE g == Fixed(hcl, id)
           a == Fixes[id].field
           v == Fixes[id].value
<1>1. Alike(g, hcl, a) /\ Property(g, a) = v
  BY FixedAlike
<1>10. /\ id = "EXP_001" => a = "acl" /\ v = "private" /\ type = "aws_s3_bucket"
       /\ id = "EXP_002" => a = "publicly_accessible" /\ v = "false" /\ type = "aws_db_instance"
       /\ id = "EXP_004" => a = "allow_blob_public_access" /\ v = "false" /\ type = "azurerm_storage_account"
  BY FixTable, FixableFinding
<1>11. /\ id = "ENC_001" => a = "storage_encrypted" /\ v = "true" /\ type = "aws_db_instance"
       /\ id = "ENC_002" => a = "encrypted" /\ v = "true" /\ type = "aws_ebs_volume"
       /\ id = "ENC_004" => a = "minimum_tls_version" /\ v = "1.2" /\ type = "azurerm_mssql_server"
  BY FixTable, FixableFinding
<1>12. /\ id = "HIPAA_001" => a = "backup_retention_period" /\ v = "int64 7" /\ type = "aws_db_instance"
       /\ id = "PROD_001" => a = "multi_az" /\ v = "true" /\ type = "aws_db_instance"
  BY FixTable, FixableFinding
<1>2. id \in {"EXP_001", "EXP_002", "EXP_004", "ENC_001", "ENC_002", "ENC_004", "HIPAA_001", "PROD_001"}
  BY FixTable
<1> HIDE DEF g, a, v
<1>3. CASE id \in {"EXP_001", "EXP_002", "EXP_004"}
  <2>1. /\ CheckEncryption(type, g) = CheckEncryption(type, hcl) /\ CheckIAM(type, g) = CheckIAM(type, hcl)
        /\ CheckLogging(type, g, companions) = CheckLogging(type, hcl, companions)
        /\ CheckNetworking(type, g) = CheckNetworking(type, hcl) /\ CheckCompliance(type, g) = CheckCompliance(type, hcl)
        /\ CheckCrossResource(type, g, companions) = CheckCrossResource(type, hcl, companions)
    BY <1>1, <1>3, <1>10, ReadsOnly
  <2>2. /\ TagRules(type, g) = TagRules(type, hcl) /\ EncryptionRules(type, g) = EncryptionRules(type, hcl)
        /\ DurabilityRules(type, g) = DurabilityRules(type, hcl) /\ LoggingRules(type, g) = LoggingRules(type, hcl)
    BY <1>1, <1>3, <1>10, PoliciesReadOnly
  <2>3. CheckExposure(type, g) = CheckExposure(type, hcl) \ {id}
    BY <1>1, <1>3, <1>10 DEF Alike, CheckExposure, Found, S3, RDS, BoolProp, Has
  <2>4. AccessRules(type, g) \subseteq AccessRules(type, hcl)
    BY <1>1, <1>3, <1>10 DEF Alike, AccessRules, Found
  <2> QED BY <1>3, <2>1, <2>2, <2>3, <2>4, OwnFindings DEF Scan, Violations, g
<1>4. CASE id \in {"ENC_001", "ENC_002", "ENC_004"}
  <2>1. /\ CheckExposure(type, g) = CheckExposure(type, hcl) /\ CheckIAM(type, g) = CheckIAM(type, hcl)
        /\ CheckLogging(type, g, companions) = CheckLogging(type, hcl, companions)
        /\ CheckNetworking(type, g) = CheckNetworking(type, hcl) /\ CheckCompliance(type, g) = CheckCompliance(type, hcl)
        /\ CheckCrossResource(type, g, companions) = CheckCrossResource(type, hcl, companions)
    BY <1>1, <1>4, <1>11, ReadsOnly
  <2>2. /\ TagRules(type, g) = TagRules(type, hcl) /\ AccessRules(type, g) = AccessRules(type, hcl)
        /\ DurabilityRules(type, g) = DurabilityRules(type, hcl) /\ LoggingRules(type, g) = LoggingRules(type, hcl)
    BY <1>1, <1>4, <1>11, PoliciesReadOnly
  <2>3. CheckEncryption(type, g) = CheckEncryption(type, hcl) \ {id}
    BY <1>1, <1>4, <1>11 DEF Alike, CheckEncryption, Found, RDS, BoolProp
  <2>4. EncryptionRules(type, g) \subseteq EncryptionRules(type, hcl)
    BY <1>1, <1>4, <1>11 DEF Alike, EncryptionRules, Found, BoolProp, Has
  <2> QED BY <1>4, <2>1, <2>2, <2>3, <2>4, OwnFindings DEF Scan, Violations, g
<1>5. CASE id \in {"HIPAA_001", "PROD_001"}
  <2>1. /\ CheckExposure(type, g) = CheckExposure(type, hcl) /\ CheckIAM(type, g) = CheckIAM(type, hcl)
        /\ CheckLogging(type, g, companions) = CheckLogging(type, hcl, companions)
        /\ CheckNetworking(type, g) = CheckNetworking(type, hcl) /\ CheckEncryption(type, g) = CheckEncryption(type, hcl)
        /\ CheckCrossResource(type, g, companions) = CheckCrossResource(type, hcl, companions)
    BY <1>1, <1>5, <1>12, ReadsOnly
  <2>2. /\ TagRules(type, g) = TagRules(type, hcl) /\ AccessRules(type, g) = AccessRules(type, hcl)
        /\ EncryptionRules(type, g) = EncryptionRules(type, hcl) /\ LoggingRules(type, g) = LoggingRules(type, hcl)
    BY <1>1, <1>5, <1>12, PoliciesReadOnly
  <2>3. CheckCompliance(type, g) = CheckCompliance(type, hcl) \ {id}
    BY <1>1, <1>5, <1>12 DEF Alike, CheckCompliance, Found, RDS, BoolProp, Has, Zero
  <2>4. DurabilityRules(type, g) \subseteq DurabilityRules(type, hcl)
    BY <1>1, <1>5, <1>12 DEF Alike, DurabilityRules, Found, BoolProp, Zero
  <2> QED BY <1>5, <2>1, <2>2, <2>3, <2>4, OwnFindings DEF Scan, Violations, g
<1> QED BY <1>2, <1>3, <1>4, <1>5

(* The score of fewer findings is not lower.                               *)
LEMMA FindingsFinite ==
  ASSUME NEW t, NEW file, NEW others
  PROVE  IsFiniteSet(Scan(t, file, others))
<1>1. \A id, condition : IsFiniteSet(Found(id, condition))
  BY FS_EmptySet, FS_Singleton DEF Found
<1>2. \A S, T : IsFiniteSet(S) /\ IsFiniteSet(T) => IsFiniteSet(S \union T)
  BY FS_Union
<1>3. IsFiniteSet(CheckExposure(t, file)) /\ IsFiniteSet(CheckEncryption(t, file))
  BY <1>1, <1>2 DEF CheckExposure, CheckEncryption
<1>4. IsFiniteSet(CheckIAM(t, file)) /\ IsFiniteSet(CheckLogging(t, file, others)) /\ IsFiniteSet(CheckNetworking(t, file))
  BY <1>1, <1>2 DEF CheckIAM, CheckLogging, CheckNetworking
<1>5. IsFiniteSet(CheckCompliance(t, file)) /\ IsFiniteSet(CheckCrossResource(t, file, others))
  BY <1>1, <1>2 DEF CheckCompliance, CheckCrossResource
<1> QED BY <1>2, <1>3, <1>4, <1>5 DEF Scan

LEMMA FewerScoreMore ==
  ASSUME NEW ids, NEW fewer, IsFiniteSet(ids), fewer \subseteq ids
  PROVE  Score(fewer) >= Score(ids)
<1> DEFINE rest == Critical \union High \union Low
           n(S) == Cardinality(S)
<1>1. \A S : S \subseteq ids => IsFiniteSet(S) /\ Cardinality(S) \in Nat
  BY FS_Subset, FS_CardinalityType
<1>2. \A S, T : T \subseteq ids /\ S \subseteq T => Cardinality(S) <= Cardinality(T)
  BY <1>1, FS_Subset
<1>3. /\ Cardinality(fewer \intersect Critical) <= Cardinality(ids \intersect Critical)
      /\ Cardinality(fewer \intersect High) <= Cardinality(ids \intersect High)
      /\ Cardinality(fewer \intersect Low) <= Cardinality(ids \intersect Low)
      /\ Cardinality(fewer \ rest) <= Cardinality(ids \ rest)
  BY <1>2
<1>4. /\ Cardinality(fewer \intersect Critical) \in Nat /\ Cardinality(ids \intersect Critical) \in Nat
      /\ Cardinality(fewer \intersect High) \in Nat /\ Cardinality(ids \intersect High) \in Nat
      /\ Cardinality(fewer \intersect Low) \in Nat /\ Cardinality(ids \intersect Low) \in Nat
      /\ Cardinality(fewer \ rest) \in Nat /\ Cardinality(ids \ rest) \in Nat
  BY <1>1
<1> QED BY <1>3, <1>4 DEF Score

-----------------------------------------------------------------------------
LEMMA RulesStart == RulesInit => RulesTypeOK
<1> SUFFICES ASSUME RulesInit PROVE RulesTypeOK
  OBVIOUS
<1>1. NotSet \in Settings(type)
  BY DEF Settings
<1>2. hcl \in [DOMAIN Attributes[type] -> Settings(type)] /\ \A a \in DOMAIN hcl : hcl[a] = NotSet
  BY <1>1 DEF RulesInit
<1> QED BY <1>2 DEF RulesInit, RulesTypeOK

LEMMA SettingKept ==
  ASSUME RulesTypeOK, NEW a \in DOMAIN hcl, NEW v \in Attributes[type][a] \union {NotSet},
         hcl' = [hcl EXCEPT ![a] = v], UNCHANGED <<type, companions>>
  PROVE  RulesTypeOK'
<1>1. hcl \in [DOMAIN Attributes[type] -> Settings(type)]
  BY DEF RulesTypeOK
<1>2. v \in Settings(type)
  BY <1>1 DEF Settings
<1>3. hcl' \in [DOMAIN Attributes[type] -> Settings(type)]
  BY <1>1, <1>2
<1>4. \A b \in DOMAIN hcl' : hcl'[b] \in Attributes[type][b] \union {NotSet}
  BY <1>1 DEF RulesTypeOK
<1> QED BY <1>3, <1>4 DEF RulesTypeOK

LEMMA RulesTypesKept == RulesTypeOK /\ [RulesNext]_ruleVars => RulesTypeOK'
<1> SUFFICES ASSUME RulesTypeOK, [RulesNext]_ruleVars PROVE RulesTypeOK'
  OBVIOUS
<1>1. CASE EditAttribute
  <2>1. PICK a \in DOMAIN hcl : \E v \in Attributes[type][a] \union {NotSet} : hcl' = [hcl EXCEPT ![a] = v]
    BY <1>1 DEF EditAttribute
  <2>2. PICK v \in Attributes[type][a] \union {NotSet} : hcl' = [hcl EXCEPT ![a] = v]
    BY <2>1
  <2> QED BY <1>1, <2>2, SettingKept DEF EditAttribute
<1>2. CASE AddCompanion
  BY <1>2 DEF AddCompanion, RulesTypeOK
<1>3. CASE ApplyFix
  <2>1. PICK id \in Scan(type, hcl, companions) \intersect DOMAIN Fixes : hcl' = [hcl EXCEPT ![Fixes[id].field] = Fixes[id].value]
    BY <1>3 DEF ApplyFix, Fixed
  <2>2. Fixes[id].field \in DOMAIN hcl /\ Fixes[id].value \in Attributes[type][Fixes[id].field]
    BY FixableFinding
  <2> QED BY <1>3, <2>1, <2>2, SettingKept DEF ApplyFix
<1>4. CASE UNCHANGED ruleVars
  BY <1>4 DEF ruleVars, RulesTypeOK
<1> QED BY <1>1, <1>2, <1>3, <1>4 DEF RulesNext

LEMMA PairsAgree == SetsAgree
  BY DEF SetsAgree, Pairs, Violations, Scan, TagRules, EncryptionRules, AccessRules, DurabilityRules, LoggingRules,
         CheckExposure, CheckEncryption, CheckIAM, CheckLogging, CheckNetworking, CheckCompliance, CheckCrossResource, Found

(* However a resource is edited, every fix ends the finding it is for and  *)
(* no other, and the two rule sets agree on what both judge (policy.go,    *)
(* scanner.go).                                                            *)
THEOREM RulesHold == RulesInit /\ [][RulesNext]_ruleVars => []RulesAgree
<1>1. RulesTypeOK => RulesAgree
  <2> SUFFICES ASSUME RulesTypeOK PROVE FixesFix
    BY PairsAgree DEF RulesAgree
  <2>1. ASSUME NEW id \in Scan(type, hcl, companions) \intersect DOMAIN Fixes
        PROVE  /\ Scan(type, Fixed(hcl, id), companions) = Scan(type, hcl, companions) \ {id}
               /\ Violations(type, Fixed(hcl, id)) \subseteq Violations(type, hcl)
               /\ Score(Scan(type, hcl, companions) \ {id}) >= Score(Scan(type, hcl, companions))
    BY FixEnds, FindingsFinite, FewerScoreMore
  <2> QED BY <2>1 DEF FixesFix
<1> QED BY <1>1, RulesStart, RulesTypesKept, PTL
=============================================================================
